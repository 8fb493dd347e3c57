-------------------------- MODULE QuickChatProofs --------------------------
(***************************************************************************)
(* Theorems about the quick channel, for any number of messages of the     *)
(* user, of things that go wrong and of threads that write the session's   *)
(* row: a turn has one reply, no session is left running, the events       *)
(* follow the protocol, and an end is sent after it has been saved.        *)
(***************************************************************************)
EXTENDS QuickChat, SequenceTheorems, TLAPS

Message == [role : {"user", "assistant"}, run : Nat, said : Nat]
ChatCall == [op : {"append", "upsert"}, read : BOOLEAN, base : Seq(Message), msg : Message]
StatusCall == [op : {"status"},
               value : {"running", "interrupted", "completed", "failed"}]

Alternates(h) ==
    \A i \in 2 .. Len(h) : h[i - 1].role = "assistant" => h[i].role = "user"

\* What a call has read alternates, and only the user's message is appended.
ChatCalls == {c \in ChatCall : Alternates(c.base) /\ (c.op = "append" => c.msg.role = "user")}
Calls == ChatCalls \cup StatusCall

Stages == {"over", "opening", "pulling", "sending", "ending", "failing"}

RequestOK ==
    ep \in [run : Nat, stage : Stages, calls : Seq(Calls), event : Events, said : Nat,
           some : BOOLEAN, saved : BOOLEAN, alone : BOOLEAN]

HistoryOK == history \in Seq(Message) /\ Alternates(history)

Pcs == {"turn", "tools", "stream", "final", "over"}
Blocks == {"none", "ark", "dsml", "given"}
LoopType == [pc : Pcs, iter : Int, empties : Nat, chunks : Nat, text : BOOLEAN,
             block : Blocks, calls : Int, broken : BOOLEAN]

AgentOK == loop \in LoopType /\ seg \in Kinds \cup {"none"} /\ outbox \in Seq(Events)

NoEnd(events) == \A i \in 1 .. Len(events) : events[i] # "finished"

\* A finished run is one whose loop ended, and not by an error.
Whole == loop.pc = "over" /\ ~loop.broken
EndsOK == /\ loop.broken => loop.pc = "over"
          /\ NoEnd(outbox) \/ Whole
          /\ ep.event = "finished" => Whole

WorkersOK == workers \in SUBSET Seq(Calls) /\ << >> \notin workers

\* The last of these calls writes how a run ended.
Telling(calls) ==
    /\ calls # << >>
    /\ calls[Len(calls)].op = "status" /\ calls[Len(calls)].value # "running"

\* An end is saved when its calls are done.
EndSaved ==
    /\ ep.stage \in {"over", "opening", "pulling"} => ep.event = "started"
    /\ ep.stage \in {"failing", "ending"} => ep.event \in TerminalEvents
    /\ ep.stage \in {"over", "ending"} => ep.calls = << >>
    /\ ep.event \notin TerminalEvents => ~ep.saved
    /\ ep.event \in TerminalEvents => /\ ep.saved <=> ep.calls = << >>
                                      /\ ep.calls # << >> => Telling(ep.calls)

\* Somebody still owes the row a status, or has lost it.
Owed == spoiled \/ \E w \in workers : Telling(w)
StatusOwed ==
    /\ \A w \in workers : \A i \in 1 .. Len(w) : w[i] = Status("running") => spoiled
    /\ status = "running" => Owed \/ (ep.stage # "over" /\ ~ep.saved)

ChatInv == RequestOK /\ HistoryOK /\ WorkersOK /\ AgentOK /\ EndsOK /\ EndSaved /\ StatusOwed

-----------------------------------------------------------------------------
(* The store. *)
LEMMA StatusIsCall ==
  ASSUME NEW v \in {"running", "interrupted", "completed", "failed"}
  PROVE  Status(v) \in Calls /\ Status(v).op = "status" /\ Status(v).value = v
BY DEF Status, Calls, StatusCall

LEMMA EmptyAlternates == Alternates(<< >>) /\ << >> \in Seq(Message)
BY DEF Alternates

LEMMA AppendIsCall ==
  ASSUME NEW r \in Nat
  PROVE  AppendChat(r) \in Calls
<1>1. AppendChat(r) \in ChatCall
  BY EmptyAlternates DEF AppendChat, ChatCall, Message
<1>2. AppendChat(r).base = << >> /\ AppendChat(r).msg.role = "user"
  BY DEF AppendChat
<1>3. QED
  BY <1>1, <1>2, EmptyAlternates DEF Calls, ChatCalls

LEMMA UpsertIsCall ==
  ASSUME NEW r \in Nat, NEW s \in Nat
  PROVE  UpsertChat(r, s) \in Calls
<1>1. UpsertChat(r, s) \in ChatCall
  BY EmptyAlternates DEF UpsertChat, ChatCall, Message
<1>2. UpsertChat(r, s).base = << >> /\ UpsertChat(r, s).op = "upsert"
  BY DEF UpsertChat
<1>3. QED
  BY <1>1, <1>2, EmptyAlternates DEF Calls, ChatCalls

\* A message after one that is not a reply, or that is the user's, keeps the turns apart.
LEMMA AppendAlternates ==
  ASSUME NEW h \in Seq(Message), Alternates(h), NEW m \in Message,
         m.role = "user" \/ ~Current(h)
  PROVE  h \o <<m>> \in Seq(Message) /\ Alternates(h \o <<m>>)
<1> DEFINE g == h \o <<m>>
<1>1. /\ g \in Seq(Message) /\ Len(g) = Len(h) + 1
      /\ \A i \in 1 .. Len(h) : g[i] = h[i]
      /\ g[Len(h) + 1] = m
  OBVIOUS
<1>2. ASSUME NEW i \in 2 .. Len(g), g[i - 1].role = "assistant"
      PROVE  g[i].role = "user"
  <2>1. CASE i \in 2 .. Len(h)
    BY <1>1, <1>2, <2>1 DEF Alternates
  <2>2. CASE i = Len(h) + 1
    <3>1. Len(h) \in 1 .. Len(h) /\ i - 1 = Len(h)
      BY <2>2, <1>1, <1>2
    <3>2. h[Len(h)].role = "assistant" /\ h # << >>
      BY <3>1, <1>1, <1>2
    <3>3. QED
      BY <3>2, <2>2, <1>1 DEF Current
  <2>3. QED
    BY <1>1, <1>2, <2>1, <2>2
<1>3. QED
  BY <1>1, <1>2 DEF Alternates

\* What upsert_chat writes over a history that alternates alternates.
LEMMA PutAlternates ==
  ASSUME NEW h \in Seq(Message), Alternates(h), NEW m \in Message
  PROVE  Put(h, m) \in Seq(Message) /\ Alternates(Put(h, m))
<1>1. CASE ~Current(h)
  BY <1>1, AppendAlternates DEF Put
<1>2. CASE Current(h)
  <2> DEFINE g == [h EXCEPT ![Len(h)] = m]
  <2>1. /\ g \in Seq(Message) /\ Len(g) = Len(h) /\ Put(h, m) = g
        /\ \A i \in 1 .. Len(h) : i # Len(h) => g[i] = h[i]
    BY <1>2 DEF Put, Current
  <2> HIDE DEF g
  <2>2. ASSUME NEW i \in 2 .. Len(g), g[i - 1].role = "assistant"
        PROVE  g[i].role = "user"
    <3>1. /\ Len(h) \in Nat /\ i \in 2 .. Len(h)
          /\ i - 1 \in 1 .. Len(h) /\ i - 1 # Len(h) /\ i \in 1 .. Len(h)
      BY <2>1
    <3>2. g[i - 1] = h[i - 1]
      BY <2>1, <3>1
    <3>3. h[i].role = "user"
      BY <2>2, <3>1, <3>2 DEF Alternates
    <3>4. i # Len(h)
      BY <3>3, <1>2 DEF Current
    <3>5. QED
      BY <3>1, <3>3, <3>4, <2>1
  <2>3. QED
    BY <2>1, <2>2 DEF Alternates
<1>3. QED
  BY <1>1, <1>2

LEMMA CallKinds ==
  ASSUME NEW c \in Calls
  PROVE  /\ c.op = "status" => c \in StatusCall
         /\ c.op # "status" => c \in ChatCalls /\ c \in ChatCall /\ Alternates(c.base)
BY DEF Calls, ChatCalls, ChatCall, StatusCall

LEMMA SavedAlternates ==
  ASSUME NEW c \in Calls, c.op # "status"
  PROVE  Saved(c) \in Seq(Message) /\ Alternates(Saved(c))
<1>1. c \in ChatCalls /\ c.base \in Seq(Message) /\ Alternates(c.base) /\ c.msg \in Message
  BY CallKinds DEF ChatCall
<1>2. CASE c.op = "append"
  BY <1>1, <1>2, AppendAlternates DEF Saved, ChatCalls
<1>3. CASE c.op # "append"
  BY <1>1, <1>3, PutAlternates DEF Saved
<1>4. QED
  BY <1>2, <1>3

LEMMA StatementOK ==
  ASSUME HistoryOK, NEW c \in Calls, Statement(c)
  PROVE  HistoryOK'
<1>1. CASE Reads(c) \/ c.op = "status"
  BY <1>1 DEF Statement, sessionVars, HistoryOK
<1>2. CASE ~Reads(c) /\ c.op # "status"
  <2>1. history' = Saved(c)
    BY <1>2 DEF Statement
  <2>2. QED
    BY <2>1, <1>2, SavedAlternates DEF HistoryOK
<1>3. QED
  BY <1>1, <1>2

LEMMA RestOK ==
  ASSUME HistoryOK, NEW cs \in Seq(Calls), cs # << >>
  PROVE  Rest(cs) \in Seq(Calls) /\ Head(cs) \in Calls /\ Tail(cs) \in Seq(Calls)
<1>1. Head(cs) \in Calls /\ Tail(cs) \in Seq(Calls) /\ cs[1] = Head(cs) /\ 1 \in 1 .. Len(cs)
  OBVIOUS
<1>2. CASE Reads(Head(cs))
  <2> DEFINE c == [cs[1] EXCEPT !.base = history, !.read = TRUE]
  <2>1. cs[1] \in ChatCalls /\ cs[1] \in ChatCall
    BY <1>1, <1>2, CallKinds DEF Reads
  <2>2. /\ c \in ChatCall /\ c.base = history /\ c.op = cs[1].op /\ c.msg = cs[1].msg
    BY <2>1 DEF ChatCall, HistoryOK
  <2>3. c \in Calls
    BY <2>1, <2>2 DEF Calls, ChatCalls, HistoryOK
  <2>4. Rest(cs) = [cs EXCEPT ![1] = c]
    BY <1>1, <1>2, <2>1 DEF Rest, ChatCall
  <2>5. QED
    BY <2>3, <2>4, <1>1
<1>3. CASE ~Reads(Head(cs))
  BY <1>1, <1>3 DEF Rest
<1>4. QED
  BY <1>1, <1>2, <1>3
-----------------------------------------------------------------------------
(* The agent. *)
\* What the changes of the loop's locals keep.
LEMMA LoopGivesBack ==
  ASSUME NEW l \in LoopType, NEW b \in Blocks, NEW t \in BOOLEAN,
         NEW r, r = [l EXCEPT !.block = b, !.text = t]
  PROVE  r \in LoopType /\ r.pc = l.pc /\ r.broken = l.broken
BY DEF LoopType

LEMMA LoopGoesOn ==
  ASSUME NEW l \in LoopType, NEW p \in Pcs,
         NEW r, r = [l EXCEPT !.pc = p]
  PROVE  r \in LoopType /\ r.pc = p /\ r.broken = l.broken
BY DEF LoopType

LEMMA OverIsPc == "over" \in Pcs
BY DEF Pcs

LEMMA ClosingOK ==
  ASSUME seg \in Kinds \cup {"none"}
  PROVE  Closing \in Seq(Events) /\ NoEnd(Closing)
BY DEF Closing, Kinds, EndOf, StartOf, Events, TerminalEvents, NoEnd

LEMMA NoEndConcat ==
  ASSUME NEW s \in Seq(Events), NEW t \in Seq(Events), NoEnd(s), NoEnd(t)
  PROVE  s \o t \in Seq(Events) /\ NoEnd(s \o t)
BY DEF NoEnd

LEMMA SayOK ==
  ASSUME seg \in Kinds \cup {"none"}, NEW k \in Kinds, Say(k)
  PROVE  seg' \in Kinds \cup {"none"} /\ outbox' \in Seq(Events) /\ NoEnd(outbox')
<1>1. <<StartOf[k]>> \in Seq(Events) /\ <<k>> \in Seq(Events)
  BY DEF Kinds, StartOf, Events
<1>2. NoEnd(<<StartOf[k]>>) /\ NoEnd(<<k>>)
  BY DEF Kinds, StartOf, NoEnd
<1>3. << >> \in Seq(Events) /\ NoEnd(<< >>)
  BY DEF NoEnd
<1> DEFINE opened == Closing \o <<StartOf[k]>>
<1>4. opened \in Seq(Events) /\ NoEnd(opened)
  BY <1>1, <1>2, ClosingOK, NoEndConcat
<1>5. seg' = k /\ outbox' = (IF seg = k THEN << >> ELSE opened) \o <<k>>
  BY DEF Say
<1> HIDE DEF opened
<1>6. QED
  BY <1>1, <1>2, <1>3, <1>4, <1>5, NoEndConcat

LEMMA SilentOK ==
  ASSUME seg \in Kinds \cup {"none"}, outbox = << >>, Silent
  PROVE  seg' \in Kinds \cup {"none"} /\ outbox' \in Seq(Events) /\ NoEnd(outbox')
BY DEF Silent, NoEnd

LEMMA FailOK ==
  ASSUME seg \in Kinds \cup {"none"}, NEW l \in LoopType, Fail(l)
  PROVE  /\ loop' \in LoopType /\ loop'.pc = "over"
         /\ seg' \in Kinds \cup {"none"} /\ outbox' \in Seq(Events) /\ NoEnd(outbox')
<1>1. loop' = [l EXCEPT !.pc = "over"] /\ seg' = "none" /\ outbox' = Closing \o <<"failed">>
  BY DEF Fail, CloseAndSend
<1>2. <<"failed">> \in Seq(Events) /\ NoEnd(<<"failed">>)
  BY DEF Events, TerminalEvents, NoEnd
<1>3. outbox' \in Seq(Events) /\ NoEnd(outbox')
  BY <1>1, <1>2, ClosingOK, NoEndConcat
<1>4. QED
  BY <1>1, <1>3, OverIsPc, LoopGoesOn

LEMMA FinishOK ==
  ASSUME seg \in Kinds \cup {"none"}, CloseAndSend(<<"finished">>)
  PROVE  seg' \in Kinds \cup {"none"} /\ outbox' \in Seq(Events)
<1>1. <<"finished">> \in Seq(Events)
  BY DEF Events, TerminalEvents
<1>2. QED
  BY <1>1, ClosingOK DEF CloseAndSend

LEMMA AfterLoopOK ==
  ASSUME AgentOK, outbox = << >>, ~loop.broken, NEW l \in LoopType, ~l.broken, AfterLoop(l)
  PROVE  AgentOK' /\ ~loop'.broken /\ (NoEnd(outbox') \/ loop'.pc = "over")
<1>1. CASE l.iter >= MaxIterations
  <2>1. PICK p \in Pcs, b \in Blocks :
           loop' = [l EXCEPT !.pc = p, !.iter = l.iter, !.text = FALSE, !.block = b]
    BY <1>1 DEF AfterLoop, Calling, Pcs, Blocks
  <2>2. l.iter \in Int
    BY DEF LoopType
  <2>3. loop' \in LoopType /\ ~loop'.broken
    BY <2>1, <2>2 DEF LoopType
  <2>4. QED
    BY <1>1, <2>3, SilentOK DEF AfterLoop, AgentOK
<1>2. CASE ~(l.iter >= MaxIterations)
  <2>1. loop' = [l EXCEPT !.pc = "over"] /\ CloseAndSend(<<"finished">>)
    BY <1>2 DEF AfterLoop
  <2>2. QED
    BY <2>1, OverIsPc, LoopGoesOn, FinishOK DEF AgentOK
<1>3. QED
  BY <1>1, <1>2

\* The events that announce the tools, after what the loop had held back.
LEMMA AnnounceOK ==
  ASSUME AgentOK, NEW n \in 1 .. MaxCalls, NEW rest \in BOOLEAN, Announce(n, rest)
  PROVE  /\ AgentOK' /\ NoEnd(outbox')
         /\ loop'.pc = "tools" /\ loop'.broken = loop.broken
<1> DEFINE opened == <<StartOf["text"], "text", EndOf["text"]>>
           ended == <<"text", EndOf["text"]>>
           calls == [j \in 1 .. n |-> "call"]
           before == IF rest /\ seg # "text" THEN Closing \o opened
                     ELSE IF rest THEN ended ELSE Closing
<1>1. /\ opened \in Seq(Events) /\ NoEnd(opened)
      /\ ended \in Seq(Events) /\ NoEnd(ended)
  BY DEF Kinds, StartOf, EndOf, Events, NoEnd
<1>2. n \in Nat
  BY AgentAssumption
<1>3. calls \in Seq(Events) /\ NoEnd(calls)
  BY <1>2 DEF Events, NoEnd
<1>4. outbox' = before \o calls /\ seg' = "none"
  BY DEF Announce
<1> HIDE DEF opened, ended, calls
<1>5. Closing \o opened \in Seq(Events) /\ NoEnd(Closing \o opened)
  BY <1>1, ClosingOK, NoEndConcat DEF AgentOK
<1>6. before \in Seq(Events) /\ NoEnd(before)
  BY <1>1, <1>5, ClosingOK DEF AgentOK
<1> HIDE DEF before
<1>7. outbox' \in Seq(Events) /\ NoEnd(outbox')
  BY <1>3, <1>4, <1>6, NoEndConcat
<1>8. loop' \in LoopType /\ loop'.pc = "tools" /\ loop'.broken = loop.broken
  <2>1. PICK p \in Pcs, b \in Blocks :
           /\ p = "tools"
           /\ loop' = [loop EXCEPT !.pc = p, !.calls = n, !.text = FALSE, !.block = b]
    BY DEF Announce, Pcs, Blocks
  <2>2. n \in Int
    BY <1>2
  <2>3. QED
    BY <2>1, <2>2 DEF AgentOK, LoopType
<1>9. QED
  BY <1>4, <1>7, <1>8 DEF AgentOK

LEMMA AgentStepOK ==
  ASSUME AgentOK, ~loop.broken, loop.pc # "over", AgentStep
  PROVE  /\ AgentOK'
         /\ loop'.broken => loop'.pc = "over"
         /\ NoEnd(outbox') \/ Whole'
<1> USE DEF AgentOK
<1>1. outbox = << >>
  BY DEF AgentStep
<1>2. CASE Turn
  <2>1. CASE loop.iter < MaxIterations
    <3>1. PICK p \in Pcs, b \in Blocks :
             loop' = [loop EXCEPT !.pc = p, !.iter = loop.iter + 1, !.text = FALSE, !.block = b]
      BY <1>2, <2>1 DEF Turn, Calling, Pcs, Blocks
    <3>2. Silent
      BY <1>2, <2>1 DEF Turn
    <3>3. loop.iter + 1 \in Int
      BY DEF LoopType
    <3>4. loop' \in LoopType /\ ~loop'.broken
      BY <3>1, <3>3 DEF LoopType
    <3>5. QED
      BY <1>1, <3>2, <3>4, SilentOK
  <2>2. CASE ~(loop.iter < MaxIterations)
    BY <1>1, <1>2, <2>2, AfterLoopOK DEF Turn, Whole
  <2>3. QED
    BY <2>1, <2>2
<1>3. CASE RunTool
  <2>1. outbox' \in Seq(Events) /\ NoEnd(outbox')
    BY <1>3 DEF RunTool, Events, NoEnd
  <2>2. loop' \in LoopType /\ ~loop'.broken
    <3>1. PICK p \in Pcs :
             loop' = [loop EXCEPT !.calls = loop.calls - 1, !.pc = p]
      BY <1>3 DEF RunTool, Pcs
    <3>2. loop.calls - 1 \in Int
      BY DEF LoopType
    <3>3. QED
      BY <3>1, <3>2 DEF LoopType
  <2>3. QED
    BY <1>3, <2>1, <2>2 DEF RunTool
<1>4. CASE Reason
  BY <1>1, <1>4, SayOK, SilentOK DEF Reason, Kinds
<1>5. CASE CollectCall
  BY <1>1, <1>5 DEF CollectCall, NoEnd
<1>6. CASE \E error \in {"retryable", "trigger", "other"} : CallFails(error)
  <2>1. PICK error \in {"retryable", "trigger", "other"} : CallFails(error)
    BY <1>6
  <2>2. CASE UNCHANGED loop /\ Silent
    BY <1>1, <2>2, SilentOK
  <2>3. CASE Raise
    <3>1. [loop EXCEPT !.broken = TRUE] \in LoopType
      BY DEF LoopType
    <3>2. QED
      BY <2>3, <3>1, FailOK DEF Raise
  <2>4. QED
    BY <2>1, <2>2, <2>3 DEF CallFails
<1>7. CASE Truncate
  BY <1>1, <1>6, <1>7, SilentOK DEF Truncate
<1>8. ASSUME NEW opens \in {"none", "ark", "dsml"}, Write(opens)
      PROVE  AgentOK' /\ ~loop'.broken /\ NoEnd(outbox')
  <2>1. loop' \in LoopType /\ ~loop'.broken
    <3>1. PICK b \in Blocks, t \in BOOLEAN :
             loop' = [loop EXCEPT !.chunks = loop.chunks + 1, !.block = b, !.text = t]
      BY <1>8 DEF Write, LoopType, Blocks
    <3>2. loop.chunks + 1 \in Nat
      BY DEF LoopType
    <3>3. QED
      BY <3>1, <3>2 DEF LoopType
  <2>2. seg' \in Kinds \cup {"none"} /\ outbox' \in Seq(Events) /\ NoEnd(outbox')
    BY <1>1, <1>8, SayOK, SilentOK DEF Write, Kinds
  <2>3. QED
    BY <2>1, <2>2
<1>9. CASE GiveBack
  <2>1. loop' = [loop EXCEPT !.block = "given", !.text = TRUE] /\ "given" \in Blocks
    BY <1>9 DEF GiveBack, Blocks
  <2>2. loop' \in LoopType /\ ~loop'.broken
    BY <2>1, LoopGivesBack
  <2>3. QED
    BY <1>9, <2>2, SayOK DEF GiveBack, Kinds
<1>10. CASE NoAnswer
  <2>1. CASE loop.empties < MaxEmpty
    <3>1. PICK p \in Pcs :
             loop' = [loop EXCEPT !.empties = loop.empties + 1, !.iter = loop.iter - 1, !.pc = p]
      BY <1>10, <2>1 DEF NoAnswer, Pcs
    <3>2. Silent
      BY <1>10, <2>1 DEF NoAnswer
    <3>3. loop.empties + 1 \in Nat /\ loop.iter - 1 \in Int
      BY DEF LoopType
    <3>4. loop' \in LoopType /\ ~loop'.broken
      BY <3>1, <3>3 DEF LoopType
    <3>5. QED
      BY <1>1, <3>2, <3>4, SilentOK
  <2>2. CASE ~(loop.empties < MaxEmpty)
    BY <1>10, <2>2, FailOK DEF NoAnswer
  <2>3. QED
    BY <2>1, <2>2
<1>11. CASE EndStream
  <2>1. ASSUME NEW n \in 1 .. MaxCalls, NEW rest \in BOOLEAN, Announce(n, rest)
        PROVE  AgentOK' /\ ~loop'.broken /\ NoEnd(outbox')
    BY <2>1, AnnounceOK
  <2>2. CASE AfterLoop(loop)
    BY <1>1, <2>2, AfterLoopOK DEF Whole
  <2>3. QED
    BY <1>9, <1>10, <1>11, <2>1, <2>2 DEF EndStream
<1>12. CASE EndFinal
  <2>1. CASE Fail(loop)
    BY <2>1, FailOK
  <2>2. CASE loop' = [loop EXCEPT !.pc = "over"] /\ CloseAndSend(<<"finished">>)
    BY <2>2, OverIsPc, LoopGoesOn, FinishOK DEF Whole
  <2>3. QED
    BY <1>9, <1>12, <2>1, <2>2 DEF EndFinal
<1>13. QED
  BY <1>2, <1>3, <1>4, <1>5, <1>6, <1>7, <1>8, <1>11, <1>12 DEF AgentStep, Break

-----------------------------------------------------------------------------
(* The request. *)
LEMMA SaveReplyOK ==
  ASSUME NEW e, e.run \in Nat, e.said \in Nat
  PROVE  SaveReply(e) \in Seq(Calls)
BY UpsertIsCall DEF SaveReply

LEMMA TellingLast ==
  ASSUME NEW cs \in Seq(Calls), NEW v \in {"interrupted", "completed", "failed"}
  PROVE  cs \o <<Status(v)>> \in Seq(Calls) /\ Telling(cs \o <<Status(v)>>)
<1>1. Status(v) \in Calls /\ Status(v).op = "status" /\ Status(v).value = v
  BY StatusIsCall
<1> DEFINE t == cs \o <<Status(v)>>
<1>2. t \in Seq(Calls) /\ Len(t) = Len(cs) + 1 /\ t[Len(t)] = Status(v) /\ t # << >>
  BY <1>1
<1>3. QED
  BY <1>1, <1>2 DEF Telling

\* The calls that tell the end go on telling it until the last of them is done.
LEMMA TellingRest ==
  ASSUME HistoryOK, NEW cs \in Seq(Calls), Telling(cs)
  PROVE  /\ Rest(cs) = << >> => /\ ~Reads(Head(cs)) /\ Head(cs).op = "status"
                               /\ Head(cs).value # "running"
         /\ Rest(cs) # << >> => Telling(Rest(cs))
<1>1. cs # << >> /\ Len(cs) \in Nat \ {0} /\ Head(cs) = cs[1] /\ Head(cs) \in Calls
  BY DEF Telling
<1>2. CASE Reads(Head(cs))
  <2>1. Head(cs).op # "status"
    BY <1>2 DEF Reads
  <2>2. Len(cs) # 1
    BY <1>1, <2>1 DEF Telling
  <2>3. Rest(cs) = [cs EXCEPT ![1] = [@ EXCEPT !.base = history, !.read = TRUE]]
    BY <1>2 DEF Rest
  <2>4. Len(Rest(cs)) = Len(cs) /\ Rest(cs)[Len(cs)] = cs[Len(cs)]
    BY <1>1, <2>2, <2>3
  <2>5. QED
    BY <2>4, <1>1 DEF Telling
<1>3. CASE ~Reads(Head(cs))
  <2>1. Rest(cs) = Tail(cs)
    BY <1>3 DEF Rest
  <2>2. CASE Len(cs) = 1
    BY <1>1, <1>3, <2>1, <2>2 DEF Telling
  <2>3. CASE Len(cs) # 1
    <3> DEFINE k == Len(cs) - 1
    <3>1. k \in Nat \ {0} /\ k + 1 = Len(cs)
      BY <1>1, <2>3
    <3>2. /\ Len(Tail(cs)) = k
          /\ \A i \in 1 .. Len(Tail(cs)) : Tail(cs)[i] = cs[i + 1]
      BY <1>1, HeadTailProperties
    <3>3. Tail(cs)[k] = cs[Len(cs)]
      BY <3>1, <3>2
    <3> HIDE DEF k
    <3>4. Tail(cs) # << >>
      BY <3>1, <3>2
    <3>5. QED
      BY <2>1, <3>2, <3>3, <3>4 DEF Telling
  <2>4. QED
    BY <2>2, <2>3
<1>4. QED
  BY <1>2, <1>3

LEMMA FailingOK ==
  ASSUME RequestOK, ep' = Failing(ep)
  PROVE  /\ RequestOK' /\ ep'.stage = "failing" /\ ep'.event = "failed"
         /\ ep'.saved = ep.saved /\ ep'.calls # << >> /\ Telling(ep'.calls)
<1> DEFINE cs == SaveReply(ep) \o <<Status("failed")>>
<1>1. cs \in Seq(Calls) /\ Telling(cs)
  BY SaveReplyOK, TellingLast DEF RequestOK
<1>2. PICK st \in Stages, ev \in Events :
         /\ st = "failing" /\ ev = "failed"
         /\ ep' = [ep EXCEPT !.stage = st, !.event = ev, !.calls = cs]
  BY DEF Failing, Stages, Events, TerminalEvents
<1> HIDE DEF cs
<1>3. QED
  BY <1>1, <1>2 DEF RequestOK, Telling

LEMMA CloseOK ==
  ASSUME RequestOK, Close
  PROVE  /\ RequestOK' /\ AgentOK' /\ Whole' /\ NoEnd(outbox')
         /\ ep'.stage = "over" /\ ep'.event = "started" /\ ~ep'.saved /\ ep'.calls = << >>
<1>1. /\ ep' = [run |-> ep.run, stage |-> "over", calls |-> << >>, event |-> "started",
                said |-> 0, some |-> FALSE, saved |-> FALSE, alone |-> TRUE]
  BY DEF Close, Idle
<1>2. RequestOK'
  BY <1>1 DEF RequestOK, Stages, Events
<1>3. PICK p \in Pcs, b \in Blocks :
         /\ p = "over"
         /\ loop' = [pc |-> p, iter |-> 0, empties |-> 0, chunks |-> 0, text |-> FALSE,
                     block |-> b, calls |-> 0, broken |-> FALSE]
  BY DEF Close, NoRun, NewRun, Pcs, Blocks
<1>4. loop' \in LoopType /\ Whole'
  BY <1>3 DEF LoopType, Whole
<1>5. QED
  BY <1>1, <1>2, <1>4 DEF Close, AgentOK, NoEnd

\* A request that closes leaves the runs of the agent and the saved ends as they must be.
LEMMA ClosedOK ==
  ASSUME RequestOK, Close
  PROVE  RequestOK' /\ AgentOK' /\ EndsOK' /\ EndSaved'
BY CloseOK DEF EndsOK, EndSaved, Whole, TerminalEvents

LEMMA InterruptedOK ==
  ASSUME RequestOK
  PROVE  /\ Interrupted(ep) \in Seq(Calls) /\ Interrupted(ep) # << >>
         /\ Telling(Interrupted(ep))
         /\ \A i \in 1 .. Len(Interrupted(ep)) : Interrupted(ep)[i] # Status("running")
<1> DEFINE u == UpsertChat(ep.run, ep.said)
           t == Status("interrupted")
<1>1. u \in Calls /\ t \in Calls /\ Interrupted(ep) = <<u, t>>
  BY UpsertIsCall, StatusIsCall DEF RequestOK, Interrupted
<1>2. u.op = "upsert" /\ t.op = "status" /\ t.value = "interrupted"
  BY DEF UpsertChat, Status
<1>3. u # Status("running") /\ t # Status("running")
  BY <1>2, StatusIsCall
<1> HIDE DEF u, t
<1>4. QED
  BY <1>1, <1>2, <1>3 DEF Telling

\* Workers that are added or taken away.
LEMMA OwedGrows ==
  ASSUME Owed, workers \subseteq workers', spoiled => spoiled'
  PROVE  Owed'
BY DEF Owed

LEMMA AskOK == ChatInv /\ Ask => ChatInv'
<1> SUFFICES ASSUME ChatInv, Ask PROVE ChatInv'
  OBVIOUS
<1> USE DEF ChatInv
<1> DEFINE cs == <<AppendChat(ep.run + 1), Status("running")>>
<1>1. cs \in Seq(Calls) /\ cs # << >>
  BY AppendIsCall, StatusIsCall DEF RequestOK
<1>2. ep' = [run |-> ep.run + 1, stage |-> "opening", calls |-> cs, event |-> "started",
             said |-> 0, some |-> FALSE, saved |-> FALSE, alone |-> (workers = {})]
  BY DEF Ask, Idle
<1> HIDE DEF cs
<1>3. RequestOK'
  BY <1>1, <1>2 DEF RequestOK, Stages, Events
<1>4. EndSaved'
  BY <1>2 DEF EndSaved, TerminalEvents
<1>5. EndsOK' /\ AgentOK'
  <2>1. loop' = loop /\ seg' = seg /\ outbox' = outbox
    BY DEF Ask, agentVars
  <2>2. ep'.event = "started"
    BY <1>2
  <2>3. QED
    BY <2>1, <2>2 DEF EndsOK, AgentOK, Whole
<1>6. StatusOwed'
  BY <1>2 DEF Ask, StatusOwed, Owed, sessionVars
<1>7. HistoryOK' /\ WorkersOK'
  BY DEF Ask, HistoryOK, WorkersOK, sessionVars
<1>8. QED
  BY <1>3, <1>4, <1>5, <1>6, <1>7

LEMMA CallOK == ChatInv /\ Call => ChatInv'
<1> SUFFICES ASSUME ChatInv, Call PROVE ChatInv'
  OBVIOUS
<1> USE DEF ChatInv
<1> DEFINE c == Head(ep.calls)
           cs == Rest(ep.calls)
           saved == ep.saved \/ (cs = << >> /\ ep.event \in TerminalEvents)
<1>1. ep.calls \in Seq(Calls) /\ ep.calls # << >> /\ Statement(c)
  BY DEF Call, RequestOK
<1>2. c \in Calls /\ cs \in Seq(Calls) /\ saved \in BOOLEAN
  BY <1>1, RestOK DEF RequestOK
<1>3. ep' = [ep EXCEPT !.calls = cs, !.saved = saved]
  BY DEF Call
<1>4. ep.stage \notin {"over", "ending"} /\ (ep.event \in TerminalEvents => Telling(ep.calls))
  BY <1>1 DEF EndSaved
<1>5. HistoryOK'
  BY <1>1, <1>2, StatementOK
<1>6. ep.event \in TerminalEvents =>
        /\ cs = << >> => ~Reads(c) /\ c.op = "status" /\ c.value # "running"
        /\ cs # << >> => Telling(cs)
  BY <1>1, <1>4, TellingRest
<1>7. ep.event \in TerminalEvents /\ cs = << >> => status' # "running"
  BY <1>1, <1>6 DEF Statement
<1> HIDE DEF c, cs, saved
<1>8. /\ RequestOK' /\ ep'.stage = ep.stage /\ ep'.event = ep.event
      /\ ep'.calls = cs /\ ep'.saved = saved
  BY <1>2, <1>3 DEF RequestOK
<1>9. ~ep.saved
  BY <1>1 DEF EndSaved
<1>10. EndSaved'
  BY <1>4, <1>6, <1>8, <1>9 DEF EndSaved, saved
<1>11. EndsOK' /\ AgentOK' /\ WorkersOK'
  BY <1>8 DEF Call, EndsOK, AgentOK, WorkersOK, agentVars, Whole
<1>12. StatusOwed'
  BY <1>4, <1>7, <1>8, <1>9 DEF Call, StatusOwed, Owed, saved
<1>13. QED
  BY <1>5, <1>8, <1>10, <1>11, <1>12

LEMMA FailingStep ==
  ASSUME ChatInv, ep' = Failing(ep), ep.stage # "over", ~ep.saved,
         UNCHANGED <<agentVars, sessionVars, workers, spoiled>>
  PROVE  ChatInv'
<1> USE DEF ChatInv
<1>1. /\ RequestOK' /\ ep'.stage = "failing" /\ ep'.event = "failed"
      /\ ~ep'.saved /\ ep'.calls # << >> /\ Telling(ep'.calls)
  BY FailingOK
<1>2. EndSaved'
  BY <1>1 DEF EndSaved, TerminalEvents
<1>3. EndsOK' /\ AgentOK' /\ WorkersOK' /\ HistoryOK'
  BY <1>1 DEF EndsOK, AgentOK, WorkersOK, HistoryOK, agentVars, sessionVars, Whole
<1>4. StatusOwed'
  BY <1>1 DEF StatusOwed, Owed, sessionVars
<1>5. QED
  BY <1>1, <1>2, <1>3, <1>4

LEMMA CallRaisesOK == ChatInv /\ CallRaises => ChatInv'
<1> SUFFICES ASSUME ChatInv, CallRaises PROVE ChatInv'
  OBVIOUS
<1> USE DEF ChatInv
<1>1. ep.stage # "over" /\ ~ep.saved
  BY DEF CallRaises, EndSaved
<1>2. CASE ep.stage = "failing"
  <2>1. Close /\ workers' = workers \cup {Interrupted(ep)} /\ UNCHANGED <<sessionVars, spoiled>>
    BY <1>2 DEF CallRaises
  <2>2. RequestOK' /\ AgentOK' /\ EndsOK' /\ EndSaved'
    BY <2>1, ClosedOK
  <2>3. WorkersOK' /\ HistoryOK'
    BY <2>1, InterruptedOK DEF WorkersOK, HistoryOK, sessionVars
  <2>4. Owed'
    BY <2>1, InterruptedOK DEF Owed
  <2>5. StatusOwed'
    BY <2>1, <2>4, InterruptedOK DEF StatusOwed
  <2>6. QED
    BY <2>2, <2>3, <2>5
<1>3. CASE ep.stage # "failing"
  BY <1>1, <1>3, FailingStep DEF CallRaises
<1>4. QED
  BY <1>2, <1>3

LEMMA BuildOK == ChatInv /\ Build => ChatInv'
<1> SUFFICES ASSUME ChatInv, Build PROVE ChatInv'
  OBVIOUS
<1> USE DEF ChatInv
<1>1. ep.stage = "opening" /\ ep.event = "started" /\ ~ep.saved /\ ep.calls = << >>
  BY DEF Build, EndSaved, TerminalEvents
<1>2. CASE ep' = Failing(ep) /\ UNCHANGED agentVars
  BY <1>1, <1>2, FailingStep DEF Build
<1>3. CASE /\ ep' = [ep EXCEPT !.stage = "pulling"]
           /\ loop' = NewRun /\ seg' = "none" /\ outbox' = <<"started">>
  <2>1. "pulling" \in Stages
    BY DEF Stages
  <2>2. /\ RequestOK' /\ ep'.stage = "pulling" /\ ep'.event = "started" /\ ~ep'.saved
    BY <1>1, <1>3, <2>1 DEF RequestOK
  <2>3. PICK p \in Pcs, b \in Blocks :
           loop' = [pc |-> p, iter |-> 0, empties |-> 0, chunks |-> 0, text |-> FALSE,
                    block |-> b, calls |-> 0, broken |-> FALSE]
    BY <1>3 DEF NewRun, Pcs, Blocks
  <2>4. loop' \in LoopType /\ ~loop'.broken
    BY <2>3 DEF LoopType
  <2>5. outbox' \in Seq(Events) /\ NoEnd(outbox')
    BY <1>3 DEF Events, NoEnd
  <2>6. EndsOK' /\ AgentOK' /\ EndSaved'
    BY <1>3, <2>2, <2>4, <2>5 DEF EndsOK, AgentOK, EndSaved, TerminalEvents
  <2>7. WorkersOK' /\ HistoryOK' /\ StatusOwed'
    BY <2>2 DEF Build, WorkersOK, HistoryOK, StatusOwed, Owed, sessionVars
  <2>8. QED
    BY <2>2, <2>6, <2>7
<1>4. QED
  BY <1>2, <1>3 DEF Build

LEMMA AgentRunsOK == ChatInv /\ Agent => ChatInv'
<1> SUFFICES ASSUME ChatInv, Agent PROVE ChatInv'
  OBVIOUS
<1> USE DEF ChatInv
<1>1. loop.pc # "over" /\ ~loop.broken /\ ep.event # "finished" /\ AgentStep
  BY DEF Agent, EndsOK, Whole
<1>2. AgentOK' /\ (loop'.broken => loop'.pc = "over") /\ (NoEnd(outbox') \/ Whole')
  BY <1>1, AgentStepOK
<1>3. ep' = ep /\ UNCHANGED <<sessionVars, workers, spoiled>>
  BY DEF Agent
<1>4. EndsOK'
  BY <1>1, <1>2, <1>3 DEF EndsOK
<1>5. RequestOK' /\ WorkersOK' /\ HistoryOK' /\ StatusOwed' /\ EndSaved'
  BY <1>3 DEF RequestOK, WorkersOK, HistoryOK, StatusOwed, EndSaved, Owed, sessionVars
<1>6. QED
  BY <1>2, <1>4, <1>5

LEMMA TakeOK == ChatInv /\ Take => ChatInv'
<1> SUFFICES ASSUME ChatInv, Take PROVE ChatInv'
  OBVIOUS
<1> USE DEF ChatInv
<1> DEFINE event == Head(outbox)
           fed == Fed(event)
<1>1. /\ ep.stage = "pulling" /\ ep.event = "started" /\ ~ep.saved /\ outbox # << >>
      /\ event \in Events /\ outbox' = Tail(outbox) /\ outbox' \in Seq(Events)
  BY DEF Take, EndSaved, AgentOK, TerminalEvents
<1>2. /\ fed.run = ep.run /\ fed.said \in Nat /\ fed.saved = ep.saved /\ fed.event = event
      /\ fed \in [run : Nat, stage : Stages, calls : Seq(Calls), event : Events, said : Nat,
                 some : BOOLEAN, saved : BOOLEAN, alone : BOOLEAN]
  <2> DEFINE n == ep.said + (IF event = "text" THEN 1 ELSE 0)
             b == ep.some \/ event \in {"text", "reasoning", "call"}
  <2>1. n \in Nat /\ b \in BOOLEAN
    BY DEF RequestOK
  <2>2. fed = [ep EXCEPT !.event = event, !.said = n, !.some = b]
    BY DEF Fed
  <2> HIDE DEF n, b
  <2> HIDE DEF fed, event
  <2>3. QED
    BY <1>1, <2>1, <2>2 DEF RequestOK
<1>3. SaveReply(fed) \in Seq(Calls)
  BY <1>2, SaveReplyOK DEF RequestOK
<1>4. PICK calls \in Seq(Calls) :
         /\ ep' = [fed EXCEPT !.stage = "sending", !.calls = calls]
         /\ event \in TerminalEvents => calls # << >> /\ Telling(calls)
  <2>1. << >> \in Seq(Calls)
    OBVIOUS
  <2>2. CASE event \in TerminalEvents
    <3>1. PICK v \in {"completed", "failed"} :
             ep' = [fed EXCEPT !.stage = "sending", !.calls = SaveReply(fed) \o <<Status(v)>>]
      BY <2>2 DEF Take, TerminalEvents
    <3>2. SaveReply(fed) \o <<Status(v)>> \in Seq(Calls)
          /\ Telling(SaveReply(fed) \o <<Status(v)>>)
      BY <1>3, TellingLast
    <3>3. QED
      BY <3>1, <3>2 DEF Telling
  <2>3. CASE event \notin TerminalEvents
    BY <1>3, <2>1, <2>3 DEF Take, TerminalEvents
  <2>4. QED
    BY <2>2, <2>3
<1>5. "sending" \in Stages
  BY DEF Stages
<1> HIDE DEF fed
<1>6. /\ RequestOK' /\ ep'.stage = "sending" /\ ep'.event = event /\ ~ep'.saved
      /\ ep'.calls = calls
  BY <1>1, <1>2, <1>4, <1>5 DEF RequestOK
<1>7. EndSaved'
  BY <1>4, <1>6 DEF EndSaved
<1>8. loop' = loop /\ seg' = seg /\ UNCHANGED <<sessionVars, workers, spoiled>>
  BY DEF Take
<1>9. AgentOK' /\ WorkersOK' /\ HistoryOK'
  BY <1>1, <1>8 DEF AgentOK, WorkersOK, HistoryOK, sessionVars
<1>10. EndsOK'
  <2>1. event = outbox[1] /\ 1 \in 1 .. Len(outbox)
    BY <1>1 DEF AgentOK
  <2>2. NoEnd(outbox) => event # "finished" /\ NoEnd(outbox')
    <3>1. /\ Len(outbox') = Len(outbox) - 1
          /\ \A i \in 1 .. Len(outbox') : outbox'[i] = outbox[i + 1]
      BY <1>1, HeadTailProperties DEF AgentOK
    <3>2. \A i \in 1 .. Len(outbox') : i + 1 \in 1 .. Len(outbox)
      BY <1>1, <3>1 DEF AgentOK
    <3> HIDE DEF event
    <3>3. QED
      BY <2>1, <3>1, <3>2 DEF NoEnd
  <2> HIDE DEF event
  <2>3. QED
    BY <1>6, <1>8, <2>2 DEF EndsOK, Whole
<1>11. StatusOwed'
  BY <1>6, <1>8 DEF StatusOwed, Owed, sessionVars
<1>12. QED
  BY <1>6, <1>7, <1>9, <1>10, <1>11

LEMMA HeartbeatOK == ChatInv /\ Heartbeat => ChatInv'
<1> SUFFICES ASSUME ChatInv, Heartbeat PROVE ChatInv'
  OBVIOUS
<1> USE DEF ChatInv
<1> DEFINE cs == SaveReply(ep)
<1>1. ep.stage = "pulling" /\ ep.event = "started" /\ ~ep.saved /\ cs \in Seq(Calls)
  BY SaveReplyOK DEF Heartbeat, EndSaved, TerminalEvents, RequestOK
<1>2. ep' = [ep EXCEPT !.calls = cs] /\ UNCHANGED <<agentVars, sessionVars, workers, spoiled>>
  BY DEF Heartbeat
<1> HIDE DEF cs
<1>3. /\ RequestOK' /\ ep'.stage = "pulling" /\ ep'.event = "started" /\ ~ep'.saved
  BY <1>1, <1>2 DEF RequestOK
<1>4. EndSaved'
  BY <1>3 DEF EndSaved, TerminalEvents
<1>5. EndsOK' /\ AgentOK' /\ WorkersOK' /\ HistoryOK'
  BY <1>2, <1>3 DEF EndsOK, AgentOK, WorkersOK, HistoryOK, agentVars, sessionVars, Whole
<1>6. StatusOwed'
  BY <1>2, <1>3 DEF StatusOwed, Owed, sessionVars
<1>7. QED
  BY <1>3, <1>4, <1>5, <1>6

\* A request may close when its end is saved, or when somebody is left that owes the status.
LEMMA CloseStep ==
  ASSUME ChatInv, Close, UNCHANGED sessionVars, WorkersOK', ep.saved \/ Owed',
         Owed => Owed',
         \A w \in workers' : \A i \in 1 .. Len(w) : w[i] = Status("running") => spoiled'
  PROVE  ChatInv'
<1> USE DEF ChatInv
<1>1. RequestOK' /\ AgentOK' /\ EndsOK' /\ EndSaved'
  BY ClosedOK
<1>2. HistoryOK'
  BY DEF HistoryOK, sessionVars
<1>3. StatusOwed'
  BY DEF StatusOwed, sessionVars
<1>4. QED
  BY <1>1, <1>2, <1>3

LEMMA SendOK == ChatInv /\ Send => ChatInv'
<1> SUFFICES ASSUME ChatInv, Send PROVE ChatInv'
  OBVIOUS
<1> USE DEF ChatInv
<1>1. ep.calls = << >> /\ UNCHANGED <<sessionVars, workers, spoiled>>
  BY DEF Send
<1>2. CASE ep.stage = "failing"
  <2>1. Close /\ ep.saved
    BY <1>1, <1>2 DEF Send, EndSaved
  <2>2. WorkersOK' /\ (Owed => Owed')
    BY <1>1 DEF WorkersOK, Owed
  <2>3. \A w \in workers' : \A i \in 1 .. Len(w) : w[i] = Status("running") => spoiled'
    BY <1>1 DEF StatusOwed
  <2>4. QED
    BY <1>1, <2>1, <2>2, <2>3, CloseStep
<1>3. CASE ep.stage # "failing"
  <2>1. ep.stage = "sending" /\ UNCHANGED agentVars
    BY <1>3 DEF Send
  <2>2. PICK st \in Stages, ev \in Events :
           /\ ep' = [ep EXCEPT !.stage = st, !.event = ev]
           /\ \/ st = "ending" /\ ev = ep.event /\ ev \in TerminalEvents
              \/ st = "pulling" /\ ev = "started" /\ ep.event \notin TerminalEvents
    <3>1. CASE ep.event \in TerminalEvents
      <4>1. ep' = [ep EXCEPT !.stage = "ending"]
        BY <1>3, <3>1 DEF Send
      <4>2. ep' = [ep EXCEPT !.stage = "ending", !.event = ep.event]
        BY <4>1 DEF RequestOK
      <4>3. "ending" \in Stages /\ ep.event \in Events
        BY DEF Stages, RequestOK
      <4>4. QED
        BY <3>1, <4>2, <4>3
    <3>2. CASE ep.event \notin TerminalEvents
      <4>1. ep' = [ep EXCEPT !.stage = "pulling", !.event = "started"]
        BY <1>3, <3>2 DEF Send
      <4>2. "pulling" \in Stages /\ "started" \in Events
        BY DEF Stages, Events
      <4>3. QED
        BY <3>2, <4>1, <4>2
    <3>3. QED
      BY <3>1, <3>2
  <2>3. RequestOK' /\ ep'.stage = st /\ ep'.event = ev /\ ep'.saved = ep.saved /\ ep'.calls = << >>
    BY <1>1, <2>2 DEF RequestOK
  <2>4. EndSaved'
    BY <1>1, <2>2, <2>3 DEF EndSaved, TerminalEvents
  <2>5. EndsOK' /\ AgentOK' /\ WorkersOK' /\ HistoryOK'
    BY <1>1, <2>1, <2>2, <2>3 DEF EndsOK, AgentOK, WorkersOK, HistoryOK, agentVars, sessionVars,
                                  Whole
  <2>6. StatusOwed'
    BY <1>1, <2>1, <2>2, <2>3 DEF StatusOwed, Owed, sessionVars
  <2>7. QED
    BY <2>3, <2>4, <2>5, <2>6
<1>4. QED
  BY <1>2, <1>3

LEMMA EndOK == ChatInv /\ End => ChatInv'
<1> SUFFICES ASSUME ChatInv, End PROVE ChatInv'
  OBVIOUS
<1> USE DEF ChatInv
<1>1. Close /\ UNCHANGED <<sessionVars, workers, spoiled>>
  BY DEF End
<1>2. ep.saved
  BY DEF End, EndSaved
<1>3. WorkersOK' /\ (Owed => Owed')
  BY <1>1 DEF WorkersOK, Owed
<1>4. \A w \in workers' : \A i \in 1 .. Len(w) : w[i] = Status("running") => spoiled'
  BY <1>1 DEF StatusOwed
<1>5. QED
  BY <1>1, <1>2, <1>3, <1>4, CloseStep

LEMMA LeaveOK == ChatInv /\ Leave => ChatInv'
<1> SUFFICES ASSUME ChatInv, Leave PROVE ChatInv'
  OBVIOUS
<1> USE DEF ChatInv
<1>1. Close /\ UNCHANGED sessionVars
  BY DEF Leave
<1> DEFINE left == IF LeavesWork THEN {Interrupted(ep)} ELSE {}
<1>2. PICK late \in Abandoned :
         /\ workers' = workers \cup late \cup left
         /\ spoiled' = (spoiled \/ <<Status("running")>> \in late)
  BY DEF Leave
<1>3. \A w \in late : ep.calls # << >> /\ w = <<Head(ep.calls)>> /\ Head(ep.calls) \in Calls
  BY DEF Abandoned, RequestOK
<1>4. \A w \in left : /\ w \in Seq(Calls) /\ w # << >>
                      /\ \A i \in 1 .. Len(w) : w[i] # Status("running")
  BY InterruptedOK
<1>5. WorkersOK'
  <2>1. ASSUME NEW w \in late PROVE w \in Seq(Calls) /\ w # << >>
    <3>1. PICK c \in Calls : w = <<c>>
      BY <1>3
    <3>2. QED
      BY <3>1
  <2> HIDE DEF left
  <2>2. QED
    BY <1>2, <1>4, <2>1 DEF WorkersOK
<1>6. Owed => Owed'
  BY <1>2 DEF Owed
<1>7. ep.saved \/ Owed'
  <2>1. CASE LeavesWork
    BY <1>2, <2>1, InterruptedOK DEF Owed
  <2>2. CASE ~LeavesWork
    BY <2>2 DEF LeavesWork
  <2>3. QED
    BY <2>1, <2>2
<1>8. ASSUME NEW w \in workers', NEW i \in 1 .. Len(w), w[i] = Status("running")
      PROVE  spoiled'
  <2>1. CASE w \in workers
    BY <1>2, <1>8, <2>1 DEF StatusOwed
  <2>2. CASE w \in late
    <3>1. w = <<w[1]>> /\ i = 1
      BY <1>3, <1>8, <2>2
    <3>2. QED
      BY <1>2, <1>8, <2>2, <3>1
  <2>3. CASE w \in left
    BY <1>4, <1>8, <2>3
  <2> HIDE DEF left
  <2>4. QED
    BY <1>2, <1>8, <2>1, <2>2, <2>3
<1>9. QED
  BY <1>1, <1>5, <1>6, <1>7, <1>8, CloseStep

LEMMA RestartOK == ChatInv /\ Restart => ChatInv'
<1> SUFFICES ASSUME ChatInv, Restart PROVE ChatInv'
  OBVIOUS
<1> USE DEF ChatInv
<1>1. RequestOK' /\ AgentOK' /\ EndsOK' /\ EndSaved'
  BY ClosedOK DEF Restart
<1>2. WorkersOK' /\ HistoryOK'
  BY DEF Restart, WorkersOK, HistoryOK
<1>3. StatusOwed'
  BY DEF Restart, StatusOwed
<1>4. QED
  BY <1>1, <1>2, <1>3

\* What is left of the calls of a worker.
LEMMA WorkerRest ==
  ASSUME HistoryOK, WorkersOK, NEW w \in workers, NEW cs \in {Rest(w), Tail(w)},
         workers' = Others(w) \cup Going(cs)
  PROVE  /\ WorkersOK'
         /\ \A i \in 1 .. Len(cs) : cs[i] = Status("running") =>
               \E j \in 1 .. Len(w) : w[j] = Status("running")
<1>1. w \in Seq(Calls) /\ w # << >>
  BY DEF WorkersOK
<1>2. cs \in Seq(Calls)
  BY <1>1, RestOK
<1>3. WorkersOK'
  BY <1>2 DEF WorkersOK, Others, Going
<1>4. ASSUME NEW i \in 1 .. Len(cs), cs[i] = Status("running")
      PROVE  \E j \in 1 .. Len(w) : w[j] = Status("running")
  <2>1. CASE cs = Tail(w)
    <3>1. cs[i] = w[i + 1] /\ i + 1 \in 1 .. Len(w)
      BY <1>1, <1>4, <2>1, HeadTailProperties
    <3>2. QED
      BY <1>4, <3>1
  <2>2. CASE cs # Tail(w)
    <3>1. Reads(Head(w)) /\ cs = [w EXCEPT ![1] = [@ EXCEPT !.base = history, !.read = TRUE]]
      BY <2>2 DEF Rest
    <3>2. Len(cs) = Len(w) /\ \A k \in 2 .. Len(w) : cs[k] = w[k]
      BY <1>1, <3>1
    <3>3. CASE i = 1
      <4>1. w[1] \in ChatCall /\ w[1].op # "status"
        BY <1>1, <3>1, CallKinds DEF Reads
      <4> DEFINE c == [w[1] EXCEPT !.base = history, !.read = TRUE]
      <4>2. cs[1] = c
        <5>1. 1 \in 1 .. Len(w) /\ cs = [w EXCEPT ![1] = c]
          BY <1>1, <3>1, <4>1 DEF ChatCall
        <5> HIDE DEF c
        <5>2. QED
          BY <1>1, <5>1
      <4>3. cs[1].op = w[1].op
        BY <4>1, <4>2 DEF ChatCall
      <4>4. QED
        BY <1>4, <3>3, <4>1, <4>3, StatusIsCall
    <3>4. CASE i # 1
      BY <1>4, <3>2, <3>4
    <3>5. QED
      BY <3>3, <3>4
  <2>3. QED
    BY <2>1, <2>2
<1>5. QED
  BY <1>3, <1>4

LEMMA WorkOK == ASSUME ChatInv, NEW w \in workers, Work(w) PROVE ChatInv'
<1> USE DEF ChatInv
<1>1. /\ w \in Seq(Calls) /\ w # << >> /\ Head(w) \in Calls /\ Head(w) = w[1]
      /\ 1 \in 1 .. Len(w)
  BY DEF WorkersOK
<1>2. Statement(Head(w)) /\ workers' = Others(w) \cup Going(Rest(w))
  BY DEF Work
<1>3. ep' = ep /\ spoiled' = spoiled /\ loop' = loop /\ seg' = seg /\ outbox' = outbox
  BY DEF Work, agentVars
<1>4. HistoryOK'
  BY <1>1, <1>2, StatementOK
<1>5. /\ WorkersOK'
      /\ \A i \in 1 .. Len(Rest(w)) : Rest(w)[i] = Status("running") =>
            \E j \in 1 .. Len(w) : w[j] = Status("running")
  BY <1>2, WorkerRest
<1>6. RequestOK' /\ AgentOK' /\ EndsOK' /\ EndSaved'
  BY <1>3 DEF RequestOK, AgentOK, EndsOK, EndSaved, Whole
<1>7. \A v \in workers' : \A i \in 1 .. Len(v) : v[i] = Status("running") => spoiled'
  BY <1>2, <1>3, <1>5 DEF StatusOwed, Others, Going
<1>8. CASE Head(w).op = "status"
  <2>1. status' = Head(w).value
    BY <1>2, <1>8 DEF Statement, Reads
  <2>2. Owed' \/ status' # "running"
    <3>1. CASE Head(w).value = "running"
      <4>1. Head(w) = Status("running")
        BY <1>1, <1>8, <3>1 DEF Calls, ChatCalls, ChatCall, StatusCall, Status
      <4>2. QED
        BY <1>1, <1>3, <4>1 DEF StatusOwed, Owed
    <3>2. QED
      BY <2>1, <3>1
  <2>3. QED
    BY <1>4, <1>5, <1>6, <1>7, <2>2 DEF StatusOwed
<1>9. CASE Head(w).op # "status"
  <2>1. status' = status
    BY <1>2, <1>9 DEF Statement, sessionVars
  <2>2. Owed => Owed'
    <3>1. Telling(w) => Telling(Rest(w)) /\ Rest(w) # << >>
      BY <1>1, <1>9, TellingRest DEF Telling
    <3>2. QED
      BY <1>2, <1>3, <3>1 DEF Owed, Others, Going
  <2>3. QED
    BY <1>3, <1>4, <1>5, <1>6, <1>7, <2>1, <2>2 DEF StatusOwed
<1>10. QED
  BY <1>8, <1>9

LEMMA WorkFailsOK == ASSUME ChatInv, NEW w \in workers, WorkFails(w) PROVE ChatInv'
<1> USE DEF ChatInv
<1>1. /\ w \in Seq(Calls) /\ w # << >> /\ Head(w) = w[1] /\ Len(w) \in Nat \ {0}
  BY DEF WorkersOK
<1>2. /\ workers' = Others(w) \cup Going(Tail(w))
      /\ spoiled' = (spoiled \/ Head(w).op = "status")
      /\ UNCHANGED <<agentVars, sessionVars, ep>>
  BY DEF WorkFails
<1>3. /\ WorkersOK'
      /\ \A i \in 1 .. Len(Tail(w)) : Tail(w)[i] = Status("running") =>
            \E j \in 1 .. Len(w) : w[j] = Status("running")
  BY <1>2, WorkerRest
<1>4. RequestOK' /\ AgentOK' /\ EndsOK' /\ EndSaved' /\ HistoryOK'
  BY <1>2 DEF RequestOK, AgentOK, EndsOK, EndSaved, HistoryOK, Whole, agentVars, sessionVars
<1>5. \A v \in workers' : \A i \in 1 .. Len(v) : v[i] = Status("running") => spoiled'
  BY <1>2, <1>3 DEF StatusOwed, Others, Going
<1>6. Owed => Owed'
  <2>1. CASE Head(w).op = "status"
    BY <1>2, <2>1 DEF Owed
  <2>2. CASE Head(w).op # "status"
    <3>1. Telling(w) => Telling(Tail(w)) /\ Tail(w) # << >>
      <4>1. SUFFICES ASSUME Telling(w) PROVE Telling(Tail(w)) /\ Tail(w) # << >>
        OBVIOUS
      <4> DEFINE k == Len(w) - 1
      <4>2. k \in Nat \ {0} /\ k + 1 = Len(w)
        BY <1>1, <2>2, <4>1 DEF Telling
      <4>3. Len(Tail(w)) = k /\ Tail(w)[k] = w[Len(w)]
        BY <1>1, <4>2, HeadTailProperties
      <4> HIDE DEF k
      <4>4. Tail(w) # << >>
        BY <4>2, <4>3
      <4>5. QED
        BY <4>1, <4>3, <4>4 DEF Telling
    <3>2. QED
      BY <1>2, <3>1 DEF Owed, Others, Going
  <2>3. QED
    BY <2>1, <2>2
<1>7. QED
  BY <1>2, <1>3, <1>4, <1>5, <1>6 DEF StatusOwed, sessionVars

LEMMA ChatInit == Init => ChatInv
<1> SUFFICES ASSUME Init PROVE ChatInv
  OBVIOUS
<1>1. /\ ep = [run |-> 0, stage |-> "over", calls |-> << >>, event |-> "started", said |-> 0,
              some |-> FALSE, saved |-> FALSE, alone |-> TRUE]
  BY DEF Init, Idle
<1>2. RequestOK /\ EndSaved
  BY <1>1 DEF RequestOK, Stages, Events, EndSaved, TerminalEvents
<1>3. PICK p \in Pcs, b \in Blocks :
         /\ p = "over"
         /\ loop = [pc |-> p, iter |-> 0, empties |-> 0, chunks |-> 0, text |-> FALSE,
                    block |-> b, calls |-> 0, broken |-> FALSE]
  BY DEF Init, NoRun, NewRun, Pcs, Blocks
<1>4. loop \in LoopType /\ Whole
  BY <1>3 DEF LoopType, Whole
<1>5. AgentOK /\ EndsOK
  BY <1>4 DEF Init, AgentOK, EndsOK, Whole
<1>6. HistoryOK /\ WorkersOK /\ StatusOwed
  BY EmptyAlternates DEF Init, HistoryOK, WorkersOK, StatusOwed
<1>7. QED
  BY <1>2, <1>5, <1>6 DEF ChatInv

LEMMA ChatStep == ChatInv /\ [Next]_vars => ChatInv'
<1> SUFFICES ASSUME ChatInv, [Next]_vars PROVE ChatInv'
  OBVIOUS
<1>1. CASE UNCHANGED vars
  <2>1. /\ UNCHANGED <<loop, seg, outbox, status, history, ep, workers, spoiled>>
    BY <1>1 DEF vars, agentVars, sessionVars
  <2>2. QED
    BY <2>1 DEF ChatInv, RequestOK, HistoryOK, WorkersOK, AgentOK, EndsOK, EndSaved, StatusOwed,
                Owed, Whole
<1>2. CASE Request
  BY <1>2, CallOK, BuildOK, TakeOK, SendOK, EndOK DEF Request
<1>3. CASE \E w \in workers : Work(w) \/ WorkFails(w)
  BY <1>3, WorkOK, WorkFailsOK
<1>4. QED
  BY <1>1, <1>2, <1>3, AskOK, AgentRunsOK, HeartbeatOK, CallRaisesOK, LeaveOK, RestartOK
     DEF Next, Silence

LEMMA ChatAlways == Spec => []ChatInv
BY ChatInit, ChatStep, PTL DEF Spec

\* The user's message and one reply alternate, whatever threads read and write the history of
\* a session at the same time (upsert_chat, append_chat).
THEOREM TurnsAlternate == Spec => []OneReplyPerTurn
<1>1. ChatInv => OneReplyPerTurn
  BY DEF ChatInv, HistoryOK, Alternates, OneReplyPerTurn
<1>2. QED
  BY <1>1, ChatAlways, PTL

\* A run that was broken off by an error of the model does not end as a finished one.
THEOREM BrokenRunsFail == Spec => []NoHalfRunFinishes
<1>1. ChatInv => NoHalfRunFinishes
  BY DEF ChatInv, EndsOK, Whole, NoHalfRunFinishes
<1>2. QED
  BY <1>1, ChatAlways, PTL

\* When a run is over and nothing is under way the session is not running, unless the status
\* of the end was lost or an abandoned write of "running" came after it.
THEOREM SessionsAreSettled == Spec => []NeverLeftRunning
<1>1. ChatInv => NeverLeftRunning
  BY DEF ChatInv, StatusOwed, Owed, NeverLeftRunning
<1>2. QED
  BY <1>1, ChatAlways, PTL

-----------------------------------------------------------------------------
(* What the client has open: determined by the event before. *)
Open == Kinds \cup {"none"}

\* What the client must have open before an event of the agent, and what it has open after it.
Before(e) == CASE e \in {"text", "text_end"} -> "text"
               [] e \in {"reasoning", "reasoning_end"} -> "reasoning"
               [] OTHER -> "none"
After(e) == CASE e \in {"text_start", "text"} -> "text"
              [] e \in {"reasoning_start", "reasoning"} -> "reasoning"
              [] OTHER -> "none"

\* These events lead from `from` to `to`.
Leads(from, events, to) ==
    IF events = << >> THEN from = to
    ELSE /\ from = Before(events[1])
         /\ \A i \in 2 .. Len(events) : Before(events[i]) = After(events[i - 1])
         /\ to = After(events[Len(events)])

\* What the client has open when it has got the pending event.
Reached == IF ep.stage = "sending" THEN After(ep.event) ELSE client.open

FlowInv ==
    /\ client \in [open : Open, ends : Nat, refused : BOOLEAN]
    /\ ~client.refused
    /\ loop.pc = "tools" => seg = "none"
    /\ ep.stage = "opening" => client.open = "none"
    /\ ep.stage = "sending" => client.open = Before(ep.event)
    /\ ep.stage \in {"pulling", "sending"} => Leads(Reached, outbox, seg)
    /\ ep.stage = "failing" => ep.event = "failed"
    /\ ep.stage \in {"opening", "pulling", "sending", "failing"} => client.ends = 0

LEMMA LeadsOne ==
  ASSUME NEW e \in Events
  PROVE  Leads(Before(e), <<e>>, After(e))
BY DEF Leads

LEMMA LeadsOn ==
  ASSUME NEW s \in Seq(Events), NEW t \in Seq(Events), NEW a, NEW b, NEW c,
         Leads(a, s, b), Leads(b, t, c)
  PROVE  Leads(a, s \o t, c)
<1>1. CASE s = << >>
  <2>1. s \o t = t
    BY <1>1
  <2>2. QED
    BY <1>1, <2>1 DEF Leads
<1>2. CASE t = << >>
  <2>1. s \o t = s
    BY <1>2
  <2>2. QED
    BY <1>2, <2>1 DEF Leads
<1>3. CASE s # << >> /\ t # << >>
  <2> DEFINE u == s \o t
             m == Len(s)
             n == Len(t)
  <2>1. /\ m \in Nat \ {0} /\ n \in Nat \ {0} /\ Len(u) = m + n
        /\ \A i \in 1 .. m : u[i] = s[i]
        /\ \A i \in 1 .. n : u[m + i] = t[i]
        /\ u # << >>
    BY <1>3
  <2>2. /\ a = Before(s[1]) /\ b = After(s[m])
        /\ \A i \in 2 .. m : Before(s[i]) = After(s[i - 1])
        /\ b = Before(t[1]) /\ c = After(t[n])
        /\ \A i \in 2 .. n : Before(t[i]) = After(t[i - 1])
    BY <1>3 DEF Leads
  <2> HIDE DEF u, m, n
  <2>3. u[1] = s[1] /\ u[m + n] = t[n]
    BY <2>1
  <2>4. ASSUME NEW i \in 2 .. (m + n)
        PROVE  Before(u[i]) = After(u[i - 1])
    <3>1. CASE i <= m
      <4>1. i \in 1 .. m /\ i - 1 \in 1 .. m /\ i \in 2 .. m
        BY <2>1, <3>1
      <4>2. QED
        BY <4>1, <2>1, <2>2
    <3>2. CASE i = m + 1
      <4>1. i - 1 = m /\ m \in 1 .. m /\ 1 \in 1 .. n
        BY <2>1, <3>2
      <4>2. u[i - 1] = s[m] /\ u[i] = t[1]
        BY <4>1, <3>2, <2>1
      <4>3. QED
        BY <4>2, <2>2
    <3>3. CASE i > m + 1
      <4>1. PICK j \in 2 .. n : i = m + j
        <5>1. i - m \in 2 .. n /\ i = m + (i - m)
          BY <2>1, <3>3
        <5>2. QED
          BY <5>1
      <4>2. j \in 1 .. n /\ j - 1 \in 1 .. n /\ i - 1 = m + (j - 1)
        BY <4>1, <2>1
      <4>3. u[i] = t[j] /\ u[i - 1] = t[j - 1]
        BY <4>1, <4>2, <2>1
      <4>4. QED
        BY <4>3, <4>1, <2>2
    <3>4. QED
      BY <2>1, <3>1, <3>2, <3>3
  <2>5. QED
    BY <2>1, <2>2, <2>3, <2>4 DEF Leads, u
<1>4. QED
  BY <1>1, <1>2, <1>3

\* The first of the events goes to the client.
LEMMA LeadsTail ==
  ASSUME NEW s \in Seq(Events), s # << >>, NEW a, NEW c, Leads(a, s, c)
  PROVE  a = Before(Head(s)) /\ Leads(After(Head(s)), Tail(s), c)
<1>1. /\ Len(s) \in Nat \ {0} /\ Head(s) = s[1] /\ Len(Tail(s)) = Len(s) - 1
      /\ \A i \in 1 .. Len(s) - 1 : Tail(s)[i] = s[i + 1]
      /\ Tail(s) = << >> <=> Len(s) = 1
  <2>1. /\ Len(s) \in Nat \ {0} /\ Head(s) = s[1] /\ Len(Tail(s)) = Len(s) - 1
        /\ Tail(s) \in Seq(Events)
        /\ \A i \in 1 .. Len(s) - 1 : Tail(s)[i] = s[i + 1]
    OBVIOUS
  <2>2. Tail(s) = << >> <=> Len(Tail(s)) = 0
    BY <2>1, EmptySeq
  <2>3. QED
    BY <2>1, <2>2
<1>2. /\ a = Before(s[1]) /\ c = After(s[Len(s)])
      /\ \A i \in 2 .. Len(s) : Before(s[i]) = After(s[i - 1])
  BY DEF Leads
<1>3. CASE Len(s) = 1
  BY <1>1, <1>2, <1>3 DEF Leads
<1>4. CASE Len(s) > 1
  <2> DEFINE t == Tail(s)
             n == Len(s) - 1
  <2>1. /\ n \in Nat \ {0} /\ Len(t) = n /\ t # << >>
        /\ t[1] = s[2] /\ t[n] = s[n + 1] /\ n + 1 = Len(s)
    BY <1>1, <1>4
  <2>2. Before(s[2]) = After(s[1])
    BY <1>1, <1>2, <1>4
  <2>3. ASSUME NEW i \in 2 .. n
        PROVE  Before(t[i]) = After(t[i - 1])
    <3>1. t[i] = s[i + 1] /\ t[i - 1] = s[i] /\ i + 1 \in 2 .. Len(s)
      BY <1>1
    <3>2. Before(s[i + 1]) = After(s[(i + 1) - 1]) /\ (i + 1) - 1 = i
      BY <3>1, <1>2
    <3>3. QED
      BY <3>1, <3>2
  <2> HIDE DEF t, n
  <2>4. Leads(After(s[1]), t, c)
    BY <2>1, <2>2, <2>3, <1>2 DEF Leads
  <2>5. QED
    BY <2>4, <1>1, <1>2 DEF t
<1>5. QED
  BY <1>1, <1>3, <1>4

LEMMA ClosingLeads ==
  ASSUME seg \in Open
  PROVE  Closing \in Seq(Events) /\ Leads(seg, Closing, "none")
<1>1. CASE seg = "none"
  BY <1>1 DEF Closing, Leads
<1>2. ASSUME seg \in Kinds
      PROVE  /\ EndOf[seg] \in Events /\ Before(EndOf[seg]) = seg /\ After(EndOf[seg]) = "none"
             /\ seg # "none"
  BY <1>2 DEF Kinds, EndOf, Events, Before, After
<1>3. QED
  BY <1>1, <1>2, LeadsOne, ClosingOK DEF Closing, Open, Kinds

LEMMA StartLeads ==
  ASSUME NEW k \in Kinds
  PROVE  /\ StartOf[k] \in Events /\ k \in Events /\ EndOf[k] \in Events
         /\ Leads("none", <<StartOf[k]>>, k) /\ Leads(k, <<k>>, k) /\ Leads(k, <<EndOf[k]>>, "none")
BY LeadsOne DEF Kinds, StartOf, EndOf, Events, Before, After

\* Each step of the agent leads from the message that was open to the one that is.
Led == Leads(seg, outbox', seg')

LEMMA SayLeads ==
  ASSUME seg \in Open, NEW k \in Kinds, Say(k)
  PROVE  Led
<1>1. CASE seg = k
  <2>1. outbox' = <<k>> /\ seg' = k
    BY <1>1 DEF Say
  <2>2. QED
    BY <1>1, <2>1, StartLeads DEF Led
<1>2. CASE seg # k
  <2>1. outbox' = (Closing \o <<StartOf[k]>>) \o <<k>> /\ seg' = k
    BY <1>2 DEF Say
  <2>2. <<StartOf[k]>> \in Seq(Events) /\ <<k>> \in Seq(Events)
    <3>1. StartOf[k] \in Events /\ k \in Events
      BY StartLeads
    <3>2. QED
      BY <3>1
  <2>3. Closing \o <<StartOf[k]>> \in Seq(Events)
    BY <2>2, ClosingLeads
  <2>4. Leads(seg, Closing \o <<StartOf[k]>>, k)
    BY <2>2, ClosingLeads, StartLeads, LeadsOn
  <2>5. QED
    BY <2>1, <2>2, <2>3, <2>4, StartLeads, LeadsOn DEF Led
<1>3. QED
  BY <1>1, <1>2

LEMMA SilentLeads ==
  ASSUME outbox = << >>, Silent
  PROVE  Led
BY DEF Silent, Led, Leads

LEMMA CloseLeads ==
  ASSUME seg \in Open, NEW e \in {"finished", "failed"}, CloseAndSend(<<e>>)
  PROVE  Led
<1>1. e \in Events /\ Before(e) = "none" /\ After(e) = "none"
  BY DEF Events, TerminalEvents, Before, After
<1>2. Leads("none", <<e>>, "none") /\ <<e>> \in Seq(Events)
  BY <1>1, LeadsOne
<1>3. QED
  BY <1>2, ClosingLeads, LeadsOn DEF CloseAndSend, Led

LEMMA FailLeads ==
  ASSUME seg \in Open, NEW l \in LoopType, Fail(l)
  PROVE  Led /\ loop'.pc # "tools"
<1>1. loop'.pc = "over"
  BY OverIsPc, LoopGoesOn DEF Fail
<1>2. QED
  BY <1>1, CloseLeads DEF Fail

LEMMA AnnounceLeads ==
  ASSUME AgentOK, NEW n \in 1 .. MaxCalls, NEW rest \in BOOLEAN, Announce(n, rest)
  PROVE  Led /\ seg' = "none"
<1> DEFINE opened == <<StartOf["text"], "text", EndOf["text"]>>
           ended == <<"text", EndOf["text"]>>
           calls == [j \in 1 .. n |-> "call"]
           before == IF rest /\ seg # "text" THEN Closing \o opened
                     ELSE IF rest THEN ended ELSE Closing
<1>1. outbox' = before \o calls /\ seg' = "none" /\ seg \in Open
  BY DEF Announce, AgentOK, Open
<1>2. n \in Nat \ {0}
  BY AgentAssumption
<1>3. /\ calls \in Seq(Events) /\ Len(calls) = n /\ calls # << >>
      /\ \A i \in 1 .. n : calls[i] = "call"
  BY <1>2 DEF Events
<1>4. Before("call") = "none" /\ After("call") = "none"
  BY DEF Before, After
<1> HIDE DEF calls
<1>5. Leads("none", calls, "none")
  BY <1>2, <1>3, <1>4 DEF Leads
<1>6. /\ opened \in Seq(Events) /\ Len(opened) = 3 /\ opened[1] = "text_start"
      /\ opened[2] = "text" /\ opened[3] = "text_end" /\ opened # << >>
  BY DEF StartOf, EndOf, Events, Kinds
<1>7. /\ ended \in Seq(Events) /\ Len(ended) = 2 /\ ended[1] = "text" /\ ended[2] = "text_end"
      /\ ended # << >>
  BY DEF StartOf, EndOf, Events, Kinds
<1> HIDE DEF opened, ended
<1>8. /\ Before("text_start") = "none" /\ After("text_start") = "text"
      /\ Before("text") = "text" /\ After("text") = "text"
      /\ Before("text_end") = "text" /\ After("text_end") = "none"
  BY DEF Before, After
<1>9. Leads("none", opened, "none")
  BY <1>6, <1>8 DEF Leads
<1>10. Leads("text", ended, "none")
  BY <1>7, <1>8 DEF Leads
<1>11. before \in Seq(Events) /\ Leads(seg, before, "none")
  <2>1. CASE rest /\ seg # "text"
    BY <1>1, <1>6, <1>9, <2>1, ClosingLeads, LeadsOn
  <2>2. CASE rest /\ seg = "text"
    BY <1>7, <1>10, <2>2
  <2>3. CASE ~rest
    BY <1>1, <2>3, ClosingLeads
  <2>4. QED
    BY <2>1, <2>2, <2>3
<1> HIDE DEF before
<1>12. QED
  BY <1>1, <1>3, <1>5, <1>11, LeadsOn DEF Led

LEMMA AgentStepLeads ==
  ASSUME AgentOK, loop.pc = "tools" => seg = "none", AgentStep
  PROVE  Led /\ (loop'.pc = "tools" => seg' = "none")
<1> DEFINE Goal == Led /\ (loop'.pc = "tools" => seg' = "none")
<1>1. outbox = << >> /\ seg \in Open /\ loop \in LoopType
  BY DEF AgentStep, AgentOK, Open
<1>2. ASSUME NEW l \in LoopType, AfterLoop(l)
      PROVE  Led /\ loop'.pc # "tools"
  <2>1. CASE l.iter >= MaxIterations
    <3>1. PICK p \in Pcs, b \in Blocks :
             /\ p = "final"
             /\ loop' = [l EXCEPT !.pc = p, !.iter = l.iter, !.text = FALSE, !.block = b]
      BY <1>2, <2>1 DEF AfterLoop, Calling, Pcs, Blocks
    <3>2. loop'.pc = "final"
      BY <3>1 DEF LoopType
    <3>3. QED
      BY <1>1, <1>2, <2>1, <3>2, SilentLeads DEF AfterLoop
  <2>2. CASE ~(l.iter >= MaxIterations)
    <3>1. loop' = [l EXCEPT !.pc = "over"] /\ CloseAndSend(<<"finished">>)
      BY <1>2, <2>2 DEF AfterLoop
    <3>2. loop'.pc = "over"
      BY <3>1, OverIsPc, LoopGoesOn
    <3>3. QED
      BY <1>1, <3>1, <3>2, CloseLeads
  <2>3. QED
    BY <2>1, <2>2
<1>3. CASE Turn
  <2>1. CASE loop.iter < MaxIterations
    <3>1. Silent /\ loop' = [loop EXCEPT !.pc = "stream", !.iter = loop.iter + 1, !.text = FALSE,
                                         !.block = "none"]
      BY <1>3, <2>1 DEF Turn, Calling
    <3>2. loop'.pc = "stream"
      BY <1>1, <3>1 DEF LoopType
    <3>3. QED
      BY <1>1, <3>1, <3>2, SilentLeads
  <2>2. CASE ~(loop.iter < MaxIterations)
    BY <1>1, <1>2, <1>3, <2>2 DEF Turn
  <2>3. QED
    BY <2>1, <2>2
<1>4. CASE RunTool
  <2>1. outbox' = <<"result">> /\ seg' = seg /\ seg = "none"
    BY <1>4 DEF RunTool
  <2>2. "result" \in Events /\ Before("result") = "none" /\ After("result") = "none"
    BY DEF Events, Before, After
  <2>3. QED
    BY <2>1, <2>2, LeadsOne DEF Led
<1>5. CASE Reason
  <2>1. loop' = loop /\ loop.pc # "tools"
    BY <1>5 DEF Reason, Streaming
  <2>2. QED
    BY <1>1, <1>5, <2>1, SayLeads, SilentLeads DEF Reason, Kinds
<1>6. CASE CollectCall
  <2>1. Silent /\ loop' = loop /\ loop.pc # "tools"
    BY <1>6 DEF CollectCall, Streaming, Silent
  <2>2. QED
    BY <1>1, <2>1, SilentLeads
<1>7. ASSUME Streaming, \E error \in {"retryable", "trigger", "other"} : CallFails(error)
      PROVE  Led /\ loop'.pc # "tools"
  <2>1. PICK error \in {"retryable", "trigger", "other"} : CallFails(error)
    BY <1>7
  <2>2. CASE UNCHANGED loop /\ Silent
    BY <1>1, <1>7, <2>2, SilentLeads DEF Streaming
  <2>3. CASE Raise
    <3>1. [loop EXCEPT !.broken = TRUE] \in LoopType
      BY <1>1 DEF LoopType
    <3>2. QED
      BY <1>1, <2>3, <3>1, FailLeads DEF Raise
  <2>4. QED
    BY <2>1, <2>2, <2>3 DEF CallFails
<1>8. CASE Truncate
  <2>1. Streaming
    BY <1>8 DEF Truncate
  <2>2. CASE UNCHANGED loop /\ Silent
    BY <1>1, <2>1, <2>2, SilentLeads DEF Streaming
  <2>3. QED
    BY <1>7, <1>8, <2>1, <2>2 DEF Truncate
<1>9. ASSUME NEW opens \in {"none", "ark", "dsml"}, Write(opens)
      PROVE  Goal
  <2>1. loop'.pc = loop.pc /\ loop.pc # "tools"
    <3>1. PICK b, t :
             loop' = [loop EXCEPT !.chunks = loop.chunks + 1, !.block = b, !.text = t]
      BY <1>9 DEF Write
    <3>2. QED
      BY <1>1, <1>9, <3>1 DEF Write, Streaming, LoopType
  <2>2. QED
    BY <1>1, <1>9, <2>1, SayLeads, SilentLeads DEF Write, Kinds
<1>10. ASSUME GiveBack, loop.pc # "tools"
       PROVE  Goal
  <2>1. loop' = [loop EXCEPT !.block = "given", !.text = TRUE] /\ "given" \in Blocks
    BY <1>10 DEF GiveBack, Blocks
  <2>2. loop'.pc = loop.pc
    BY <1>1, <2>1, LoopGivesBack
  <2>3. QED
    BY <1>1, <1>10, <2>2, SayLeads DEF GiveBack, Kinds
<1>11. CASE NoAnswer
  <2>1. CASE loop.empties < MaxEmpty
    <3>1. Silent /\ loop' = [loop EXCEPT !.empties = loop.empties + 1, !.iter = loop.iter - 1,
                                         !.pc = "turn"]
      BY <1>11, <2>1 DEF NoAnswer
    <3>2. loop'.pc = "turn"
      BY <1>1, <3>1 DEF LoopType
    <3>3. QED
      BY <1>1, <3>1, <3>2, SilentLeads
  <2>2. CASE ~(loop.empties < MaxEmpty)
    BY <1>1, <1>11, <2>2, FailLeads DEF NoAnswer
  <2>3. QED
    BY <2>1, <2>2
<1>12. CASE EndStream
  <2>1. ASSUME NEW n \in 1 .. MaxCalls, NEW rest \in BOOLEAN, Announce(n, rest)
        PROVE  Goal
    BY <2>1, AnnounceLeads
  <2>2. loop.pc # "tools"
    BY <1>12 DEF EndStream
  <2> HIDE DEF Goal
  <2>3. CASE AfterLoop(loop)
    BY <1>1, <1>2, <2>3 DEF Goal
  <2>4. CASE NoAnswer
    BY <1>11, <2>4 DEF Goal
  <2>5. CASE GiveBack
    BY <1>10, <2>2, <2>5 DEF Goal
  <2>6. CASE \E n \in 1 .. MaxCalls, rest \in BOOLEAN : Announce(n, rest)
    BY <2>1, <2>6 DEF Goal
  <2>7. \/ NoAnswer \/ GiveBack \/ AfterLoop(loop)
        \/ \E n \in 1 .. MaxCalls, rest \in BOOLEAN : Announce(n, rest)
    BY <1>12 DEF EndStream
  <2>8. QED
    BY <2>3, <2>4, <2>5, <2>6, <2>7
<1>13. CASE EndFinal
  <2>1. loop.pc # "tools"
    BY <1>13 DEF EndFinal
  <2>2. CASE Fail(loop)
    BY <1>1, <2>2, FailLeads
  <2>3. CASE loop' = [loop EXCEPT !.pc = "over"] /\ CloseAndSend(<<"finished">>)
    <3>1. loop'.pc = "over"
      BY <1>1, <2>3, OverIsPc, LoopGoesOn
    <3>2. QED
      BY <1>1, <2>3, <3>1, CloseLeads
  <2> HIDE DEF Goal
  <2>4. QED
    BY <1>10, <1>13, <2>1, <2>2, <2>3 DEF EndFinal, Goal
<1> HIDE DEF Goal
<1>14. CASE Break
  BY <1>7, <1>14 DEF Break, Goal
<1>15. CASE Truncate
  BY <1>8, <1>15 DEF Goal
<1>16. Goal
  BY <1>3, <1>4, <1>5, <1>6, <1>9, <1>12, <1>13, <1>14, <1>15 DEF AgentStep, Goal
<1>17. QED
  BY <1>16 DEF Goal

\* The client accepts the event that fits what it has open, and "failed" always.
LEMMA ReceivedOK ==
  ASSUME NEW e \in Events, client \in [open : Open, ends : Nat, refused : BOOLEAN],
         client.ends = 0, ~client.refused, e = "failed" \/ client.open = Before(e),
         client' = Received(e)
  PROVE  /\ client' \in [open : Open, ends : Nat, refused : BOOLEAN]
         /\ ~client'.refused
         /\ client.open = Before(e) => client'.open = After(e)
         /\ e \notin TerminalEvents => client'.ends = 0
<1>1. Kinds = {"text", "reasoning"} /\ StartOf["text"] = "text_start"
      /\ StartOf["reasoning"] = "reasoning_start" /\ EndOf["text"] = "text_end"
      /\ EndOf["reasoning"] = "reasoning_end"
  BY DEF Kinds, StartOf, EndOf
<1>2. e \in {"text", "reasoning", "text_start", "reasoning_start", "text_end", "reasoning_end",
             "started", "call", "result", "finished", "failed"}
  BY <1>1 DEF Events, TerminalEvents
<1>3. ~Refused(e)
  BY <1>1, <1>2 DEF Refused, Before
<1> DEFINE open == IF \E k \in Kinds : e = StartOf[k]
                   THEN CHOOSE k \in Kinds : e = StartOf[k]
                   ELSE IF \E k \in Kinds : e = EndOf[k] THEN "none" ELSE client.open
           ends == client.ends + (IF e \in TerminalEvents THEN 1 ELSE 0)
           refused == client.refused \/ Refused(e)
<1>4. client' = [open |-> open, ends |-> ends, refused |-> refused]
  BY DEF Received
<1>5. ASSUME NEW k \in Kinds, e = StartOf[k]
      PROVE  open = k
  BY <1>1, <1>5
<1>6. (\A k \in Kinds : e # StartOf[k]) => open \in {"none", client.open}
  OBVIOUS
<1>7. open \in Open
  BY <1>5, <1>6 DEF Open
<1>8. client.open = Before(e) => open = After(e)
  <2>1. CASE e \in {"text_start", "reasoning_start"}
    <3>1. e = "text_start" => open = "text"
      BY <1>1, <1>5
    <3>2. e = "reasoning_start" => open = "reasoning"
      BY <1>1, <1>5
    <3> HIDE DEF open
    <3>3. QED
      BY <2>1, <3>1, <3>2 DEF After
  <2>2. CASE e \in {"text_end", "reasoning_end"}
    <3>1. (\A k \in Kinds : e # StartOf[k]) /\ \E k \in Kinds : e = EndOf[k]
      BY <1>1, <2>2
    <3>2. QED
      BY <2>2, <3>1 DEF After
  <2>3. CASE e \notin {"text_start", "reasoning_start", "text_end", "reasoning_end"}
    <3>1. \A k \in Kinds : e # StartOf[k] /\ e # EndOf[k]
      BY <1>1, <2>3
    <3>2. open = client.open
      BY <3>1
    <3>3. Before(e) = After(e)
      BY <1>2, <2>3 DEF Before, After
    <3>4. QED
      BY <3>2, <3>3
  <2>4. QED
    BY <2>1, <2>2, <2>3
<1>9. ends \in Nat /\ refused \in BOOLEAN /\ ~refused /\ (e \notin TerminalEvents => ends = 0)
  BY <1>3
<1> HIDE DEF open, ends, refused
<1>10. QED
  BY <1>4, <1>7, <1>8, <1>9

LEMMA FailingEvent ==
  ASSUME ChatInv, ep.stage # "over", ~ep.saved, ep' = Failing(ep)
  PROVE  ep'.stage = "failing" /\ ep'.event = "failed"
BY FailingOK DEF ChatInv

\* A request that fails or closes needs nothing of what it had under way.
LEMMA FlowFails ==
  ASSUME FlowInv, ep'.stage = "failing", ep'.event = "failed",
         ep.stage \in {"opening", "pulling", "sending", "failing"},
         UNCHANGED <<agentVars, client>>
  PROVE  FlowInv'
BY DEF FlowInv, agentVars

LEMMA FlowCloses ==
  ASSUME ChatInv, Close, client' \in [open : Open, ends : Nat, refused : BOOLEAN],
         ~client'.refused
  PROVE  FlowInv'
<1>1. ep'.stage = "over"
  BY CloseOK DEF ChatInv
<1>2. loop'.pc # "tools"
  BY DEF Close, NoRun, NewRun
<1>3. QED
  BY <1>1, <1>2 DEF FlowInv

LEMMA FlowTake == ChatInv /\ FlowInv /\ Take => FlowInv'
<1> SUFFICES ASSUME ChatInv, FlowInv, Take PROVE FlowInv'
  OBVIOUS
<1> DEFINE event == Head(outbox)
<1>1. /\ ep.stage = "pulling" /\ outbox \in Seq(Events) /\ outbox # << >>
      /\ outbox' = Tail(outbox) /\ UNCHANGED <<loop, seg, client>>
  BY DEF Take, ChatInv, AgentOK
<1>2. PICK calls : ep' = [Fed(event) EXCEPT !.stage = "sending", !.calls = calls]
  BY DEF Take
<1>3. ep'.stage = "sending" /\ ep'.event = event
  BY <1>2 DEF Fed, ChatInv, RequestOK
<1> HIDE DEF event
<1>4. Leads(client.open, outbox, seg)
  BY <1>1 DEF FlowInv, Reached
<1>5. client.open = Before(event) /\ Leads(After(event), outbox', seg)
  BY <1>1, <1>4, LeadsTail DEF event
<1>6. QED
  BY <1>1, <1>3, <1>5 DEF FlowInv, Reached

LEMMA FlowSend == ChatInv /\ FlowInv /\ Send => FlowInv'
<1> SUFFICES ASSUME ChatInv, FlowInv, Send PROVE FlowInv'
  OBVIOUS
<1>1. /\ ep.event \in Events /\ client.ends = 0 /\ client' = Received(ep.event)
      /\ ep.event = "failed" \/ client.open = Before(ep.event)
  BY DEF Send, ChatInv, RequestOK, FlowInv
<1>2. /\ client' \in [open : Open, ends : Nat, refused : BOOLEAN] /\ ~client'.refused
      /\ client.open = Before(ep.event) => client'.open = After(ep.event)
      /\ ep.event \notin TerminalEvents => client'.ends = 0
  BY <1>1, ReceivedOK DEF FlowInv
<1>3. CASE ep.stage = "failing"
  BY <1>2, <1>3, FlowCloses DEF Send
<1>4. CASE ep.stage = "sending"
  <2>1. UNCHANGED agentVars
    BY <1>4 DEF Send
  <2>2. CASE ep.event \in TerminalEvents
    <3>1. ep' = [ep EXCEPT !.stage = "ending"]
      BY <1>4, <2>2 DEF Send
    <3>2. ep'.stage = "ending"
      BY <3>1 DEF ChatInv, RequestOK
    <3>3. QED
      BY <1>2, <2>1, <3>2 DEF FlowInv, agentVars
  <2>3. CASE ep.event \notin TerminalEvents
    <3>1. ep' = [ep EXCEPT !.stage = "pulling", !.event = "started"]
      BY <1>4, <2>3 DEF Send
    <3>2. ep'.stage = "pulling"
      BY <3>1 DEF ChatInv, RequestOK
    <3>3. client'.open = After(ep.event) /\ Leads(After(ep.event), outbox, seg)
      BY <1>2, <1>4 DEF FlowInv, Reached
    <3>4. QED
      BY <1>2, <2>1, <2>3, <3>2, <3>3 DEF FlowInv, agentVars, Reached
  <2>4. QED
    BY <2>2, <2>3
<1>5. QED
  BY <1>3, <1>4 DEF Send

LEMMA FlowBuild == ChatInv /\ FlowInv /\ Build => FlowInv'
<1> SUFFICES ASSUME ChatInv, FlowInv, Build PROVE FlowInv'
  OBVIOUS
<1>1. ep.stage = "opening" /\ ~ep.saved /\ client' = client
  BY DEF Build, ChatInv, EndSaved, TerminalEvents
<1>2. CASE ep' = Failing(ep) /\ UNCHANGED agentVars
  BY <1>1, <1>2, FailingEvent, FlowFails
<1>3. CASE /\ ep' = [ep EXCEPT !.stage = "pulling"]
           /\ loop' = NewRun /\ seg' = "none" /\ outbox' = <<"started">>
  <2>1. ep'.stage = "pulling" /\ loop'.pc # "tools"
    BY <1>3 DEF ChatInv, RequestOK, NewRun
  <2>2. "started" \in Events /\ Before("started") = "none" /\ After("started") = "none"
    BY DEF Events, Before, After
  <2>3. Leads("none", outbox', seg')
    BY <1>3, <2>2, LeadsOne
  <2>4. QED
    BY <1>1, <2>1, <2>3 DEF FlowInv, Reached
<1>4. QED
  BY <1>2, <1>3 DEF Build

LEMMA FlowAgent == ChatInv /\ FlowInv /\ Agent => FlowInv'
<1> SUFFICES ASSUME ChatInv, FlowInv, Agent PROVE FlowInv'
  OBVIOUS
<1>1. Led /\ (loop'.pc = "tools" => seg' = "none")
  BY AgentStepLeads DEF ChatInv, FlowInv, Agent
<1>2. ep' = ep /\ client' = client /\ ep.stage = "pulling" /\ outbox = << >>
  BY DEF Agent, AgentStep
<1>3. client.open = seg
  BY <1>2 DEF FlowInv, Reached, Leads
<1>4. Leads(client.open, outbox', seg')
  BY <1>1, <1>3 DEF Led
<1>5. QED
  BY <1>1, <1>2, <1>4 DEF FlowInv, Reached

\* These change of the request at most its calls, its text and its `saved`.
LEMMA FlowStays ==
  ASSUME FlowInv, ep'.stage = ep.stage, ep'.event = ep.event, UNCHANGED <<agentVars, client>>
  PROVE  FlowInv'
BY DEF FlowInv, Reached, agentVars

LEMMA FlowStep == ChatInv /\ FlowInv /\ [Next]_vars => FlowInv'
<1> SUFFICES ASSUME ChatInv, FlowInv, [Next]_vars PROVE FlowInv'
  OBVIOUS
<1>1. client \in [open : Open, ends : Nat, refused : BOOLEAN] /\ ~client.refused
  BY DEF FlowInv
<1>2. CASE Ask
  <2>1. /\ client' = [client EXCEPT !.open = "none", !.ends = 0] /\ loop' = loop /\ seg' = seg
        /\ ep' = [Idle EXCEPT !.run = ep.run + 1, !.stage = "opening", !.alone = workers = {},
                              !.calls = <<AppendChat(ep.run + 1), Status("running")>>]
    BY <1>2 DEF Ask, Fresh, agentVars
  <2>2. ep'.stage = "opening"
    BY <2>1 DEF Idle
  <2>3. /\ client' \in [open : Open, ends : Nat, refused : BOOLEAN]
        /\ client'.open = "none" /\ client'.ends = 0 /\ ~client'.refused
    BY <1>1, <2>1 DEF Open
  <2>4. QED
    BY <2>1, <2>2, <2>3 DEF FlowInv
<1>3. CASE Call
  <2>1. PICK cs, saved : ep' = [ep EXCEPT !.calls = cs, !.saved = saved]
    BY <1>3 DEF Call
  <2>2. ep'.stage = ep.stage /\ ep'.event = ep.event
    BY <2>1 DEF ChatInv, RequestOK
  <2>3. QED
    BY <1>3, <2>2, FlowStays DEF Call
<1>4. CASE End
  BY <1>1, <1>4, FlowCloses DEF End
<1>5. CASE Heartbeat
  <2>1. ep'.stage = ep.stage /\ ep'.event = ep.event
    BY <1>5 DEF Heartbeat, ChatInv, RequestOK
  <2>2. QED
    BY <1>5, <2>1, FlowStays DEF Heartbeat
<1>6. CASE CallRaises
  <2>1. /\ ep.stage \in {"opening", "pulling", "sending", "failing"} /\ ~ep.saved
        /\ client' = client
    BY <1>6 DEF CallRaises, ChatInv, EndSaved, RequestOK, Stages
  <2>2. CASE ep.stage = "failing"
    BY <1>1, <1>6, <2>1, <2>2, FlowCloses DEF CallRaises
  <2>3. CASE ep.stage # "failing"
    BY <1>6, <2>1, <2>3, FailingEvent, FlowFails DEF CallRaises
  <2>4. QED
    BY <2>2, <2>3
<1>7. CASE Leave \/ Restart
  BY <1>1, <1>7, FlowCloses DEF Leave, Restart
<1>8. CASE \E w \in workers : Work(w) \/ WorkFails(w)
  BY <1>8, FlowStays DEF Work, WorkFails
<1>9. CASE UNCHANGED vars \/ Silence
  BY <1>9, FlowStays DEF vars, Silence
<1>10. QED
  BY <1>2, <1>3, <1>4, <1>5, <1>6, <1>7, <1>8, <1>9, FlowTake, FlowSend, FlowBuild, FlowAgent
     DEF Next, Request

LEMMA FlowInit == Init => FlowInv
<1> SUFFICES ASSUME Init PROVE FlowInv
  OBVIOUS
<1>1. loop.pc # "tools"
  BY DEF Init, NoRun, NewRun
<1>2. ep.stage = "over"
  BY DEF Init, Idle
<1>3. client \in [open : Open, ends : Nat, refused : BOOLEAN] /\ ~client.refused
  BY DEF Init, Open
<1>4. QED
  BY <1>1, <1>2, <1>3 DEF FlowInv

\* The client gets no event that it must refuse, over retries, tools, errors of the provider,
\* exceptions of the store and aborted requests.
THEOREM EventsFollowProtocol == Spec => []ProtocolKept
<1>1. FlowInv => ProtocolKept
  BY DEF FlowInv, ProtocolKept
<1>2. QED
  BY <1>1, FlowInit, FlowStep, ChatAlways, PTL DEF Spec

-----------------------------------------------------------------------------
(* What a terminal event finds in the row of its session. *)
Outcome(event) == IF event = "finished" THEN "completed" ELSE "failed"

ReplyStored ==
    /\ Current(history)
    /\ history[Len(history)].run = ep.run /\ history[Len(history)].said = ep.said

WritesReply(call, run, said) ==
    call.op = "upsert" /\ call.msg = [role |-> "assistant", run |-> run, said |-> said]

\* Before an end its reply is written, unless there is none, and then its status.
Saves(calls, event, run, said) ==
    \/ /\ Len(calls) = 1 /\ calls[1] = Status(Outcome(event))
       /\ said = 0
    \/ /\ Len(calls) = 2 /\ WritesReply(calls[1], run, said)
       /\ calls[2] = Status(Outcome(event))

\* What has been done of these calls, unless others wrote the row in between.
SavedInv ==
    /\ ep.alone /\ ep.stage # "over" => workers = {}
    /\ ep.event \in TerminalEvents =>
          \/ /\ ep.calls = << >>
             /\ ep.alone => /\ status = Outcome(ep.event)
                            /\ ep.said > 0 => ReplyStored
          \/ /\ Len(ep.calls) = 1 /\ ep.calls[1] = Status(Outcome(ep.event))
             /\ ep.alone /\ ep.said > 0 => ReplyStored
          \/ Saves(ep.calls, ep.event, ep.run, ep.said)

LEMMA SaveReplySaves ==
  ASSUME NEW e, e.run \in Nat, e.said \in Nat, NEW event \in TerminalEvents,
         NEW v, v = Outcome(event)
  PROVE  Saves(SaveReply(e) \o <<Status(v)>>, event, e.run, e.said)
<1> DEFINE u == UpsertChat(e.run, e.said)
           t == Status(v)
<1>1. WritesReply(u, e.run, e.said)
  BY DEF UpsertChat, WritesReply
<1>2. SaveReply(e) = IF e.said > 0 \/ e.some THEN <<u>> ELSE << >>
  BY DEF SaveReply
<1>3. t = Status(Outcome(event)) /\ t \in Calls /\ u \in Calls
  BY StatusIsCall, UpsertIsCall DEF Outcome
<1> HIDE DEF u, t
<1>4. CASE e.said > 0 \/ e.some
  <2>1. SaveReply(e) \o <<t>> = <<u>> \o <<t>>
    BY <1>2, <1>4
  <2> DEFINE cs == <<u>> \o <<t>>
  <2>2. Len(cs) = 2 /\ cs[1] = u /\ cs[2] = t
    BY <1>3
  <2> HIDE DEF cs
  <2>3. Saves(cs, event, e.run, e.said)
    BY <1>1, <1>3, <2>2 DEF Saves
  <2>4. QED
    BY <2>1, <2>3 DEF cs, t
<1>5. CASE ~(e.said > 0 \/ e.some)
  <2>1. SaveReply(e) \o <<t>> = <<t>> /\ e.said = 0
    BY <1>2, <1>5
  <2>2. QED
    BY <1>3, <2>1 DEF Saves, t
<1>6. QED
  BY <1>4, <1>5

LEMMA SavedFails ==
  ASSUME ChatInv, SavedInv, ep.stage # "over", ep' = Failing(ep), workers' = workers
  PROVE  SavedInv'
<1> DEFINE cs == SaveReply(ep) \o <<Status("failed")>>
<1>1. ep' = [ep EXCEPT !.stage = "failing", !.event = "failed", !.calls = cs]
  BY DEF Failing
<1>2. ep.run \in Nat /\ ep.said \in Nat
  BY DEF ChatInv, RequestOK
<1>3. Saves(cs, "failed", ep.run, ep.said)
  BY <1>2, SaveReplySaves DEF TerminalEvents, Outcome
<1> HIDE DEF cs
<1>4. /\ ep'.event = "failed" /\ ep'.calls = cs /\ ep'.run = ep.run /\ ep'.said = ep.said
      /\ ep'.alone = ep.alone
  BY <1>1 DEF ChatInv, RequestOK
<1>5. QED
  BY <1>3, <1>4 DEF SavedInv

LEMMA SavedCloses ==
  ASSUME RequestOK, Close
  PROVE  SavedInv'
BY CloseOK DEF SavedInv, TerminalEvents

\* Steps that leave the row alone and change at most the stage of the request.
LEMMA SavedStays ==
  ASSUME SavedInv, UNCHANGED <<sessionVars, workers>>,
         ep'.stage # "over" => ep.stage # "over", ep'.alone = ep.alone,
         ep'.event \in TerminalEvents =>
            ep'.event = ep.event /\ ep'.calls = ep.calls /\ ep'.run = ep.run /\ ep'.said = ep.said
  PROVE  SavedInv'
BY DEF SavedInv, sessionVars, ReplyStored

LEMMA SavedTake == ChatInv /\ SavedInv /\ Take => SavedInv'
<1> SUFFICES ASSUME ChatInv, SavedInv, Take PROVE SavedInv'
  OBVIOUS
<1> DEFINE event == Head(outbox)
           fed == Fed(event)
           n == ep.said + (IF event = "text" THEN 1 ELSE 0)
           b == ep.some \/ event \in {"text", "reasoning", "call"}
<1>1. /\ ep.stage = "pulling" /\ workers' = workers /\ ep.run \in Nat
  BY DEF Take, ChatInv, RequestOK
<1>2. fed = [ep EXCEPT !.event = event, !.said = n, !.some = b] /\ n \in Nat
  BY DEF Fed, ChatInv, RequestOK
<1>3. fed.run = ep.run /\ fed.said = n /\ fed.alone = ep.alone
  BY <1>2 DEF ChatInv, RequestOK
<1>4. PICK calls :
         /\ ep' = [fed EXCEPT !.stage = "sending", !.calls = calls]
         /\ event \in TerminalEvents => calls = SaveReply(fed) \o <<Status(Outcome(event))>>
  BY DEF Take, TerminalEvents, Outcome
<1> HIDE DEF n, b
<1>5. /\ ep'.event = event /\ ep'.calls = calls /\ ep'.run = ep.run /\ ep'.said = n
      /\ ep'.alone = ep.alone
  BY <1>2, <1>4 DEF ChatInv, RequestOK
<1> HIDE DEF event, fed
<1>6. event \in TerminalEvents => Saves(calls, event, ep.run, n)
  BY <1>1, <1>2, <1>3, <1>4, SaveReplySaves
<1>7. QED
  BY <1>1, <1>5, <1>6 DEF SavedInv

\* The replacement of a reply and the appended one both are the last message.
LEMMA PutIsLast ==
  ASSUME NEW h \in Seq(Message), NEW m \in Message, m.role = "assistant"
  PROVE  LET g == Put(h, m) IN Current(g) /\ g[Len(g)] = m
<1> DEFINE g == Put(h, m)
<1>1. CASE Current(h)
  <2>1. g = [h EXCEPT ![Len(h)] = m] /\ Len(h) \in 1 .. Len(h)
    BY <1>1 DEF Put, Current
  <2>2. Len(g) = Len(h) /\ g[Len(h)] = m /\ g # << >>
    BY <2>1
  <2>3. QED
    BY <2>2 DEF Current
<1>2. CASE ~Current(h)
  <2>1. g = h \o <<m>>
    BY <1>2 DEF Put
  <2>2. Len(g) = Len(h) + 1 /\ g[Len(h) + 1] = m /\ g # << >>
    BY <2>1
  <2>3. QED
    BY <2>2 DEF Current
<1>3. QED
  BY <1>1, <1>2

LEMMA SavedCall == ChatInv /\ SavedInv /\ Call => SavedInv'
<1> SUFFICES ASSUME ChatInv, SavedInv, Call PROVE SavedInv'
  OBVIOUS
<1> DEFINE c == Head(ep.calls)
           cs == Rest(ep.calls)
<1>1. /\ ep.calls \in Seq(Calls) /\ ep.calls # << >> /\ Statement(c) /\ c \in Calls
      /\ c = ep.calls[1] /\ workers' = workers /\ ep.said \in Nat /\ ep.run \in Nat
  BY DEF Call, ChatInv, RequestOK
<1>2. PICK saved : ep' = [ep EXCEPT !.calls = cs, !.saved = saved]
  BY DEF Call
<1>3. /\ ep'.stage = ep.stage /\ ep'.event = ep.event /\ ep'.calls = cs /\ ep'.run = ep.run
      /\ ep'.said = ep.said /\ ep'.alone = ep.alone
  BY <1>2 DEF ChatInv, RequestOK
<1>4. CASE ep.event \notin TerminalEvents
  BY <1>1, <1>3, <1>4 DEF SavedInv
<1> DEFINE last == Status(Outcome(ep.event))
<1>5. last.op = "status" /\ last.value = Outcome(ep.event)
  BY DEF Status
<1>6. CASE Len(ep.calls) = 1 /\ ep.calls[1] = last /\ (ep.alone /\ ep.said > 0 => ReplyStored)
  <2>1. cs = << >> /\ status' = Outcome(ep.event) /\ history' = history
    <3>1. ~Reads(c) /\ c.op = "status" /\ c.value = Outcome(ep.event)
      BY <1>1, <1>5, <1>6 DEF Reads
    <3>2. cs = Tail(ep.calls) /\ status' = c.value /\ history' = history
      BY <1>1, <3>1 DEF Rest, Statement
    <3>3. Tail(ep.calls) = << >>
      <4>1. Tail(ep.calls) \in Seq(Calls) /\ Len(Tail(ep.calls)) = 0
        BY <1>1, <1>6
      <4>2. QED
        BY <4>1, EmptySeq
    <3> HIDE DEF c, cs, last
    <3>4. QED
      BY <3>1, <3>2, <3>3
  <2> HIDE DEF c, cs, last
  <2>2. QED
    BY <1>1, <1>3, <1>6, <2>1 DEF SavedInv, ReplyStored
<1>7. CASE Len(ep.calls) = 2 /\ WritesReply(c, ep.run, ep.said) /\ ep.calls[2] = last
  <2>1. CASE Reads(c)
    <3>1. cs = [ep.calls EXCEPT ![1] = [c EXCEPT !.base = history, !.read = TRUE]]
      BY <1>1, <2>1 DEF Rest
    <3>2. c \in ChatCall
      BY <1>1, <1>7, CallKinds DEF WritesReply
    <3>3. Len(cs) = 2 /\ cs[2] = last /\ cs[1] = [c EXCEPT !.base = history, !.read = TRUE]
      BY <1>1, <1>7, <3>1
    <3> HIDE DEF cs, c, last
    <3>4. WritesReply(cs[1], ep.run, ep.said)
      BY <1>7, <3>2, <3>3 DEF WritesReply, ChatCall
    <3>5. Saves(cs, ep.event, ep.run, ep.said)
      BY <3>3, <3>4 DEF Saves, last
    <3>6. QED
      BY <1>1, <1>3, <3>5 DEF SavedInv
  <2>2. CASE ~Reads(c)
    <3>1. c.op = "upsert" /\ c.msg = [role |-> "assistant", run |-> ep.run, said |-> ep.said]
      BY <1>7 DEF WritesReply
    <3>2. c.base \in Seq(Message) /\ c.msg \in Message
      BY <1>1, <3>1, CallKinds DEF ChatCall
    <3>3. history' = Put(c.base, c.msg) /\ cs = Tail(ep.calls)
      BY <1>1, <2>2, <3>1 DEF Statement, Saved, Rest
    <3>4. Current(history') /\ history'[Len(history')] = c.msg
      BY <3>1, <3>2, <3>3, PutIsLast
    <3>5. Len(Tail(ep.calls)) = 1 /\ Tail(ep.calls)[1] = ep.calls[2]
      BY <1>1, <1>7
    <3>6. Len(cs) = 1 /\ cs[1] = last
      BY <1>7, <3>3, <3>5
    <3> HIDE DEF cs, c
    <3>7. ReplyStored'
      BY <1>3, <3>1, <3>4 DEF ReplyStored
    <3>8. QED
      BY <1>1, <1>3, <3>6, <3>7 DEF SavedInv
  <2>3. QED
    BY <2>1, <2>2
<1>8. CASE ep.event \in TerminalEvents
  <2>1. \/ Len(ep.calls) = 1 /\ ep.calls[1] = last /\ (ep.alone /\ ep.said > 0 => ReplyStored)
        \/ Len(ep.calls) = 2 /\ WritesReply(c, ep.run, ep.said) /\ ep.calls[2] = last
    BY <1>1, <1>8 DEF SavedInv, Saves
  <2>2. QED
    BY <1>6, <1>7, <2>1
<1>9. QED
  BY <1>4, <1>8

LEMMA SavedStep == ChatInv /\ SavedInv /\ [Next]_vars => SavedInv'
<1> SUFFICES ASSUME ChatInv, SavedInv, [Next]_vars PROVE SavedInv'
  OBVIOUS
<1>1. RequestOK
  BY DEF ChatInv
<1>2. CASE Ask
  <2>1. /\ UNCHANGED workers
        /\ ep' = [Idle EXCEPT !.run = ep.run + 1, !.stage = "opening", !.alone = workers = {},
                              !.calls = <<AppendChat(ep.run + 1), Status("running")>>]
    BY <1>2 DEF Ask
  <2>2. ep'.event = "started" /\ ep'.alone = (workers = {})
    BY <2>1 DEF Idle
  <2>3. QED
    BY <2>1, <2>2 DEF SavedInv, TerminalEvents
<1>3. CASE Build
  <2>1. ep.stage = "opening" /\ ep.event = "started" /\ UNCHANGED <<sessionVars, workers>>
    BY <1>3 DEF Build, ChatInv, EndSaved
  <2>2. CASE ep' = Failing(ep)
    BY <2>1, <2>2, SavedFails
  <2>3. CASE ep' = [ep EXCEPT !.stage = "pulling"]
    <3>1. ep'.event = "started" /\ ep'.alone = ep.alone
      BY <1>1, <2>1, <2>3 DEF RequestOK
    <3>2. QED
      BY <2>1, <3>1, SavedStays DEF TerminalEvents
  <2>4. QED
    BY <1>3, <2>2, <2>3 DEF Build
<1>4. CASE Send
  <2>1. CASE ep.stage = "failing"
    BY <1>1, <1>4, <2>1, SavedCloses DEF Send
  <2>2. CASE ep.stage = "sending"
    <3>1. /\ UNCHANGED <<sessionVars, workers>>
          /\ ep' = IF ep.event \in TerminalEvents THEN [ep EXCEPT !.stage = "ending"]
                   ELSE [ep EXCEPT !.stage = "pulling", !.event = "started"]
      BY <1>4, <2>2 DEF Send
    <3>2. /\ ep'.alone = ep.alone /\ ep'.calls = ep.calls /\ ep'.run = ep.run /\ ep'.said = ep.said
          /\ ep'.event \in {ep.event, "started"}
      BY <1>1, <3>1 DEF RequestOK
    <3>3. QED
      BY <2>2, <3>1, <3>2, SavedStays DEF TerminalEvents
  <2>3. QED
    BY <1>4, <2>1, <2>2 DEF Send
<1>5. CASE Heartbeat
  <2>1. /\ ep' = [ep EXCEPT !.calls = SaveReply(ep)] /\ UNCHANGED <<sessionVars, workers>>
        /\ ep.event = "started" /\ ep.stage = "pulling"
    BY <1>5 DEF Heartbeat, ChatInv, EndSaved
  <2>2. ep'.event = "started" /\ ep'.alone = ep.alone
    BY <1>1, <2>1 DEF RequestOK
  <2>3. QED
    BY <2>1, <2>2, SavedStays DEF TerminalEvents
<1>6. CASE CallRaises
  <2>1. ep.stage # "over"
    BY <1>6 DEF CallRaises, ChatInv, EndSaved
  <2>2. QED
    BY <1>1, <1>6, <2>1, SavedCloses, SavedFails DEF CallRaises
<1>7. CASE End \/ Leave \/ Restart
  BY <1>1, <1>7, SavedCloses DEF End, Leave, Restart
<1>8. ASSUME NEW w \in workers, Work(w) \/ WorkFails(w)
      PROVE  SavedInv'
  <2>1. ep' = ep
    BY <1>8 DEF Work, WorkFails
  <2>2. ~ep.alone \/ ep.stage = "over"
    BY DEF SavedInv
  <2>3. ep.event \in TerminalEvents => ep.stage # "over"
    BY DEF ChatInv, EndSaved, TerminalEvents
  <2>4. QED
    BY <2>1, <2>2, <2>3 DEF SavedInv
<1>9. CASE Agent \/ Silence \/ UNCHANGED vars
  <2>1. ep' = ep /\ UNCHANGED <<sessionVars, workers>>
    BY <1>9 DEF Agent, Silence, vars
  <2>2. QED
    BY <2>1, SavedStays
<1>10. QED
  BY <1>2, <1>3, <1>4, <1>5, <1>6, <1>7, <1>8, <1>9, SavedTake, SavedCall DEF Next, Request

\* An end of a run reaches the client only after the row tells it, with all of the text that
\* was sent, unless calls of an abandoned run were under way.
THEOREM EndsAreSaved == Spec => TerminalIsSaved
<1> DEFINE Kept ==
      client'.ends > client.ends /\ ep.alone
        => /\ status = IF ep.event = "finished" THEN "completed" ELSE "failed"
           /\ ep.said > 0 => /\ Current(history)
                             /\ history[Len(history)].run = ep.run
                             /\ history[Len(history)].said = ep.said
<1>1. Init => SavedInv
  BY DEF Init, Idle, SavedInv, TerminalEvents
<1>2. Init => FlowInv
  BY FlowInit
<1>3. ChatInv /\ FlowInv /\ SavedInv /\ [Next]_vars => [Kept]_vars
  <2> SUFFICES ASSUME ChatInv, FlowInv, SavedInv, Next, client'.ends > client.ends, ep.alone
               PROVE  Kept
    OBVIOUS
  <2>1. client.ends \in Nat /\ client \in [open : Open, ends : Nat, refused : BOOLEAN]
    BY DEF FlowInv
  <2>2. ~Ask
    <3>1. Ask => client'.ends = 0
      BY <2>1 DEF Ask, Fresh
    <3>2. QED
      BY <2>1, <3>1
  <2>3. Send
    <3>1. client' # client
      BY <2>1
    <3>2. QED
      BY <2>2, <3>1 DEF Next, Request, Call, Build, Take, End, Agent, Heartbeat, Silence, CallRaises,
                        Leave, Restart, Work, WorkFails, vars
  <2>4. ep.calls = << >> /\ client'.ends = client.ends + (IF ep.event \in TerminalEvents THEN 1 ELSE 0)
    BY <2>3 DEF Send, Received
  <2>5. ep.event \in TerminalEvents
    BY <2>1, <2>4
  <2>6. status = Outcome(ep.event) /\ (ep.said > 0 => ReplyStored)
    BY <2>4, <2>5 DEF SavedInv, Saves
  <2>7. QED
    BY <2>6 DEF Outcome, ReplyStored
<1>4. QED
  BY <1>1, <1>2, <1>3, ChatAlways, FlowStep, SavedStep, PTL DEF Spec, TerminalIsSaved
=============================================================================
