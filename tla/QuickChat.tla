----------------------------- MODULE QuickChat -----------------------------
(***************************************************************************)
(* The quick channel, POST /api/agui/quick: the request itself drives the  *)
(* agent and sends its events (_agui_run_stream), beside the session's row *)
(* that says how the run went and what was said (session_store.py).        *)
(*                                                                         *)
(* A call of the store runs in a worker thread (asyncio.to_thread).  A     *)
(* chat call reads the history and writes it back in two statements that   *)
(* no transaction joins, so calls of two threads may interleave.  A cancel *)
(* does not undo a call: it is dropped if no thread had taken it, and      *)
(* otherwise goes on by itself.  `workers` are such calls, and the         *)
(* detached tasks that save an interrupted run.                            *)
(*                                                                         *)
(* The client sends its messages one after the other and may leave at any  *)
(* time; the server notices at once.  It checks the protocol like          *)
(* HttpAgent does.                                                         *)
(***************************************************************************)
EXTENDS AgentLoop

CONSTANT MaxRuns    \* bound: messages of the user

ASSUME QuickAssumption == MaxRuns \in Nat

VARIABLES
    status,    \* sessions.status
    history,   \* sessions.chat_history
    ep,        \* the request of the latest run
    workers,   \* calls of the store that go on without a request
    client,
    spoiled    \* history: a status of a run that is over was not saved, or saved too late

sessionVars == <<status, history>>
vars == <<agentVars, sessionVars, ep, workers, client, mishaps, spoiled>>

Runs == 1 .. MaxRuns

(***************************************************************************)
(* The store.                                                              *)
(***************************************************************************)
AppendChat(run) ==
    [op |-> "append", read |-> FALSE, base |-> << >>,
     msg |-> [role |-> "user", run |-> run, said |-> 0]]
UpsertChat(run, said) ==
    [op |-> "upsert", read |-> FALSE, base |-> << >>,
     msg |-> [role |-> "assistant", run |-> run, said |-> said]]
Status(value) == [op |-> "status", value |-> value]

\* upsert_chat: the reply of the current turn is replaced if there is one.
Current(h) == h # << >> /\ h[Len(h)].role = "assistant"
\* Mutant of Put: every write appends.
PutAppended(h, msg) == h \o <<msg>>

Put(h, msg) == IF Current(h) THEN [h EXCEPT ![Len(h)] = msg] ELSE h \o <<msg>>

Saved(call) == IF call.op = "append" THEN call.base \o <<call.msg>>
               ELSE Put(call.base, call.msg)

Reads(call) == call.op # "status" /\ ~call.read

\* One statement of the first of these calls, and what is left of them.
Statement(call) ==
    CASE Reads(call) -> UNCHANGED sessionVars
      [] call.op = "status" -> status' = call.value /\ UNCHANGED history
      [] OTHER -> history' = Saved(call) /\ UNCHANGED status

Rest(calls) == IF Reads(Head(calls)) THEN [calls EXCEPT ![1].base = history, ![1].read = TRUE]
               ELSE Tail(calls)

Others(w) == workers \ {w}
Going(calls) == {calls} \ {<< >>}

Work(w) ==
    /\ Statement(Head(w))
    /\ workers' = Others(w) \cup Going(Rest(w))
    /\ UNCHANGED <<agentVars, ep, client, mishaps, spoiled>>

\* The detached task drops what raises and goes on.
WorkFails(w) ==
    /\ Mishap
    /\ workers' = Others(w) \cup Going(Tail(w))
    /\ spoiled' = (spoiled \/ Head(w).op = "status")
    /\ UNCHANGED <<agentVars, sessionVars, ep, client>>

(***************************************************************************)
(* The request.                                                            *)
(***************************************************************************)
\* The client before a run.
Fresh == [client EXCEPT !.open = "none", !.ends = 0]

Idle == [run |-> 0, stage |-> "over", calls |-> << >>, event |-> "started",
         said |-> 0, some |-> FALSE, saved |-> FALSE, alone |-> TRUE]

\* The request is over, and so is its agent; `ep` keeps the number of the run.
Close ==
    /\ ep' = [Idle EXCEPT !.run = ep.run]
    /\ llm' = FirstCall /\ loop' = NoRun /\ seg' = "none" /\ outbox' = << >>

\* _upsert_assistant_chat: nothing is saved when there is nothing.
SaveReply(e) == IF e.said > 0 \/ e.some THEN <<UpsertChat(e.run, e.said)>> ELSE << >>
\* _schedule_interrupted_persist
Interrupted(e) == <<UpsertChat(e.run, e.said), Status("interrupted")>>

\* The user sends a message: the first two calls of the request.
Ask ==
    /\ ep.stage = "over" /\ ep.run < MaxRuns
    /\ ep' = [Idle EXCEPT !.run = ep.run + 1, !.stage = "opening",
                          !.alone = workers = {},
                          !.calls = <<AppendChat(ep.run + 1), Status("running")>>]
    /\ client' = Fresh
    /\ UNCHANGED <<agentVars, sessionVars, workers, mishaps, spoiled>>

Call ==
    /\ ep.calls # << >>
    /\ Statement(Head(ep.calls))
    /\ ep' = [ep EXCEPT !.calls = Rest(ep.calls),
                        !.saved = @ \/ (Rest(ep.calls) = << >> /\ ep.event \in TerminalEvents)]
    /\ UNCHANGED <<agentVars, workers, client, mishaps, spoiled>>

\* Mutant of Failing: the status only.
FailingStatus(e) == [e EXCEPT !.stage = "failing", !.event = "failed",
                              !.calls = <<Status("failed")>>]

\* The handler of exceptions: what there is, and the status.
Failing(e) == [e EXCEPT !.stage = "failing", !.event = "failed",
                        !.calls = SaveReply(e) \o <<Status("failed")>>]

\* A call raises; from the handler itself the exception ends the request.
CallRaises ==
    /\ ep.calls # << >> /\ Mishap
    /\ IF ep.stage = "failing"
       THEN Close /\ workers' = workers \cup {Interrupted(ep)}
       ELSE ep' = Failing(ep) /\ UNCHANGED <<agentVars, workers>>
    /\ UNCHANGED <<sessionVars, client, spoiled>>

\* build_agent, and the first event of the translator.
Build ==
    /\ ep.stage = "opening" /\ ep.calls = << >>
    /\ \/ /\ ep' = [ep EXCEPT !.stage = "pulling"]
          /\ loop' = NewRun /\ llm' = FirstCall /\ seg' = "none"
          /\ outbox' = <<"started">>
          /\ UNCHANGED mishaps
       \/ /\ Mishap
          /\ ep' = Failing(ep)
          /\ UNCHANGED agentVars
    /\ UNCHANGED <<sessionVars, workers, client, spoiled>>

\* The agent runs beside the calls of an idle request.
Agent ==
    /\ ep.stage = "pulling" /\ loop.pc # "over"
    /\ AgentStep
    /\ UNCHANGED <<sessionVars, ep, workers, client, spoiled>>

\* _AguiCollector.feed
Fed(event) == [ep EXCEPT !.event = event,
                         !.said = @ + (IF event = "text" THEN 1 ELSE 0),
                         !.some = @ \/ event \in {"text", "reasoning", "call"}]

\* An event arrives: a terminal one is saved before it is sent, another one now and then.
Take ==
    /\ ep.stage = "pulling" /\ ep.calls = << >> /\ outbox # << >>
    /\ LET event == Head(outbox)
           fed == Fed(event)
       IN \E calls \in IF event = "finished" THEN {SaveReply(fed) \o <<Status("completed")>>}
                       ELSE IF event = "failed" THEN {SaveReply(fed) \o <<Status("failed")>>}
                       ELSE {<< >>, SaveReply(fed)} :
             ep' = [fed EXCEPT !.stage = "sending", !.calls = calls]
    /\ outbox' = Tail(outbox)
    /\ UNCHANGED <<llm, loop, seg, sessionVars, workers, client, mishaps, spoiled>>

\* Nothing arrives for a while.
Heartbeat ==
    /\ ep.stage = "pulling" /\ ep.calls = << >> /\ outbox = << >>
    /\ SaveReply(ep) # << >>
    /\ ep' = [ep EXCEPT !.calls = SaveReply(ep)]
    /\ UNCHANGED <<agentVars, sessionVars, workers, client, mishaps, spoiled>>

\* What HttpAgent refuses: a delta or an end of a message that is not open, two messages open,
\* an end of the run with an open message, anything after the end.
Refused(event) ==
    \/ client.ends > 0
    \/ event \in {"text_start", "reasoning_start", "finished"} /\ client.open # "none"
    \/ \E k \in Kinds : event \in {k, EndOf[k]} /\ client.open # k

Received(event) ==
    [open |-> IF \E k \in Kinds : event = StartOf[k]
              THEN CHOOSE k \in Kinds : event = StartOf[k]
              ELSE IF \E k \in Kinds : event = EndOf[k] THEN "none" ELSE client.open,
     ends |-> client.ends + (IF event \in TerminalEvents THEN 1 ELSE 0),
     refused |-> client.refused \/ Refused(event)]

\* After an end that the agent sent, the request looks once more for an event.
Send ==
    /\ ep.stage \in {"sending", "failing"} /\ ep.calls = << >>
    /\ client' = Received(ep.event)
    /\ IF ep.stage = "failing" THEN Close
       ELSE /\ ep' = IF ep.event \in TerminalEvents THEN [ep EXCEPT !.stage = "ending"]
                     ELSE [ep EXCEPT !.stage = "pulling", !.event = "started"]
            /\ UNCHANGED agentVars
    /\ UNCHANGED <<sessionVars, workers, mishaps, spoiled>>

End ==
    /\ ep.stage = "ending"
    /\ Close
    /\ UNCHANGED <<sessionVars, workers, client, mishaps, spoiled>>

\* Suspended at a yield: leaving closes the generator (GeneratorExit).  Elsewhere it cancels
\* what the request awaits (CancelledError).
AtYield == ep.stage \in {"sending", "failing"} /\ ep.calls = << >>

\* A cancelled call: dropped, or going on in its thread.
Abandoned ==
    IF ep.calls = << >> THEN {{}}
    ELSE (IF Reads(Head(ep.calls)) \/ Head(ep.calls).op = "status" THEN {{}} ELSE {})
         \cup {{<<Head(ep.calls)>>}}

\* Mutant of LeavesWork: a generator that is closed at a yield saves nothing.
LeavesWorkOnCancel == ~AtYield

\* A cancel is taken for an interruption whatever was saved before.
LeavesWork == IF AtYield THEN ~ep.saved ELSE TRUE

Leave ==
    /\ Mishap /\ ep.stage # "over"
    /\ ~(ep.stage = "opening" /\ ep.calls = << >>)
    /\ Close
    /\ \E late \in Abandoned :
          /\ workers' = workers \cup late \cup (IF LeavesWork THEN {Interrupted(ep)} ELSE {})
          /\ spoiled' = (spoiled \/ <<Status("running")>> \in late)
    /\ UNCHANGED <<sessionVars, client>>

\* The process dies; the next one finds the run (init_db).
Restart ==
    /\ Mishap
    /\ Close
    /\ workers' = {}
    /\ status' = IF status = "running" THEN "interrupted" ELSE status
    /\ UNCHANGED <<history, client, spoiled>>

(***************************************************************************)
(* Specification.                                                          *)
(***************************************************************************)
Init ==
    /\ llm = FirstCall /\ loop = NoRun
    /\ seg = "none" /\ outbox = << >>
    /\ status = "completed" /\ history = << >>
    /\ ep = Idle /\ workers = {}
    /\ client = [open |-> "none", ends |-> 0, refused |-> FALSE]
    /\ mishaps = 0 /\ spoiled = FALSE

Request == Call \/ Build \/ Take \/ Send \/ End

\* The user asks no more.
Silence ==
    /\ ep.stage = "over" /\ ep.run = MaxRuns /\ workers = {}
    /\ UNCHANGED vars

Next ==
    \/ Ask \/ Request \/ Agent \/ Heartbeat \/ Silence
    \/ CallRaises \/ Leave \/ Restart
    \/ \E w \in workers : Work(w) \/ WorkFails(w)

Spec == Init /\ [][Next]_vars

(***************************************************************************)
(* Properties.                                                             *)
(***************************************************************************)

\* The client never gets an event it must refuse: messages are opened and closed one at a
\* time over retries, calls, errors and exceptions of the store, and a run has one end.
ProtocolKept == ~client.refused

\* The user's message and one reply alternate: whatever threads read and write the history at
\* the same time, no turn gets two replies (upsert_chat).
OneReplyPerTurn ==
    \A i \in 2 .. Len(history) : history[i - 1].role = "assistant" => history[i].role = "user"

\* An end is sent after it has been saved: the row tells how the run went and holds all of the
\* text that was sent.  Calls left by an abandoned run may have come between.
TerminalIsSaved ==
    [][ client'.ends > client.ends /\ ep.alone
        => /\ status = IF ep.event = "finished" THEN "completed" ELSE "failed"
           /\ ep.said > 0 => /\ Current(history)
                             /\ history[Len(history)].run = ep.run
                             /\ history[Len(history)].said = ep.said ]_vars

\* A run whose call of the model was broken off for good does not end as a finished one, also
\* when part of the answer was sent.
NoHalfRunFinishes == ep.event = "finished" => ~loop.broken

\* No session says running for ever: when the run is over and nothing is under way, the row
\* tells how it went, unless the write of a status failed after the run or an abandoned one
\* came after it.
NeverLeftRunning ==
    ep.stage = "over" /\ workers = {} => status # "running" \/ spoiled
=============================================================================
