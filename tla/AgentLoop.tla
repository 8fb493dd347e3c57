----------------------------- MODULE AgentLoop -----------------------------
(***************************************************************************)
(* One run of the quick agent, from the provider's chunks to the events of *)
(* the AG-UI protocol: the streaming call of the gateway with its retries  *)
(* and its one resumption (complete_stream_async), the client that goes    *)
(* down the chain of profiles (LiteLLMClient.chat_stream), the ReAct loop  *)
(* (Agent.run) and the translator (translate_to_agui).                     *)
(*                                                                         *)
(* The four are generators that pull each other: the agent moves only when *)
(* all it has produced, `outbox`, has been taken.                          *)
(*                                                                         *)
(* Texts are counted, not spelled.  Some models write a tool call into     *)
(* their text: a `block`, held back from the user.  The client looks for   *)
(* one form ("ark"), the loop for two others ("dsml" stands for both).     *)
(*                                                                         *)
(* What is sent to the model (the context and its compaction) is left out, *)
(* and so is what only the deep mode uses: streaming tools, force_tool,    *)
(* analysis_completed.                                                     *)
(***************************************************************************)
EXTENDS Naturals, Sequences

CONSTANTS
    MaxIterations,  \* max_iterations (6 in the quick mode)
    MaxRetries,     \* max_retries: attempts of one gateway call (3)
    MaxEmpty,       \* max_empty_retries (3)
    ChainLength,    \* profiles of the fallback chain (at most 3)
    MaxChunks,      \* bound: chunks of text in a run
    MaxCalls,       \* bound: tool calls in one answer of the model
    MaxMishaps      \* bound: things that go wrong in a session

ASSUME AgentAssumption ==
    /\ MaxIterations \in Nat \ {0} /\ MaxRetries \in Nat \ {0}
    /\ MaxEmpty \in Nat /\ ChainLength \in Nat \ {0}
    /\ MaxChunks \in Nat /\ MaxCalls \in Nat \ {0} /\ MaxMishaps \in Nat

VARIABLES
    llm,     \* the call of the model in progress
    loop,    \* the locals of Agent.run
    seg,     \* the message the translator has open
    outbox,  \* AG-UI events produced and not taken yet
    mishaps  \* what has gone wrong: errors of the provider, and what QuickChat adds

agentVars == <<llm, loop, seg, outbox>>

Kinds == {"text", "reasoning"}
StartOf == [text |-> "text_start", reasoning |-> "reasoning_start"]
EndOf == [text |-> "text_end", reasoning |-> "reasoning_end"]
Mishap == mishaps < MaxMishaps /\ mishaps' = mishaps + 1

TerminalEvents == {"finished", "failed"}
Events == Kinds \cup {StartOf[k] : k \in Kinds} \cup {EndOf[k] : k \in Kinds}
            \cup {"started", "call", "result"} \cup TerminalEvents

(***************************************************************************)
(* The translator.                                                         *)
(***************************************************************************)
\* Mutant of Closing: only the text is ended.
ClosingText == IF seg = "text" THEN <<EndOf[seg]>> ELSE << >>

Closing == IF seg = "none" THEN << >> ELSE <<EndOf[seg]>>

\* A delta opens a message of its kind unless one is open.
Say(kind) ==
    /\ outbox' = (IF seg = kind THEN << >> ELSE Closing \o <<StartOf[kind]>>) \o <<kind>>
    /\ seg' = kind

CloseAndSend(events) ==
    /\ outbox' = Closing \o events
    /\ seg' = "none"

Silent == UNCHANGED <<seg, outbox>>

(***************************************************************************)
(* The loop.                                                               *)
(***************************************************************************)
FirstCall == [profile |-> 1, attempt |-> 0, resumed |-> FALSE, text |-> FALSE,
              calls |-> FALSE, forwarded |-> FALSE]

NewRun == [pc |-> "turn", iter |-> 0, empties |-> 0, chunks |-> 0, text |-> FALSE,
           block |-> "none", calls |-> 0, broken |-> FALSE]
NoRun == [NewRun EXCEPT !.pc = "over"]

CallOver == llm' = FirstCall

\* A call of the model starts with an empty assistant_text.
Calling(l, pc, iter) ==
    /\ loop' = [l EXCEPT !.pc = pc, !.iter = iter, !.text = FALSE, !.block = "none"]
    /\ llm' = FirstCall

\* What follows the loop: at the limit of the iterations, one more call without tools.
AfterLoop(l) ==
    IF l.iter >= MaxIterations THEN Calling(l, "final", l.iter) /\ Silent
    ELSE /\ loop' = [l EXCEPT !.pc = "over"]
         /\ CloseAndSend(<<"finished">>)
         /\ CallOver

\* StreamEvent.error: the translator ends there and pulls the agent no more.
Fail(l) ==
    /\ loop' = [l EXCEPT !.pc = "over"]
    /\ CloseAndSend(<<"failed">>)
    /\ CallOver

Turn ==
    /\ loop.pc = "turn"
    /\ IF loop.iter < MaxIterations THEN Calling(loop, "stream", loop.iter + 1) /\ Silent
       ELSE AfterLoop(loop)

\* A tool's failure is a result like any other; the events of the permission have no row in
\* the translator's table.
RunTool ==
    /\ loop.pc = "tools"
    /\ outbox' = <<"result">>
    /\ loop' = [loop EXCEPT !.calls = @ - 1, !.pc = IF loop.calls = 1 THEN "turn" ELSE "tools"]
    /\ UNCHANGED <<llm, seg>>

(***************************************************************************)
(* The streaming call.                                                     *)
(***************************************************************************)
Streaming == loop.pc \in {"stream", "final"} /\ loop.block # "given"

\* Bound: one delta of reasoning in a call, before anything else.
Reason ==
    /\ Streaming /\ ~llm.forwarded
    /\ UNCHANGED loop
    /\ llm' = [llm EXCEPT !.forwarded = TRUE]
    /\ IF loop.pc = "stream" THEN Say("reasoning") ELSE Silent

\* `opens` is the block the text begins, if any.  After the limit of the iterations the loop
\* looks for no block of its own.
Write(opens) ==
    LET block == IF loop.block # "none" THEN loop.block
                 ELSE IF opens = "dsml" /\ loop.pc = "final" THEN "none"
                 ELSE opens
    IN /\ Streaming /\ loop.chunks < MaxChunks
       /\ llm' = [llm EXCEPT !.forwarded = TRUE, !.text = TRUE]
       /\ loop' = [loop EXCEPT !.chunks = @ + 1, !.block = block,
                               !.text = @ \/ block # "ark"]
       /\ IF block = "none" THEN Say("text") ELSE Silent

\* Part of a structured tool call; the resumption does not collect any.
CollectCall ==
    /\ Streaming /\ loop.pc = "stream" /\ ~llm.resumed /\ ~llm.calls
    /\ llm' = [llm EXCEPT !.calls = TRUE]
    /\ UNCHANGED <<loop, seg, outbox>>

\* A new attempt starts over, whatever the last one has already sent.
NextAttempt == [FirstCall EXCEPT !.profile = llm.profile, !.attempt = llm.attempt + 1,
                                 !.forwarded = llm.forwarded]

NextProfile == [FirstCall EXCEPT !.profile = llm.profile + 1]

\* The error leaves chat_stream: the loop turns it into an event, and so does the last call.
Raise == Fail([loop EXCEPT !.broken = TRUE])

\* An error of the call: retryable ones are tried again by the gateway, those of
\* FALLBACK_TRIGGER_ERRORS by the client with the next profile unless an event has passed.
CallFails(error) ==
    CASE error = "retryable" /\ llm.attempt + 1 < MaxRetries ->
            llm' = NextAttempt /\ UNCHANGED loop /\ Silent
      [] error = "trigger" /\ ~llm.forwarded /\ llm.profile < ChainLength ->
            llm' = NextProfile /\ UNCHANGED loop /\ Silent
      [] OTHER -> Raise

Break == Streaming /\ \E error \in {"retryable", "trigger", "other"} : CallFails(error)

\* finish_reason "length": one resumption, if there is text to go on from.
Truncate ==
    /\ Streaming
    /\ IF llm.text /\ ~llm.resumed
       THEN llm' = [llm EXCEPT !.resumed = TRUE] /\ UNCHANGED loop /\ Silent
       ELSE CallFails("retryable")

\* The model has called n tools; `rest` is what the loop had held back of the text.
Announce(n, rest) ==
    /\ loop' = [loop EXCEPT !.pc = "tools", !.calls = n, !.text = FALSE, !.block = "none"]
    /\ outbox' = (IF rest /\ seg # "text" THEN Closing \o <<StartOf["text"], "text", EndOf["text"]>>
                  ELSE IF rest THEN <<"text", EndOf["text"]>>
                  ELSE Closing)
                 \o [i \in 1 .. n |-> "call"]
    /\ seg' = "none"
    /\ CallOver

\* Nothing came: another try that does not count as an iteration.
NoAnswer ==
    IF loop.empties < MaxEmpty
    THEN /\ loop' = [loop EXCEPT !.empties = @ + 1, !.iter = @ - 1, !.pc = "turn"]
         /\ CallOver /\ Silent
    ELSE Fail(loop)

\* A block that is no call after all: the client gives its text back, the loop does not.
GiveBack ==
    /\ loop' = [loop EXCEPT !.block = "given", !.text = TRUE]
    /\ Say("text")
    /\ UNCHANGED llm

EndStream ==
    /\ loop.pc = "stream"
    /\ \/ llm.calls /\ \E n \in 1 .. MaxCalls : Announce(n, FALSE)
       \/ /\ ~llm.calls /\ loop.block \in {"ark", "dsml"}
          /\ \E n \in 1 .. MaxCalls, rest \in BOOLEAN :
                Announce(n, rest /\ loop.block = "dsml")
       \/ ~llm.calls /\ loop.block = "ark" /\ GiveBack
       \/ ~llm.calls /\ loop.block # "ark" /\ loop.text /\ AfterLoop(loop)
       \/ ~llm.calls /\ loop.block = "none" /\ ~loop.text /\ NoAnswer

\* The end of the last call.
EndFinal ==
    /\ loop.pc = "final"
    /\ \/ loop.block = "ark" /\ GiveBack
       \/ /\ IF loop.text
             THEN /\ loop' = [loop EXCEPT !.pc = "over"]
                  /\ CloseAndSend(<<"finished">>)
                  /\ CallOver
             ELSE Fail(loop)

AgentStep ==
    /\ outbox = << >>
    /\ \/ Mishap /\ (Break \/ Truncate)
       \/ /\ UNCHANGED mishaps
          /\ \/ Turn \/ RunTool \/ Reason \/ CollectCall
             \/ \E opens \in {"none", "ark", "dsml"} : Write(opens)
             \/ EndStream \/ EndFinal
=============================================================================
