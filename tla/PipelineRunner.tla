--------------------------- MODULE PipelineRunner ---------------------------
(***************************************************************************)
(* The background thread of a deep analysis (pipeline_runner.py) and the   *)
(* generator it consumes (_run_graph_streaming of api.py).  The generator  *)
(* runs in the same thread: it writes the report and the session's status  *)
(* itself, before the runner sees the event that tells of it.              *)
(*                                                                         *)
(* A stage names what the thread does next.  Between two stages it calls   *)
(* the session store at most once, or hands rows to the event loop and     *)
(* waits for them.  The journal is the set of the events that matter.      *)
(***************************************************************************)

CONSTANTS
    Analyses,      \* sessions, one analysis each
    StoreMayFail,  \* whether a call of the session store may raise
    StartMayFail   \* whether a thread may fail to start

ASSUME RunnerAssumption == StoreMayFail \in BOOLEAN /\ StartMayFail \in BOOLEAN

VARIABLES
    status,   \* sessions.status; "absent" before, "deleted" after the row's life
    journal,  \* the report and the terminal events that were written
    run       \* the _RunState of the session and the locals of its thread

vars == <<status, journal, run>>

Final == {"completed", "failed", "interrupted"}

NoRun == [stage |-> "none", event |-> "none", pending |-> FALSE, terminal |-> FALSE,
          cancel |-> FALSE, reported |-> FALSE, fault |-> FALSE]

\* state.done is set when the thread is "over"; it never is when the thread is "dead".
\* A thread is "lost" with its process.
Life(r) == IF r.stage = "none" THEN "none"
           ELSE IF r.stage \in {"over", "dead", "lost"} THEN "ended" ELSE "live"
Live(a) == Life(run[a]) = "live"
IsRunning(a) == run[a].stage \notin {"none", "over", "lost"}

Init ==
    /\ status = [a \in Analyses |-> "absent"]
    /\ journal = [a \in Analyses |-> {}]
    /\ run = [a \in Analyses |-> NoRun]

-----------------------------------------------------------------------------
(* Helpers: the thread, the session row and the journal.                  *)

Goto(a, changed) == run' = [run EXCEPT ![a] = changed]

\* An UPDATE of a row that is gone changes nothing.
SetStatus(a, new) ==
    status' = IF status[a] = "deleted" THEN status ELSE [status EXCEPT ![a] = new]

Terminal == {"error", "interrupted", "done"}
Kept == Terminal \cup {"report_ready"}

\* An event is written.  The stream of a client, if there is one, refuses a second
\* terminal event.
Publish(a, kind) ==
    \/ /\ kind \in Kept
       /\ journal' = [journal EXCEPT ![a] = @ \cup {kind}]
    \/ /\ kind \notin Kept \/ (kind \in Terminal /\ journal[a] \cap Terminal # {})
       /\ UNCHANGED journal

\* The locals of the thread end with it.
Gone(a, stage) == [run[a] EXCEPT !.stage = stage, !.event = "none",
                                 !.pending = FALSE, !.terminal = FALSE]

\* An exception of the store on the way to `stage`; a flush that raises has emptied
\* the buffer before.
Raise(a, stage, pending) ==
    /\ StoreMayFail
    /\ Goto(a, [run[a] EXCEPT !.stage = stage, !.event = "none", !.pending = pending,
                              !.fault = TRUE])

-----------------------------------------------------------------------------
(* The start, from the queue.                                              *)

\* The session is created and set to running.
Open(a) ==
    /\ status[a] = "absent"
    /\ status' = [status EXCEPT ![a] = "running"]
    /\ UNCHANGED <<journal, run>>

\* PipelineRunner.start registers the run before it starts the thread.
Start(a) ==
    /\ run[a].stage = "none"
    /\ status[a] \in {"running", "deleted"}
    /\ \/ Goto(a, [NoRun EXCEPT !.stage = "generating"])
       \/ StartMayFail /\ Goto(a, [NoRun EXCEPT !.stage = "dead"])
    /\ UNCHANGED <<status, journal>>

-----------------------------------------------------------------------------
(* The generator.                                                          *)

Working(a) == run[a].stage = "generating" /\ run[a].event # "error"

Yield(a, kind) == [run[a] EXCEPT !.stage = "received", !.event = kind]

\* A thought or the end of a node, before or after the report.
Progress(a) ==
    /\ Working(a)
    /\ \E kind \in {"thinking", "node"} : Goto(a, Yield(a, kind))
    /\ UNCHANGED <<status, journal>>

\* update_session_report completes the session before report_ready is yielded.
Report(a) ==
    /\ Working(a)
    /\ ~run[a].reported
    /\ SetStatus(a, "completed")
    /\ Goto(a, [Yield(a, "report_ready") EXCEPT !.reported = TRUE])
    /\ UNCHANGED journal

\* Mutant of Break: a graph that ends without a report leaves the session as it is.
BreakSilently(a) ==
    /\ Working(a)
    /\ Goto(a, Yield(a, "error"))
    /\ UNCHANGED <<status, journal>>

\* An exception, or a graph that ends without a report: the session fails, an error
\* event is the last one.  An exception may come after the report as well.
Break(a) ==
    /\ Working(a)
    /\ SetStatus(a, "failed")
    /\ Goto(a, Yield(a, "error"))
    /\ UNCHANGED journal

\* The generator's own handler cannot write either: the runner gets the exception.
BreakOut(a) ==
    /\ Working(a)
    /\ Raise(a, "handling", run[a].pending)
    /\ UNCHANGED <<status, journal>>

\* Mutant of Exhaust: a graph that has failed is run again.
RunAgain(a) ==
    /\ run[a].stage = "generating"
    /\ run[a].reported \/ run[a].event = "error"
    /\ Goto(a, [run[a] EXCEPT !.stage = IF run[a].event = "error" THEN @ ELSE "closing",
                              !.event = "none"])
    /\ UNCHANGED <<status, journal>>

\* StopIteration: after an error, or after the report.
Exhaust(a) ==
    /\ run[a].stage = "generating"
    /\ run[a].reported \/ run[a].event = "error"
    /\ Goto(a, [run[a] EXCEPT !.stage = "closing", !.event = "none"])
    /\ UNCHANGED <<status, journal>>

-----------------------------------------------------------------------------
(* The runner's loop over the events.                                      *)

Ending(a, stage) == [run[a] EXCEPT !.stage = stage, !.event = "none"]

\* The cancel flag is looked at before every event; the event is dropped.
SeeCancel(a) ==
    /\ run[a].stage = "received"
    /\ run[a].cancel
    /\ Goto(a, Ending(a, "interrupting"))
    /\ UNCHANGED <<status, journal>>

\* So is the clock; whether the report is saved is not.
TimeOut(a) ==
    /\ run[a].stage = "received"
    /\ ~run[a].cancel
    /\ \/ SetStatus(a, "failed") /\ Goto(a, Ending(a, "expiring"))
       \/ Raise(a, "handling", run[a].pending) /\ UNCHANGED status
    /\ UNCHANGED journal

\* Mutant of Dispatch: an event that meets collected thoughts only writes these.
DispatchOrFlush(a) ==
    /\ run[a].stage = "received"
    /\ ~run[a].cancel
    /\ LET kind == run[a].event
           next == [run[a] EXCEPT !.stage = "generating",
                                  !.event = IF kind = "error" THEN "error" ELSE "none"]
       IN  IF kind = "thinking" THEN Goto(a, [next EXCEPT !.pending = TRUE]) /\ UNCHANGED journal
           ELSE /\ Goto(a, [next EXCEPT !.pending = FALSE])
                /\ IF run[a].pending THEN UNCHANGED journal ELSE Publish(a, kind)
    /\ UNCHANGED status

\* Thoughts are collected; any other event is written behind those collected.  The
\* report goes through _publish_terminal, which only logs its failure.
Dispatch(a) ==
    /\ run[a].stage = "received"
    /\ ~run[a].cancel
    /\ LET kind == run[a].event
           next == [run[a] EXCEPT !.stage = "generating",
                                  !.event = IF kind = "error" THEN "error" ELSE "none"]
       IN  \/ kind = "thinking" /\ Goto(a, [next EXCEPT !.pending = TRUE]) /\ UNCHANGED journal
           \/ Goto(a, [next EXCEPT !.pending = FALSE]) /\ Publish(a, kind)
           \/ /\ StoreMayFail /\ kind = "report_ready"
              /\ Goto(a, [next EXCEPT !.pending = FALSE, !.fault = TRUE])
              /\ UNCHANGED journal
           \* flush, publish, or the snapshot behind them raises
           \/ Raise(a, "handling", FALSE) /\ (UNCHANGED journal \/ Publish(a, kind))
           \* the timeline of a thought raises
           \/ kind = "thinking" /\ Raise(a, "handling", TRUE) /\ UNCHANGED journal
    /\ UNCHANGED status

\* except Exception: the status first, then the error event.
Handle(a) ==
    /\ run[a].stage = "handling"
    /\ \/ /\ SetStatus(a, "failed")
          /\ Goto(a, [run[a] EXCEPT !.stage = "handled"])
       \/ Raise(a, "closing", run[a].pending) /\ UNCHANGED status
    /\ UNCHANGED journal

\* _flush_pending and _publish_terminal before the loop or the handler is left.  An
\* exception of the flush goes from the loop to the handler, from there to the finally.
End(a) ==
    /\ run[a].stage \in {"interrupting", "expiring", "handled"}
    /\ LET kind == IF run[a].stage = "interrupting" THEN "interrupted" ELSE "error"
           left == [run[a] EXCEPT !.stage = "closing", !.pending = FALSE, !.terminal = TRUE]
       IN  \/ Goto(a, left) /\ Publish(a, kind)
           \/ StoreMayFail /\ Goto(a, [left EXCEPT !.fault = TRUE]) /\ UNCHANGED journal
           \/ /\ run[a].pending
              /\ Raise(a, IF run[a].stage = "handled" THEN "closing" ELSE "handling", FALSE)
              /\ UNCHANGED journal
    /\ UNCHANGED status

\* Mutant of Close: done is only published for a run that nobody cancelled.
CloseSilently(a) ==
    /\ run[a].stage = "closing"
    /\ Goto(a, [run[a] EXCEPT !.stage = "closed", !.pending = FALSE])
    /\ IF run[a].terminal \/ run[a].cancel THEN UNCHANGED journal ELSE Publish(a, "done")
    /\ UNCHANGED status

\* finally: `done`, unless the runner has published a terminal event.  One that the
\* generator yielded does not count; only the stream of a client, if there is one,
\* refuses the second.  The flush is not guarded: if it raises, the thread ends and
\* state.done is never set.
Close(a) ==
    /\ run[a].stage = "closing"
    /\ LET after == [run[a] EXCEPT !.stage = "closed", !.pending = FALSE]
       IN  \/ run[a].terminal /\ Goto(a, after) /\ UNCHANGED journal
           \/ /\ ~run[a].terminal
              /\ Goto(a, after)
              /\ Publish(a, "done")
           \/ /\ ~run[a].terminal /\ StoreMayFail
              /\ Goto(a, [after EXCEPT !.fault = TRUE])
              /\ UNCHANGED journal
           \/ /\ ~run[a].terminal /\ run[a].pending
              /\ StoreMayFail
              /\ Goto(a, [Gone(a, "dead") EXCEPT !.fault = TRUE])
              /\ UNCHANGED journal
    /\ UNCHANGED status

\* state.done = True, the last thing the thread does.
SetDone(a) ==
    /\ run[a].stage = "closed"
    /\ Goto(a, Gone(a, "over"))
    /\ UNCHANGED <<status, journal>>

ThreadStep(a) ==
    \/ Progress(a) \/ Report(a) \/ Break(a) \/ BreakOut(a) \/ Exhaust(a)
    \/ SeeCancel(a) \/ TimeOut(a) \/ Dispatch(a)
    \/ Handle(a) \/ End(a) \/ Close(a) \/ SetDone(a)

-----------------------------------------------------------------------------
(* Calls from the event loop.                                              *)

\* PipelineRunner.cancel: refused when state.done is set or there is no run.
CancelRun(a) ==
    /\ IsRunning(a)
    /\ Goto(a, [run[a] EXCEPT !.cancel = TRUE])
    /\ UNCHANGED <<status, journal>>

\* delete_session asks no thread: rows go, and the thread goes on.
Delete(a) ==
    /\ status[a] \notin {"absent", "deleted"}
    /\ status' = [status EXCEPT ![a] = "deleted"]
    /\ journal' = [journal EXCEPT ![a] = {}]
    /\ UNCHANGED run

\* The process dies and starts again: init_db marks what was running as
\* interrupted, so that mark_swept_failed finds nothing.  Nothing resumes a thread.
Restart ==
    /\ status' = [a \in Analyses |-> IF status[a] = "running" THEN "interrupted" ELSE status[a]]
    /\ run' = [a \in Analyses |-> IF status[a] = "absent" THEN NoRun ELSE Gone(a, "lost")]
    /\ UNCHANGED journal

-----------------------------------------------------------------------------
Next ==
    \/ \E a \in Analyses : Open(a) \/ Start(a) \/ ThreadStep(a) \/ CancelRun(a) \/ Delete(a)
    \/ Restart

\* Threads run, and a graph ends after a bounded number of events (its recursion
\* limit).  Users need not do anything.
GraphEnds(a) == Break(a) \/ Exhaust(a)

Fairness == \A a \in Analyses : WF_vars(ThreadStep(a)) /\ SF_vars(GraphEnds(a))

Spec == Init /\ [][Next]_vars /\ Fairness

-----------------------------------------------------------------------------
Runs == [stage : {"none", "generating", "received", "interrupting", "expiring", "handling",
                  "handled", "closing", "closed", "over", "dead", "lost"},
         event : {"none", "thinking", "node", "report_ready", "error"},
         pending : BOOLEAN, terminal : BOOLEAN, cancel : BOOLEAN,
         reported : BOOLEAN, fault : BOOLEAN]

RunnerTypeOK ==
    /\ status \in [Analyses -> Final \cup {"absent", "running", "deleted"}]
    /\ journal \in [Analyses -> SUBSET Kept]
    /\ run \in [Analyses -> Runs]
    /\ \A a \in Analyses : Live(a) => status[a] # "absent"

Explained(a) == run[a].cancel \/ run[a].fault \/ status[a] = "deleted"

(***************************************************************************)
(* When the runner has finished, the journal that clients replay has a     *)
(* terminal event (the order invariant in the finally of _run), unless the *)
(* store has raised or the session was deleted; and it tells the same      *)
(* story as the row that the list of sessions shows, whatever thoughts     *)
(* were collected and whenever the time ran out.                           *)
(***************************************************************************)
JournalTellsOutcome ==
    \A a \in Analyses : run[a].stage = "over" =>
        /\ journal[a] \cap Terminal # {} \/ run[a].fault \/ status[a] = "deleted"
        /\ ~Explained(a) => /\ "error" \in journal[a] <=> status[a] = "failed"
                            /\ status[a] = "completed" => "report_ready" \in journal[a]
                            /\ "interrupted" \notin journal[a]

(***************************************************************************)
(* A thread that was started comes to its end, whatever raises.            *)
(***************************************************************************)
ThreadsEnd == \A a \in Analyses : Live(a) ~> ~Live(a)

(***************************************************************************)
(* The threads give the queue what AnalysisRun promises: in particular     *)
(* none leaves its session running, which would keep a place for ever,     *)
(* unless it was cancelled or the store has raised.                        *)
(***************************************************************************)
A == INSTANCE AnalysisRun WITH
        thread <- [a \in Analyses |-> Life(run[a])],
        reported <- [a \in Analyses |-> run[a].reported],
        excused <- [a \in Analyses |-> run[a].cancel \/ run[a].fault]

Implements == A!RunSpec

-----------------------------------------------------------------------------
(* What the documentation says and the code does not do.                   *)

(***************************************************************************)
(* When the budget runs out after the report has been generated, the run   *)
(* "must not be judged as timed out" (openspec pipeline-events).           *)
(***************************************************************************)
ReportsAreNotTimedOut == [][\A a \in Analyses : TimeOut(a) => ~run[a].reported]_vars

(***************************************************************************)
(* A run that has ended does not leave its session running: an explicit    *)
(* cancel ends in "interrupted" (openspec session-streaming, Graceful      *)
(* Interruption Persistence).  The queue waits for such a status.          *)
(***************************************************************************)
CancelledRunsEnd ==
    \A a \in Analyses : run[a].stage = "over" => status[a] # "running"
=============================================================================
