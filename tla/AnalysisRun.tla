----------------------------- MODULE AnalysisRun -----------------------------
(***************************************************************************)
(* What the rest of the system may expect of a deep analysis: the row of   *)
(* its session and the life of its thread.  AnalysisQueue is built on it,  *)
(* PipelineRunner implements it.                                           *)
(***************************************************************************)
CONSTANTS
    Analyses,      \* sessions, one analysis each
    StoreMayFail,  \* whether a call of the session store may raise
    StartMayFail   \* whether a thread may fail to start

ASSUME RunAssumption == StoreMayFail \in BOOLEAN /\ StartMayFail \in BOOLEAN

VARIABLES
    status,    \* sessions.status; "absent" before, "deleted" after the row's life
    thread,    \* "none", "live" or "ended"
    reported,  \* whether the report was generated
    excused    \* whether a cancel was asked for or the store has raised

runVars == <<status, thread, reported, excused>>

Final == {"completed", "failed", "interrupted"}

RunInit ==
    /\ status = [a \in Analyses |-> "absent"]
    /\ thread = [a \in Analyses |-> "none"]
    /\ reported = [a \in Analyses |-> FALSE]
    /\ excused = [a \in Analyses |-> FALSE]

\* An UPDATE of a row that is gone changes nothing.
SetStatus(a, new) ==
    status' = IF status[a] = "deleted" THEN status ELSE [status EXCEPT ![a] = new]

\* The session is created and set to running, before its thread is started.
Open(a) ==
    /\ status[a] = "absent"
    /\ status' = [status EXCEPT ![a] = "running"]
    /\ UNCHANGED <<thread, reported, excused>>

\* The threads of some analyses are started, except those of `broken`.
StartAll(chosen, broken) ==
    thread' = [a \in Analyses |-> IF a \notin chosen THEN thread[a]
                                  ELSE IF a \in broken THEN "ended" ELSE "live"]

Start(a) ==
    /\ thread[a] = "none"
    /\ status[a] \in {"running", "deleted"}
    /\ StartAll({a}, {}) \/ (StartMayFail /\ StartAll({a}, {a}))
    /\ UNCHANGED <<status, reported, excused>>

\* The report is saved, once, and not after a failure.
Complete(a) ==
    /\ thread[a] = "live"
    /\ ~reported[a]
    /\ status[a] \in {"running", "deleted"}
    /\ SetStatus(a, "completed")
    /\ reported' = [reported EXCEPT ![a] = TRUE]
    /\ UNCHANGED <<thread, excused>>

\* A failure, also after the report.
Fail(a) ==
    /\ thread[a] = "live"
    /\ SetStatus(a, "failed")
    /\ UNCHANGED <<thread, reported, excused>>

Excuse(a) == excused' = [excused EXCEPT ![a] = TRUE]

\* The store raises.
Suffer(a) ==
    /\ StoreMayFail
    /\ thread[a] = "live"
    /\ Excuse(a)
    /\ UNCHANGED <<status, thread, reported>>

\* A thread does not leave its session running, unless it has an excuse.
End(a) ==
    /\ thread[a] = "live"
    /\ thread' = [thread EXCEPT ![a] = "ended"]
    /\ \/ UNCHANGED excused
       \/ StoreMayFail /\ Excuse(a)
    /\ status[a] = "running" => excused'[a]
    /\ UNCHANGED <<status, reported>>

\* PipelineRunner.cancel, also of a thread that ended before it could say so.
Cancel(a) ==
    /\ thread[a] # "none"
    /\ Excuse(a)
    /\ UNCHANGED <<status, thread, reported>>

\* delete_session asks no thread: the row goes, and the thread goes on.
Delete(a) ==
    /\ status[a] \notin {"absent", "deleted"}
    /\ status' = [status EXCEPT ![a] = "deleted"]
    /\ UNCHANGED <<thread, reported, excused>>

\* The process dies and starts again: a running session is marked interrupted.
RestartRuns ==
    /\ status' = [a \in Analyses |-> IF status[a] = "running" THEN "interrupted" ELSE status[a]]
    /\ thread' = [a \in Analyses |-> IF status[a] = "absent" THEN "none" ELSE "ended"]
    /\ UNCHANGED <<reported, excused>>

ThreadStep(a) == Complete(a) \/ Fail(a) \/ Suffer(a) \/ End(a)

RunNext ==
    \/ \E a \in Analyses : Open(a) \/ Start(a) \/ ThreadStep(a) \/ Cancel(a) \/ Delete(a)
    \/ RestartRuns

RunSpec == RunInit /\ [][RunNext]_runVars

=============================================================================
