--------------------------- MODULE OperatedCohort ---------------------------
(***************************************************************************)
(* The cohort batch and the people who start it: the scheduler, and a user *)
(* of the quick chat who has run_ops_job("cohort_batch") confirmed         *)
(* (operator/writes.py).  A confirmed call becomes a background task of    *)
(* its own, which the tool does not wait for.  The properties are those of *)
(* the two parts.                                                          *)
(***************************************************************************)
EXTENDS Confirmations, CohortBatch

CONSTANTS
    RunCohort,  \* the write that runs the batch
    MaxMoves    \* bound: messages, previews, edits, ticks, days and restarts together

ASSUME OperatedAssumption == RunCohort \in Writes /\ MaxMoves \in Nat

VARIABLES
    tasks,  \* background tasks that have not called run_job yet
    moves

vars == <<confirmVars, cohortVars, tasks, moves>>

Init ==
    /\ ConfirmInit
    /\ CohortInit
    /\ tasks = 0
    /\ moves = 0

Move == moves < MaxMoves /\ moves' = moves + 1

\* What the user and the model do before anything is let through.
Converse ==
    /\ Move
    /\ Tick \/ \E s \in Sessions : Say(s) \/ \E w \in Writes : Preview(s, w)
    /\ UNCHANGED <<cohortVars, tasks>>

\* A tool is called with confirm = true; run_ops_job creates its task.
Confirm(s, w) ==
    /\ \E token \in Shown :
          \/ Grant(s, w, token) /\ tasks' = tasks + (IF w = RunCohort THEN 1 ELSE 0)
          \/ Refuse(s, w, token) /\ UNCHANGED tasks
    /\ UNCHANGED <<cohortVars, moves>>

\* The task calls run_job, which takes the lock or raises JobAlreadyRunning or CohortDisabled.
RunTask ==
    /\ tasks > 0
    /\ tasks' = tasks - 1
    /\ \/ Start
       \/ (batch.stage # "idle" \/ ~settings.on) /\ UNCHANGED cohortVars
    /\ UNCHANGED <<confirmVars, moves>>

\* The scheduler's job, at its time or again after a failure.
RunScheduled == Start /\ UNCHANGED <<confirmVars, tasks, moves>>

RunBatch == BatchStep /\ UNCHANGED <<confirmVars, tasks, moves>>

ChangeSettings ==
    \/ /\ Move
       /\ \E e \in Editors, on \in BOOLEAN, time \in Times : Edit(e, on, time)
       /\ UNCHANGED <<confirmVars, day, rows, batch, tasks>>
    \/ /\ \E e \in Editors : EditStep(e)
       /\ UNCHANGED <<confirmVars, day, rows, batch, tasks, moves>>

PassDay == Move /\ NextDay /\ UNCHANGED <<confirmVars, tasks>>

Die == Move /\ Restart /\ Forget /\ tasks' = 0

Next ==
    \/ Converse
    \/ \E s \in Sessions, w \in Writes : Confirm(s, w)
    \/ RunTask
    \/ RunScheduled
    \/ RunBatch
    \/ ChangeSettings
    \/ PassDay
    \/ Die

Spec == Init /\ [][Next]_vars

=============================================================================
