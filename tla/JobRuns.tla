------------------------------- MODULE JobRuns -------------------------------
(***************************************************************************)
(* The daily batch jobs and their run history (outcome/ops/jobs.py run_job *)
(* and sweep_stale_running, outcome/scheduler.py _with_retry, outcome/ops/ *)
(* catchup.py, outcome/ops/model.py job_runs), on one day, over restarts   *)
(* of the process.                                                         *)
(*                                                                         *)
(* A job is started by the scheduler at its time of day, by an operator or *)
(* by the catch-up that follows every start of the process; each of them   *)
(* is a thread of its own here, a `caller`.  The history is a table in a   *)
(* database: it survives a crash; locks and the set of active runs do not. *)
(* Cross-midnight runs are left out, and so is the pruning of rows.        *)
(***************************************************************************)
EXTENDS Naturals, FiniteSets

CONSTANTS
    Jobs,              \* the jobs of the allow-list considered
    Snapshot,          \* the market snapshot job, the first of the chain
    FireTime,          \* job -> the time of day the scheduler starts it
    CATCH_UP_WINDOW,   \* how late a job may still be caught up
    CATCH_UP_MAX_JOBS, \* jobs caught up per start
    MAX_ATTEMPTS,      \* attempts of a scheduled run (_MAX_ATTEMPTS)
    HistoryMayFail,    \* whether a write of the history may raise
    ClockMayStepBack,  \* whether a row may be stamped before the process started
    Polling, ManualRuns, \* whether the status is polled, jobs are run by hand
    MaxTime, MaxStarts, MaxRuns  \* bounds

ASSUME JobsAssumption ==
    /\ Snapshot \in Jobs /\ {"manual", "catchup"} \cap Jobs = {}
    /\ FireTime \in [Jobs -> 1 .. MaxTime]
    /\ \A i, j \in Jobs : FireTime[i] = FireTime[j] => i = j
    /\ \A j \in Jobs : FireTime[Snapshot] <= FireTime[j]
    /\ {MAX_ATTEMPTS, MaxStarts} \subseteq Nat \ {0}
    /\ {MaxTime, MaxRuns} \subseteq Nat
    /\ {HistoryMayFail, ClockMayStepBack, Polling, ManualRuns} \subseteq BOOLEAN

Manual == "manual"
CatchUp == "catchup"
Callers == Jobs \cup {Manual, CatchUp}   \* a scheduled caller is named by its job
Sweepers == {"poll", CatchUp}

VARIABLES
    now,        \* time of day
    tradingDay, \* whether the exchange is open today
    up,         \* whether the process runs
    start,      \* how often it has been started (_PROCESS_STARTED_AT)
    rows,       \* job_runs: run_id -> row
    active,     \* _ACTIVE_RUN_IDS
    locks,      \* jobs whose lock is held (_LOCKS)
    callers,    \* where every caller is in run_job
    sweeps,     \* where every sweep of stale rows is
    plan        \* jobs the catch-up has still to run

jobsVars == <<now, tradingDay, up, start, rows, active, locks, callers, sweeps, plan>>
dayVars == <<now, tradingDay, up, start>>

Idle == [pc |-> "idle", job |-> Snapshot, run |-> 0, attempt |-> 0, result |-> "none"]
NoSweep == [pc |-> "idle", ids |-> {}]

JobsInit ==
    /\ now = 0
    /\ tradingDay \in BOOLEAN
    /\ up = TRUE
    /\ start = 1
    /\ rows = << >>
    /\ active = {}
    /\ locks = {}
    /\ callers = [c \in Callers |-> Idle]
    /\ sweeps = [s \in Sweepers |-> NoSweep]
    /\ plan = {}

-----------------------------------------------------------------------------
(* run_job.                                                                *)

Starting(job) == [pc |-> "acquire", job |-> job, run |-> 0, attempt |-> 1, result |-> "none"]

Source(c) == IF c \in Jobs THEN "scheduled" ELSE c

At(c, pc) == callers[c].pc = pc
Move(c, pc) == callers' = [callers EXCEPT ![c].pc = pc]

\* What the caller does with the outcome of run_job: _with_retry starts another
\* attempt after a failure (the back-off is the time until it acts).
AfterRun(c, result) ==
    LET me == callers[c]
    IN  IF c \notin Jobs \/ result = "ok" THEN Idle
        ELSE IF me.attempt < MAX_ATTEMPTS
             THEN [me EXCEPT !.pc = "acquire", !.run = 0, !.attempt = @ + 1, !.result = "none"]
        ELSE [me EXCEPT !.pc = "mark_retries", !.run = IF result = "lost" THEN 0 ELSE @]

\* Mutant of Acquire: the lock is not looked at.
AcquireAnyway(c) ==
    /\ At(c, "acquire")
    /\ Move(c, "insert")
    /\ locks' = locks \cup {callers[c].job}
    /\ UNCHANGED <<dayVars, rows, active, sweeps, plan>>

\* lock.acquire(blocking=False); JobAlreadyRunning ends the caller's attempt.
Acquire(c) ==
    /\ At(c, "acquire")
    /\ IF callers[c].job \in locks
       THEN callers' = [callers EXCEPT ![c] = Idle] /\ UNCHANGED locks
       ELSE Move(c, "insert") /\ locks' = locks \cup {callers[c].job}
    /\ UNCHANGED <<dayVars, rows, active, sweeps, plan>>

Row(c, early) == [job |-> callers[c].job, source |-> Source(c), status |-> "running",
                  start |-> start, early |-> early, skipped |-> FALSE]

\* run_id INTEGER PRIMARY KEY AUTOINCREMENT
NextRunId(r) == /\ \A q \in DOMAIN rows : q < r
                /\ r = 1 \/ r - 1 \in DOMAIN rows

InsertRow(c) ==
    /\ At(c, "insert")
    /\ \E r \in 1 .. MaxRuns, early \in {FALSE, ClockMayStepBack} :
          /\ NextRunId(r)
          /\ rows' = [q \in DOMAIN rows \cup {r} |-> IF q = r THEN Row(c, early) ELSE rows[q]]
          /\ callers' = [callers EXCEPT ![c] = [@ EXCEPT !.pc = "mark", !.run = r]]
    /\ UNCHANGED <<dayVars, active, locks, sweeps, plan>>

\* insert_job_run raises: the finally releases the lock.
InsertFails(c) ==
    /\ HistoryMayFail
    /\ At(c, "insert")
    /\ callers' = [callers EXCEPT ![c] = AfterRun(c, "failed")]
    /\ locks' = locks \ {callers[c].job}
    /\ UNCHANGED <<dayVars, rows, active, sweeps, plan>>

MarkActive(c) ==
    /\ At(c, "mark")
    /\ active' = active \cup {callers[c].run}
    /\ Move(c, "work")
    /\ UNCHANGED <<dayVars, rows, locks, sweeps, plan>>

\* The job's function returns or raises.
Work(c) ==
    /\ At(c, "work")
    /\ \E result \in {"ok", "failed"} :
          callers' = [callers EXCEPT ![c].pc = "record", ![c].result = result]
    /\ UNCHANGED <<dayVars, rows, active, locks, sweeps, plan>>

\* On a day without trading the snapshot succeeds with skipped=non_trading_day.
Skips(c) == callers[c].job = Snapshot /\ callers[c].result = "ok" /\ ~tradingDay

\* finish_job_run: an update by run_id, whatever the row's status is by now.
Record(c) ==
    /\ At(c, "record")
    /\ rows' = [rows EXCEPT ![callers[c].run].status = callers[c].result,
                            ![callers[c].run].skipped = Skips(c)]
    /\ Move(c, "leave")
    /\ UNCHANGED <<dayVars, active, locks, sweeps, plan>>

\* The update raises: after a success run_job raises too, which its caller takes
\* for a failed attempt without a row; after a failure it is only logged.
RecordFails(c) ==
    /\ HistoryMayFail
    /\ At(c, "record")
    /\ callers' = [callers EXCEPT ![c].pc = "leave",
                                  ![c].result = IF @ = "ok" THEN "lost" ELSE @]
    /\ UNCHANGED <<dayVars, rows, active, locks, sweeps, plan>>

\* The finally of run_job; run_catch_up gives up its plan on a skipped snapshot.
Leave(c) ==
    /\ At(c, "leave")
    /\ active' = active \ {callers[c].run}
    /\ locks' = locks \ {callers[c].job}
    /\ callers' = [callers EXCEPT ![c] = AfterRun(c, callers[c].result)]
    /\ plan' = IF c = CatchUp /\ Skips(c) THEN {} ELSE plan
    /\ UNCHANGED <<dayVars, rows, sweeps>>

\* _mark_retries after the last attempt: the row is written once more.
MarkRetries(c) ==
    /\ At(c, "mark_retries")
    /\ \/ callers[c].run # 0 /\ rows' = [rows EXCEPT ![callers[c].run].status = "failed"]
       \/ callers[c].run = 0 /\ UNCHANGED rows
       \/ HistoryMayFail /\ UNCHANGED rows
    /\ callers' = [callers EXCEPT ![c] = Idle]
    /\ UNCHANGED <<dayVars, active, locks, sweeps, plan>>

RunStep(c) == \/ Acquire(c) \/ InsertRow(c) \/ InsertFails(c) \/ MarkActive(c)
              \/ Work(c) \/ Record(c) \/ RecordFails(c) \/ Leave(c) \/ MarkRetries(c)

-----------------------------------------------------------------------------
(* sweep_stale_running: the active runs are read, then the rows, then every *)
(* stale row is written, each in a transaction of its own.                 *)

SweepRead(s) ==
    /\ sweeps[s].pc = "read"
    /\ sweeps' = [sweeps EXCEPT ![s] = [pc |-> "list", ids |-> active]]
    /\ UNCHANGED <<dayVars, rows, active, locks, callers, plan>>

StartedEarlier(row) == row.start < start \/ row.early

\* Mutant of Stale: ownership alone decides.
NotActive(ids) == {r \in DOMAIN rows \ ids : rows[r].status = "running"}

Stale(ids) == {r \in DOMAIN rows \ ids : rows[r].status = "running" /\ StartedEarlier(rows[r])}

SweepList(s) ==
    /\ sweeps[s].pc = "list"
    /\ sweeps' = [sweeps EXCEPT ![s] = [pc |-> "write", ids |-> Stale(sweeps[s].ids)]]
    /\ UNCHANGED <<dayVars, rows, active, locks, callers, plan>>

SweepWrite(s) ==
    /\ sweeps[s].pc = "write"
    /\ \E r \in sweeps[s].ids :
          /\ \A other \in sweeps[s].ids : other <= r
          /\ rows' = [rows EXCEPT ![r].status = "failed"]
          /\ sweeps' = [sweeps EXCEPT ![s].ids = @ \ {r}]
    /\ UNCHANGED <<dayVars, active, locks, callers, plan>>

SweepDone(s) ==
    /\ \/ sweeps[s].pc = "write" /\ sweeps[s].ids = {}
       \/ HistoryMayFail /\ sweeps[s].pc \in {"list", "write"}
    /\ sweeps' = [sweeps EXCEPT ![s] = [pc |-> IF s = CatchUp THEN "plan" ELSE "idle", ids |-> {}]]
    /\ UNCHANGED <<dayVars, rows, active, locks, callers, plan>>

SweepStep(s) == SweepRead(s) \/ SweepList(s) \/ SweepWrite(s) \/ SweepDone(s)

\* The status endpoint sweeps when it is polled.
Poll ==
    /\ Polling
    /\ up
    /\ sweeps["poll"] = NoSweep
    /\ sweeps' = [sweeps EXCEPT !["poll"].pc = "read"]
    /\ UNCHANGED <<dayVars, rows, active, locks, callers, plan>>

-----------------------------------------------------------------------------
(* catch_up_job: sweep, plan, run what is planned, one after the other.    *)

StatusesOf(job) == {rows[r].status : r \in {q \in DOMAIN rows : rows[q].job = job}}

Due(job) ==
    /\ FireTime[job] <= now
    /\ now - FireTime[job] <= CATCH_UP_WINDOW
    /\ StatusesOf(job) \cap {"ok", "running"} = {}

DueJobs == {j \in Jobs : Due(j)}
Earlier(S, j) == {i \in S : FireTime[i] < FireTime[j]}

PlanCatchUp ==
    /\ sweeps[CatchUp].pc = "plan"
    /\ sweeps' = [sweeps EXCEPT ![CatchUp] = NoSweep]
    /\ plan' = {j \in DueJobs : Cardinality(Earlier(DueJobs, j)) < CATCH_UP_MAX_JOBS}
    /\ UNCHANGED <<dayVars, rows, active, locks, callers>>

\* Mutant of NextPlanned: planned jobs are run in any order.
AnyPlanned(j) == j \in plan

\* The plan is sorted by the time of day.
NextPlanned(j) == j \in plan /\ Earlier(plan, j) = {}

RunPlanned(j) ==
    /\ NextPlanned(j)
    /\ callers[CatchUp] = Idle
    /\ callers' = [callers EXCEPT ![CatchUp] = Starting(j)]
    /\ plan' = plan \ {j}
    /\ UNCHANGED <<dayVars, rows, active, locks, sweeps>>

-----------------------------------------------------------------------------
(* The day: the clock, the operator, the process.                          *)

\* A job whose time comes while the process is down is missed (MemoryJobStore).
Tick ==
    /\ now < MaxTime
    /\ now' = now + 1
    /\ callers' = [c \in Callers |->
            IF up /\ c \in Jobs /\ callers[c] = Idle /\ FireTime[c] = now + 1
            THEN Starting(c) ELSE callers[c]]
    /\ UNCHANGED <<tradingDay, up, start, rows, active, locks, sweeps, plan>>

RunByHand(job) ==
    /\ ManualRuns
    /\ up
    /\ callers[Manual] = Idle
    /\ callers' = [callers EXCEPT ![Manual] = Starting(job)]
    /\ UNCHANGED <<dayVars, rows, active, locks, sweeps, plan>>

Crash ==
    /\ up
    /\ start < MaxStarts
    /\ up' = FALSE
    /\ active' = {}
    /\ locks' = {}
    /\ callers' = [c \in Callers |-> Idle]
    /\ sweeps' = [s \in Sweepers |-> NoSweep]
    /\ plan' = {}
    /\ UNCHANGED <<now, tradingDay, start, rows>>

\* Mutant of StartProcess: the catch-up plans without sweeping first.
StartWithoutSweep ==
    /\ ~up
    /\ up' = TRUE
    /\ start' = start + 1
    /\ sweeps' = [sweeps EXCEPT ![CatchUp].pc = "plan"]
    /\ UNCHANGED <<now, tradingDay, rows, active, locks, callers, plan>>

\* start_scheduler registers the jobs and, five seconds later, the catch-up.
StartProcess ==
    /\ ~up
    /\ up' = TRUE
    /\ start' = start + 1
    /\ sweeps' = [sweeps EXCEPT ![CatchUp].pc = "read"]
    /\ UNCHANGED <<now, tradingDay, rows, active, locks, callers, plan>>

JobsNext ==
    \/ \E c \in Callers : RunStep(c)
    \/ \E s \in Sweepers : SweepStep(s)
    \/ Poll
    \/ PlanCatchUp
    \/ \E job \in Jobs : RunPlanned(job) \/ RunByHand(job)
    \/ Tick
    \/ Crash
    \/ StartProcess

JobsSpec == JobsInit /\ [][JobsNext]_jobsVars

\* The catch-up thread runs once it is scheduled; nothing else is promised.
FairSpec == JobsSpec /\ WF_jobsVars(SweepStep(CatchUp))

-----------------------------------------------------------------------------
Stages == {"idle", "acquire", "insert", "mark", "work", "record", "leave", "mark_retries"}

JobRow == [job : Jobs, source : {"scheduled", Manual, CatchUp},
           status : {"running", "ok", "failed"}, start : 1 .. MaxStarts, early : BOOLEAN,
           skipped : BOOLEAN]
Caller == [pc : Stages, job : Jobs, run : 0 .. MaxRuns, attempt : 0 .. MAX_ATTEMPTS,
           result : {"none", "ok", "failed", "lost"}]
Sweep == [pc : {"idle", "read", "list", "write", "plan"}, ids : SUBSET (1 .. MaxRuns)]

JobsTypeOK ==
    /\ now \in 0 .. MaxTime
    /\ tradingDay \in BOOLEAN /\ up \in BOOLEAN
    /\ start \in 1 .. MaxStarts
    /\ DOMAIN rows \subseteq 1 .. MaxRuns
    /\ rows \in [DOMAIN rows -> JobRow]
    /\ active \subseteq DOMAIN rows
    /\ locks \subseteq Jobs
    /\ callers \in [Callers -> Caller]
    /\ sweeps \in [Sweepers -> Sweep]
    /\ plan \subseteq Jobs

InsideStages == {"insert", "mark", "work", "record", "leave"}
Inside(c) == callers[c].pc \in InsideStages
Running(c) == callers[c].pc \in {"mark", "work", "record"}

(***************************************************************************)
(* A job never runs twice at the same time, whoever starts it (openspec    *)
(* eval-ops-console: "同一任务 SHALL NOT 并发执行两个实例").               *)
(***************************************************************************)
SingleFlight ==
    \A c, d \in Callers : Inside(c) /\ Inside(d) /\ callers[c].job = callers[d].job => c = d

(***************************************************************************)
(* A lock is held by a run in progress: no failure of the history leaves a *)
(* job locked for the rest of the process (the comment in run_job).        *)
(***************************************************************************)
LocksHaveHolders == \A j \in locks : \E c \in Callers : Inside(c) /\ callers[c].job = j

(***************************************************************************)
(* Nobody but the run itself ends the row of a run in progress: the sweep  *)
(* takes only what a dead process left behind, although it decides on a    *)
(* set of active runs that may be out of date when it writes.              *)
(***************************************************************************)
LiveRunsStay ==
    [][\A c \in Callers : Running(c) /\ callers'[c].pc = callers[c].pc
          => rows'[callers[c].run].status = "running"]_jobsVars

(***************************************************************************)
(* What one start catches up, it catches up in the order of the day, the   *)
(* snapshot before what reads it, and nothing twice; a snapshot that it    *)
(* finds skipped (no trading day) ends it.                                 *)
(***************************************************************************)
CaughtUp(q, r) == /\ q < r
                  /\ rows[q].source = CatchUp /\ rows[r].source = CatchUp
                  /\ rows[q].start = rows[r].start

CatchUpInOrder ==
    \A q, r \in DOMAIN rows :
        CaughtUp(q, r) => FireTime[rows[q].job] < FireTime[rows[r].job] /\ ~rows[q].skipped

(***************************************************************************)
(* A row that a dead process left "running" is ended by the next process   *)
(* that lives long enough: it does not block the catch-up for ever.        *)
(***************************************************************************)
LeftBehind(r) == r \in DOMAIN rows /\ rows[r].status = "running" /\ rows[r].start < start

StaleRowsEnd == \A r \in 1 .. MaxRuns : (up /\ LeftBehind(r)) ~> (~up \/ ~LeftBehind(r))
=============================================================================
