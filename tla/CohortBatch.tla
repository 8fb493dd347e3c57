---------------------------- MODULE CohortBatch ----------------------------
(***************************************************************************)
(* The daily batch of the paper-trading cohort (outcome/cohort/runner.py,  *)
(* outcome/cohort/model.py): a deep analysis of every stock of a fixed     *)
(* list, one after the other, within budgets; and the settings that switch *)
(* it on and place it in the day (outcome/ops/model.py, ops_api.py         *)
(* /cohort, outcome/scheduler.py reschedule_cohort).                       *)
(*                                                                         *)
(* Stocks are numbered as the list has them.  Costs are tokens in units;   *)
(* Unknown stands for NULL, a usage the provider did not report.  run_seq  *)
(* is the place of a row among the rows of its stock and day.              *)
(***************************************************************************)
EXTENDS Naturals, Sequences, FiniteSets, FiniteSetsExt

CONSTANTS
    NStocks,           \* constituents of the universe
    Costs,             \* tokens an analysis may take
    DEFAULT_ESTIMATE,  \* _DEFAULT_ESTIMATED_RUN_TOKENS
    RunBudget,         \* COHORT_MAX_TOKENS_PER_RUN
    DailyBudget,       \* COHORT_DAILY_TOKEN_BUDGET
    UNKNOWN_LIMIT,     \* _UNKNOWN_USAGE_LIMIT
    Times,             \* times of day (an hour and a minute) for the batch
    Editors,           \* requests that change the settings
    StoreMayFail,      \* whether a call of the store may raise
    LastDay, MaxBatches  \* bounds

ASSUME CohortAssumption ==
    /\ {NStocks, DEFAULT_ESTIMATE, RunBudget, DailyBudget, UNKNOWN_LIMIT} \subseteq Nat \ {0}
    /\ Costs \subseteq Nat \ {0}
    /\ {LastDay, MaxBatches} \subseteq Nat
    /\ StoreMayFail \in BOOLEAN

VARIABLES
    day,        \* the trading day
    settings,   \* ops_config: the switch and the time
    editing,    \* where every request that changes them is
    disturbed,  \* whether one of them failed, or two overlapped, since the start
    trigger,    \* the time of the registered cron trigger
    nextFire,   \* the time of the next run (next_run_time)
    rows,       \* cohort_runs, in the order of insertion
    batch       \* the batch in progress; the lock of the job allows one

settingsVars == <<settings, editing, disturbed, trigger, nextFire>>
cohortVars == <<day, settingsVars, rows, batch>>

Stocks == 1 .. NStocks
Unknown == 0

NotEditing == [stage |-> "idle", on |-> FALSE, time |-> 0]
NoBatch(no) == [stage |-> "idle", no |-> no, day |-> 0, next |-> 1, done |-> {}, today |-> 0,
                estimate |-> 0, spent |-> 0, unknown |-> 0, stop |-> "none", gap |-> FALSE]

CohortInit ==
    /\ day = 1
    /\ settings \in [on : BOOLEAN, time : Times]
    /\ editing = [e \in Editors |-> NotEditing]
    /\ disturbed = FALSE
    /\ trigger = settings.time
    /\ nextFire = settings.time
    /\ rows = << >>
    /\ batch = NoBatch(0)

-----------------------------------------------------------------------------
(* The settings: _apply_cohort_update, a worker thread per request.        *)

Busy(e) == editing[e].stage # "idle"

\* set_config for the keys that the request names, one after the other.  One step: what
\* lies between is seen only by a request that overlaps, or by the next process, which
\* takes whatever is stored.
Edit(e, on, time) ==
    /\ ~Busy(e)
    /\ settings' = [on |-> on, time |-> time]
    /\ editing' = [editing EXCEPT ![e] = [stage |-> "written", on |-> on, time |-> time]]
    /\ disturbed' = (disturbed \/ \E other \in Editors : Busy(other))
    /\ UNCHANGED <<trigger, nextFire>>

\* get_cohort_settings: what is stored by now.
ReadBack(e) ==
    /\ editing[e].stage = "written"
    /\ editing' = [editing EXCEPT ![e] = [stage |-> "read", on |-> settings.on,
                                          time |-> settings.time]]
    /\ UNCHANGED <<settings, disturbed, trigger, nextFire>>

\* Mutant of Reschedule: the time that the request asked for is not registered.
RescheduleNothing(e) ==
    /\ editing[e].stage = "read"
    /\ editing' = [editing EXCEPT ![e] = NotEditing]
    /\ UNCHANGED <<settings, disturbed, trigger, nextFire>>

\* reschedule_cohort: modify_job replaces the trigger; the run it has already
\* computed stays where it is.
Reschedule(e) ==
    /\ editing[e].stage = "read"
    /\ trigger' = editing[e].time
    /\ editing' = [editing EXCEPT ![e] = NotEditing]
    /\ UNCHANGED <<settings, disturbed, nextFire>>

\* A write or the reading raises, or the scheduler refuses: what is stored stays.
EditFails(e) ==
    /\ StoreMayFail
    /\ Busy(e)
    /\ editing' = [editing EXCEPT ![e] = NotEditing]
    /\ disturbed' = TRUE
    /\ UNCHANGED <<settings, trigger, nextFire>>

EditStep(e) == ReadBack(e) \/ Reschedule(e) \/ EditFails(e)

-----------------------------------------------------------------------------
(* What a batch reads before it starts.                                    *)

RowsOf(d) == {i \in DOMAIN rows : rows[i].day = d}

Spent(S) == MapThenSumSet(LAMBDA i : rows[i].tokens, S)

\* _successful_tickers
Successful(d) == {rows[i].stock : i \in {j \in RowsOf(d) : rows[j].status = "success"}}

\* Mutant of QuotaHit: only the last row of the day is looked at.
QuotaHitLast(d) == \E i \in RowsOf(d) : rows[i].reason = "quota" /\ rows[i].status = "failure"
                                         /\ \A j \in RowsOf(d) : j <= i

\* _has_quota_failure_today
QuotaHit(d) == \E i \in RowsOf(d) : rows[i].reason = "quota" /\ rows[i].status = "failure"

\* int(round(0.75 * (n - 1))): Python rounds a half to the even neighbour.
Rank(n) ==
    LET k == 3 * (n - 1)
        q == k \div 4
    IN  IF k % 4 > 2 \/ (k % 4 = 2 /\ q % 2 = 1) THEN q + 1 ELSE q

\* _estimate_run_tokens: the upper quartile of what successful analyses have cost.
Estimate ==
    LET samples == {i \in DOMAIN rows : rows[i].status = "success" /\ rows[i].tokens # Unknown}
        upTo(c) == Cardinality({i \in samples : rows[i].tokens <= c})
    IN  IF samples = {} THEN DEFAULT_ESTIMATE
        ELSE CHOOSE c \in {rows[i].tokens : i \in samples} :
                /\ Rank(Cardinality(samples)) < upTo(c)
                /\ \A lower \in {rows[i].tokens : i \in samples} :
                      lower < c => upTo(lower) <= Rank(Cardinality(samples))

\* _preflight_skip_reason
Preflight(d) ==
    IF QuotaHit(d) THEN "quota"
    ELSE IF Spent(RowsOf(d)) + Estimate > DailyBudget THEN "budget_daily" ELSE "none"

-----------------------------------------------------------------------------
(* The batch.                                                              *)

\* run_job: the lock is free and the switch is on; else the call ends here.
Start ==
    /\ batch.stage = "idle"
    /\ batch.no < MaxBatches
    /\ settings.on
    /\ batch' = [NoBatch(batch.no + 1) EXCEPT !.stage = "called"]
    /\ UNCHANGED <<day, settingsVars, rows>>

\* run_cohort_batch reads the switch once more, then what the day has seen so far.
Begin ==
    /\ batch.stage = "called"
    /\ settings.on
    /\ batch' = [batch EXCEPT !.stage = "loop", !.day = day, !.done = Successful(day),
                              !.today = Spent(RowsOf(day)), !.estimate = Estimate,
                              !.stop = Preflight(day)]
    /\ UNCHANGED <<day, settingsVars, rows>>

\* Switched off in between, or the universe or the table could not be read.
GiveUp ==
    /\ batch.stage = "called"
    /\ ~settings.on \/ StoreMayFail
    /\ batch' = NoBatch(batch.no)
    /\ UNCHANGED <<day, settingsVars, rows>>

Turn(stock) == batch.stage = "loop" /\ batch.next = stock

\* Mutant of SkipDone: a stock that has a row of any kind is left out.
SkipAnyRow(stock) ==
    /\ Turn(stock)
    /\ \E i \in RowsOf(batch.day) : rows[i].stock = stock
    /\ batch' = [batch EXCEPT !.next = @ + 1]
    /\ UNCHANGED <<day, settingsVars, rows>>

\* A stock that has succeeded on this day is passed over without a row.
SkipDone(stock) ==
    /\ Turn(stock)
    /\ stock \in batch.done
    /\ batch' = [batch EXCEPT !.next = @ + 1]
    /\ UNCHANGED <<day, settingsVars, rows>>

\* Mutant of Stop: what this batch has spent itself is left out.
StopByTable == IF batch.stop = "none" /\ batch.today + batch.estimate > DailyBudget
               THEN "budget_daily" ELSE batch.stop

\* Why the batch has stopped, the day's budget included, looked at before every stock.
Stop == IF batch.stop = "none" /\ batch.today + batch.spent + batch.estimate > DailyBudget
        THEN "budget_daily" ELSE batch.stop

Row(stock, status, reason, tokens) ==
    [stock |-> stock, day |-> batch.day, batch |-> batch.no, status |-> status,
     reason |-> reason, tokens |-> tokens]

\* insert_cohort_run; a failure is logged and the batch, here `now`, goes on.
Insert(row, now) ==
    \/ rows' = Append(rows, row) /\ batch' = now
    \/ StoreMayFail /\ UNCHANGED rows /\ batch' = [now EXCEPT !.gap = TRUE]

\* _record_skipped_safely
Skip(stock) ==
    /\ Turn(stock)
    /\ stock \notin batch.done
    /\ Stop # "none"
    /\ Insert(Row(stock, "skipped", Stop, Unknown), [batch EXCEPT !.next = @ + 1, !.stop = Stop])
    /\ UNCHANGED <<day, settingsVars>>

\* _run_one begins: a session is created and the graph runs, for minutes.
Analyse(stock) ==
    /\ Turn(stock)
    /\ stock \notin batch.done
    /\ Stop = "none"
    /\ batch' = [batch EXCEPT !.stage = "analysing"]
    /\ UNCHANGED <<day, settingsVars, rows>>

\* The batch after an analysis: the quota stops it at once, then the two budgets.
After(reason, tokens) ==
    LET spent == batch.spent + tokens
        unknown == batch.unknown + (IF tokens = Unknown THEN 1 ELSE 0)
    IN  [batch EXCEPT !.stage = "loop", !.next = @ + 1, !.spent = spent, !.unknown = unknown,
                      !.stop = IF reason = "quota" THEN "quota"
                               ELSE IF spent >= RunBudget THEN "budget"
                               ELSE IF unknown >= UNKNOWN_LIMIT THEN "budget_unknown"
                               ELSE "none"]

\* The outcome: a report, none (no_report_ready, exception), or the provider's quota.
\* The row is written before the budgets are looked at.
Outcome(stock) ==
    /\ batch.stage = "analysing"
    /\ batch.next = stock
    /\ \E reason \in {"none", "exception", "quota"}, tokens \in Costs \cup {Unknown} :
          Insert(Row(stock, IF reason = "none" THEN "success" ELSE "failure", reason, tokens),
                 After(reason, tokens))
    /\ UNCHANGED <<day, settingsVars>>

Finish ==
    /\ batch.stage = "loop"
    /\ batch.next > NStocks
    /\ batch' = NoBatch(batch.no)
    /\ UNCHANGED <<day, settingsVars, rows>>

BatchStep ==
    \/ Begin \/ GiveUp \/ Finish
    \/ \E stock \in Stocks : SkipDone(stock) \/ Skip(stock) \/ Analyse(stock) \/ Outcome(stock)

-----------------------------------------------------------------------------
(* Days and processes.                                                     *)

\* The scheduler computes the run of the new day from the trigger it has by then.
NextDay ==
    /\ day < LastDay
    /\ day' = day + 1
    /\ nextFire' = trigger
    /\ UNCHANGED <<settings, editing, disturbed, trigger, rows, batch>>

\* The process dies; start_scheduler reads the settings again.
Restart ==
    /\ batch' = NoBatch(batch.no)
    /\ editing' = [e \in Editors |-> NotEditing]
    /\ disturbed' = FALSE
    /\ trigger' = settings.time
    /\ nextFire' = settings.time
    /\ UNCHANGED <<day, settings, rows>>

-----------------------------------------------------------------------------
Analysed(i) == rows[i].status \in {"success", "failure"}
AnalysedOn(d) == {i \in RowsOf(d) : Analysed(i)}
AnalysedIn(b) == {i \in DOMAIN rows : rows[i].batch = b /\ Analysed(i)}

Cheapest == CHOOSE c \in Costs \cup {DEFAULT_ESTIMATE} :
                \A other \in Costs \cup {DEFAULT_ESTIMATE} : c <= other

\* All but one of these analyses fit into the budget, with room for that one's estimate.
FitsButOne(S, budget, estimate) ==
    \/ Spent(S) <= budget
    \/ \E i \in S : Spent(S \ {i}) + estimate <= budget

(***************************************************************************)
(* The budgets bind, over batches, reruns, crashes and rows that could not *)
(* be written: what is on record for a day, and for a batch, exceeds its   *)
(* budget by the last analysis at most, which the estimate allowed; and of *)
(* the analyses of a batch no more than the limit have an unknown cost.    *)
(***************************************************************************)
BudgetsBind ==
    /\ \A d \in 1 .. LastDay : FitsButOne(AnalysedOn(d), DailyBudget, Cheapest)
    /\ \A b \in 1 .. MaxBatches :
          /\ FitsButOne(AnalysedIn(b), RunBudget, 1)
          /\ Cardinality({i \in AnalysedIn(b) : rows[i].tokens = Unknown}) <= UNKNOWN_LIMIT

(***************************************************************************)
(* The record of a day tells what happened: after the success of a stock   *)
(* nothing more is recorded of it, after a quota failure nothing is        *)
(* analysed at all, in that batch and in those that follow on the day; and *)
(* a stock that the batch has left behind has a row of it, or succeeded    *)
(* earlier, unless a row could not be written.                             *)
(***************************************************************************)
DayIsTold ==
    /\ \A i, j \in DOMAIN rows :
          i < j /\ rows[i].day = rows[j].day =>
              /\ rows[i].status = "success" => rows[i].stock # rows[j].stock
              /\ rows[i].status = "failure" /\ rows[i].reason = "quota" => ~Analysed(j)
    /\ batch.stage = "loop" /\ ~batch.gap =>
          \A stock \in 1 .. batch.next - 1 :
             \/ stock \in Successful(batch.day)
             \/ \E i \in DOMAIN rows : rows[i].batch = batch.no /\ rows[i].stock = stock

(***************************************************************************)
(* When no change of the settings is under way, the registered trigger has *)
(* the stored time, also after a crash in the middle of a change, unless   *)
(* since the start of the process a change failed halfway, or two of them  *)
(* overlapped: the one that is stored last need not be registered last.    *)
(***************************************************************************)
TriggerFollowsSettings ==
    (\A e \in Editors : ~Busy(e)) /\ ~disturbed => trigger = settings.time

(***************************************************************************)
(* "The next run is at the new time at once" (openspec eval-ops-console,   *)
(* paper-trading-cohort).  The code does not do this: modify_job leaves    *)
(* next_run_time alone, and the new time counts from the run after that.   *)
(***************************************************************************)
NextFireFollowsSettings ==
    (\A e \in Editors : ~Busy(e)) /\ ~disturbed => nextFire = settings.time
=============================================================================
