---------------------------- MODULE AnalysisQueue ----------------------------
(***************************************************************************)
(* The queue of deep analyses (screening/queue.py) over the lives that     *)
(* AnalysisRun describes and PipelineRunner implements.  The queue belongs *)
(* to the event loop: a promotion is one step.  A watcher reads the        *)
(* session's status in a worker thread and looks at what it has read in a  *)
(* later step.                                                             *)
(***************************************************************************)
EXTENDS AnalysisRun, Naturals, Sequences, FiniteSets

CONSTANTS
    Limits  \* the values that the settings give the concurrency limit

ASSUME LimitsAssumption == Limits \subseteq Nat \ {0}

VARIABLES
    order,   \* _entries: the analyses in the order of their arrival
    entry,   \* the state of each entry
    seen,    \* what the watcher of the entry has read and not yet looked at
    limit    \* _max_concurrency

queueVars == <<order, entry, seen, limit>>
vars == <<runVars, queueVars>>

Init ==
    /\ RunInit
    /\ order = << >>
    /\ entry = [a \in Analyses |-> "none"]
    /\ seen = [a \in Analyses |-> "nothing"]
    /\ limit \in Limits

With(table, state) == {a \in Analyses : table[a] = state}

-----------------------------------------------------------------------------
(* _promote: the loop over the entries, on a table of their states.        *)

\* Mutant of Chosen: the newest entry comes first.
ChosenNewest(line, table, max, broken) ==
    {a \in With(table, "queued") :
        Cardinality(With(table, "running"))
          + Cardinality({b \in With(table, "queued") \ broken : line[b] > line[a]}) < max}

\* The queued entries that the loop reaches before the limit: those in front of one,
\* except the ones whose start fails (`broken`), have taken a place.
Chosen(line, table, max, broken) ==
    {a \in With(table, "queued") :
        Cardinality(With(table, "running"))
          + Cardinality({b \in With(table, "queued") \ broken : line[b] < line[a]}) < max}

\* Place of an entry; the queue holds every analysis at most once.
Line(list) == [a \in Analyses |-> IF \E i \in DOMAIN list : list[i] = a
                                  THEN CHOOSE i \in DOMAIN list : list[i] = a ELSE 0]

\* The new entries and threads when the loop runs over `table` with the limit `max`;
\* the starter starts the thread, or raises.
Promote(list, table, max) ==
    \E broken \in (IF StartMayFail THEN SUBSET With(table, "queued") ELSE {{}}) :
        LET chosen == Chosen(Line(list), table, max, broken)
        IN  /\ broken \subseteq chosen
            /\ order' = list
            /\ entry' = [a \in Analyses |-> IF a \notin chosen THEN table[a]
                                            ELSE IF a \in broken THEN "failed" ELSE "running"]
            /\ StartAll(chosen, broken)

-----------------------------------------------------------------------------
(* The end points.                                                         *)

\* screening_analyze and its like: the session is created and set to running...
Prepare(a) ==
    /\ Open(a)
    /\ entry' = [entry EXCEPT ![a] = "coming"]
    /\ UNCHANGED <<order, seen, limit>>

\* ... and enqueued when the coroutine goes on.
Enqueue(a) ==
    /\ entry[a] = "coming"
    /\ Promote(Append(order, a), [entry EXCEPT ![a] = "queued"], limit)
    /\ UNCHANGED <<status, reported, excused, seen, limit>>

\* Mutant of SetLimit: the new limit only counts from the next entry on.
SetLimitLazily(max) ==
    /\ max # limit
    /\ limit' = max
    /\ UNCHANGED <<runVars, order, entry, seen>>

\* set_max_concurrency: a higher limit fills up at once, a lower one ends nothing.
SetLimit(max) ==
    /\ max # limit
    /\ limit' = max
    /\ Promote(order, entry, max)
    /\ UNCHANGED <<status, reported, excused, seen>>

-----------------------------------------------------------------------------
(* The watcher of an entry.                                                *)

\* Mutant of Outcome: any end is done.
OutcomeAlwaysDone(read) == "done"

\* The state of an entry whose session has come to an end or is gone.
Outcome(read) == IF read = "completed" THEN "done" ELSE "failed"

Ended(read) == read \in Final \cup {"deleted"}

\* get_session in a worker thread; after any other status the watcher sleeps.
ReadStatus(a) ==
    /\ entry[a] = "running"
    /\ seen[a] = "nothing"
    /\ Ended(status[a])
    /\ seen' = [seen EXCEPT ![a] = status[a]]
    /\ UNCHANGED <<runVars, order, entry, limit>>

\* get_session raises: the watcher is gone, and nobody frees the place any more.
ReadFails(a) ==
    /\ StoreMayFail
    /\ entry[a] = "running"
    /\ seen[a] = "nothing"
    /\ seen' = [seen EXCEPT ![a] = "raised"]
    /\ UNCHANGED <<runVars, order, entry, limit>>

\* Over: the place is free, and the watcher promotes as its last act.
Release(a) ==
    /\ seen[a] \notin {"nothing", "raised"}
    /\ seen' = [seen EXCEPT ![a] = "nothing"]
    /\ Promote(order, [entry EXCEPT ![a] = Outcome(seen[a])], limit)
    /\ UNCHANGED <<status, reported, excused, limit>>

\* The queue is lost with the process; the limit is read from the settings again.
Restart ==
    /\ RestartRuns
    /\ order' = << >>
    /\ entry' = [a \in Analyses |-> "none"]
    /\ seen' = [a \in Analyses |-> "nothing"]
    /\ limit' \in Limits

-----------------------------------------------------------------------------
Thread(a) == ThreadStep(a) /\ UNCHANGED queueVars
Watcher(a) == ReadStatus(a) \/ Release(a)

Next ==
    \/ \E a \in Analyses :
          \/ Prepare(a) \/ Enqueue(a)
          \/ Thread(a) \/ Watcher(a) \/ ReadFails(a)
          \/ Cancel(a) /\ UNCHANGED queueVars
          \/ Delete(a) /\ UNCHANGED queueVars
    \/ \E max \in Limits : SetLimit(max)
    \/ Restart

\* Coroutines are resumed, and threads come to their end (ThreadsEnd of
\* PipelineRunner).  Users need not do anything.
GoesOn(a) == (Complete(a) \/ Fail(a) \/ End(a)) /\ UNCHANGED queueVars

Fairness ==
    \A a \in Analyses :
        WF_vars(Enqueue(a)) /\ WF_vars(GoesOn(a)) /\ WF_vars(Watcher(a))

Spec == Init /\ [][Next]_vars /\ Fairness

-----------------------------------------------------------------------------

(***************************************************************************)
(* First come, first served: nothing behind a queued entry has left the    *)
(* queue, whatever ends, fails to start or changes the limit (queue.py     *)
(* promotes in FIFO order).                                                *)
(***************************************************************************)
FirstComeFirstServed ==
    \A i, j \in DOMAIN order :
        i < j /\ entry[order[j]] # "queued" => entry[order[i]] # "queued"

(***************************************************************************)
(* No place stays empty while an entry waits: whatever frees a place also  *)
(* fills it (a failed start, an end, a deleted session, a higher limit).   *)
(***************************************************************************)
NoIdlePlaces ==
    With(entry, "queued") # {} => Cardinality(With(entry, "running")) >= limit

(***************************************************************************)
(* A thread is only started while the entries that run, itself included,   *)
(* are within the limit of that moment; a lower limit starts nothing.      *)
(***************************************************************************)
StartsWithinLimit ==
    [][\A a \in Analyses :
          thread[a] = "none" /\ thread'[a] = "live" => Cardinality(With(entry', "running")) <= limit']_vars

(***************************************************************************)
(* An entry that is done has a saved report, even if the session fails     *)
(* later; one that failed belongs to a session that failed, is gone, or    *)
(* was never started.                                                      *)
(***************************************************************************)
EntryTellsOutcome ==
    \A a \in Analyses :
        /\ entry[a] = "done" => reported[a]
        /\ entry[a] = "failed" =>
              \/ status[a] \in {"failed", "deleted"}
              \/ status[a] = "running" /\ thread[a] = "ended"

=============================================================================
