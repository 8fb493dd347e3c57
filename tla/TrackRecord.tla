---------------------------- MODULE TrackRecord ----------------------------
(***************************************************************************)
(* The track record: every analysis that ends with a decision leaves a     *)
(* view (a row of the table predictions); the daily batch                  *)
(* settle_open_predictions closes it: by the reading that a newer view     *)
(* forces on it (superseded), as a duplicate of its day, by the reading at *)
(* its horizon, or as unresolvable when its stock has stopped trading.     *)
(*                                                                         *)
(* Views keep the order in which they were stored, which is the order of   *)
(* created_at.  A time is a calendar day and whether the market has closed *)
(* on it (CLOSE_TIME_CUTOFF).  Prices are left out: a reading is the pair  *)
(* of days it compares, a win, a loss and a neutral result are all         *)
(* "resolved".  Every update is a transaction of its own, and the batch is *)
(* the only one that updates (job locks, see JobRuns): it can fail at any  *)
(* fetch or write, die between two of them and be run again.               *)
(***************************************************************************)
EXTENDS Integers, FiniteSets, FiniteSetsExt

CONSTANTS
    Symbols,      \* the stocks that are analysed
    Opinions,     \* what a decision says: [direction, target], target 0 if none
    MaxViews,     \* bound: views stored in a behaviour
    LastDay,      \* bound: calendar days
    LastViewDay,  \* bound: the day after which no view is stored
    TradingDays,  \* the days of 1 .. LastDay on which the market is open
    Horizon,      \* horizon_days: trading days between entry and exit
    StaleDays,    \* STALE_DAYS: days of the index without a row of the stock
    MaxFaults     \* bound: failed fetches and writes, crashes

ASSUME TrackRecordAssumption ==
    /\ Opinions \subseteq [direction : {"long", "short", "neutral"}, target : Nat]
    /\ Symbols # {} /\ Opinions # {}
    /\ MaxViews \in Nat /\ LastDay \in Nat \ {0} /\ MaxFaults \in Nat
    /\ TradingDays \subseteq 1 .. LastDay
    /\ Horizon \in Nat \ {0} /\ StaleDays \in Nat \ {0}

Ids  == 1 .. MaxViews
Days == 1 .. LastDay

\* What insert_prediction freezes (_FROZEN_FIELDS): stock, opinion, creation.
View == [sym : Symbols, opinion : Opinions, day : Days, late : BOOLEAN]

\* What update_prediction_status may write (_MUTABLE_FIELDS): the rule, the
\* two days of the reading, and whether the index was there to compare with.
NoReading == [rule |-> "none", entry |-> 0, exit |-> 0, bench |-> FALSE]

Statuses == {"open", "resolved", "avoidance", "duplicate_of_day", "unresolvable"}

VARIABLES
    day, closed,  \* the clock
    rows,         \* rows of a stock: the days it has traded, 0 for the time before
    count,        \* number of views stored
    views,        \* frozen fields, for the ids up to count
    status,       \* "none" until the view is stored
    reading,
    batch,        \* the running batch
    faults,
    orphans       \* history: duplicates whose closing failed

vars == <<day, closed, rows, count, views, status, reading, batch, faults, orphans>>
clock == <<day, closed, rows>>
table == <<count, views, status, reading>>

Stored == 1 .. count
Open   == {v \in Stored : status[v] = "open"}

NotRunning == [pc |-> "idle", listed |-> {}, calendar |-> {}, masters |-> {},
               todo |-> {}, skipped |-> {}]

Init ==
    /\ day = 1 /\ closed = FALSE
    /\ rows = [s \in Symbols |-> {0}]
    /\ count = 0
    /\ views = [v \in Ids |-> CHOOSE view \in View : TRUE]   \* not stored yet
    /\ status = [v \in Ids |-> "none"]
    /\ reading = [v \in Ids |-> NoReading]
    /\ batch = NotRunning
    /\ faults = 0
    /\ orphans = {}

-----------------------------------------------------------------------------
(* Rules of judgment.py *)

\* derive_entry, derive_attribution_date: the first day of S on or after the
\* creation, or after it when the market had closed; 0 when there is none.
FirstDay(v, S) ==
    LET eligible == {d \in S : d > views[v].day \/ (d = views[v].day /\ ~views[v].late)}
    IN  IF eligible = {} THEN 0 ELSE Min(eligible)

EntryDay(v) == FirstDay(v, rows[views[v].sym])

\* Mutant: a view counts for the day on which it was made.
AttributionByDate(v, calendar) == views[v].day

\* A view beyond the calendar, or an empty calendar: the day of creation.
AttributionDay(v, calendar) ==
    LET d == FirstDay(v, calendar) IN IF d = 0 THEN views[v].day ELSE d

\* Mutant: the first view of a day is kept.
MastersFirst(S, calendar) ==
    {v \in S : \A w \in S : /\ views[w].sym = views[v].sym
                            /\ AttributionDay(w, calendar) = AttributionDay(v, calendar)
                            => v <= w}

\* day_master_ids: of the views of a stock and a day, the one created last.
Masters(S, calendar) ==
    {v \in S : \A w \in S : /\ views[w].sym = views[v].sym
                            /\ AttributionDay(w, calendar) = AttributionDay(v, calendar)
                            => w <= v}

\* should_supersede: another direction, or another target when both have one.
ShouldSupersede(old, new) ==
    LET o == views[old].opinion
        n == views[new].opinion
    IN  \/ o.direction # n.direction
        \/ o.target # 0 /\ n.target # 0 /\ o.target # n.target

Newest(S, v) == Max({w \in S : views[w].sym = views[v].sym})

\* Mutant: the last but one is forgotten as well.
ContradictedBefore(S) ==
    {v \in S : /\ \E w \in S : views[w].sym = views[v].sym /\ v < w /\ w < Newest(S, v)
               /\ views[v].opinion.direction # "neutral"
               /\ ShouldSupersede(v, Newest(S, v))}

\* The views that the first phase settles: all but the newest of a stock,
\* neutral ones excepted, that the newest one contradicts.
Contradicted(S) ==
    {v \in S : /\ v # Newest(S, v)
               /\ views[v].opinion.direction # "neutral"
               /\ ShouldSupersede(v, Newest(S, v))}

\* resolve_prediction: the horizon-th row after the entry; 0 while not there.
ExitDay(v) ==
    LET after == {d \in rows[views[v].sym] : d > EntryDay(v)}
    IN  IF EntryDay(v) = 0 \/ Cardinality(after) < Horizon THEN 0
        ELSE CHOOSE d \in after : Cardinality({e \in after : e <= d}) = Horizon

HasNewRows(v) == \E d \in rows[views[v].sym] : d > views[v].day

\* _is_stale: without rows of the stock, or without the index, nothing is.
IsStale(v, calendar) ==
    LET R == rows[views[v].sym]
    IN  R # {} /\ Cardinality({d \in calendar : d > Max(R)}) >= StaleDays

-----------------------------------------------------------------------------
(* Surroundings *)

Traded == {d \in TradingDays : d < day \/ (d = day /\ closed)}

\* The market closes: the stocks that traded today have a row.
Close ==
    /\ ~closed
    /\ closed' = TRUE
    /\ IF day \in TradingDays
       THEN \E T \in SUBSET Symbols :
                rows' = [s \in Symbols |-> IF s \in T THEN rows[s] \cup {day} ELSE rows[s]]
       ELSE rows' = rows
    /\ UNCHANGED <<day, table, batch, faults, orphans>>

\* A batch takes minutes: it may run over the close, not over midnight.
NextDay ==
    /\ closed /\ day < LastDay /\ batch.pc = "idle"
    /\ day' = day + 1 /\ closed' = FALSE
    /\ UNCHANGED <<rows, table, batch, faults, orphans>>

\* persist_prediction_from_accumulated: an analysis leaves its view.  When the
\* write fails the view is lost and nothing else happens.
Insert(s, o) ==
    /\ count < MaxViews /\ day <= LastViewDay
    /\ count' = count + 1
    /\ views' = [views EXCEPT ![count + 1] =
                    [sym |-> s, opinion |-> o, day |-> day, late |-> closed]]
    /\ status' = [status EXCEPT ![count + 1] = "open"]
    /\ UNCHANGED <<reading, clock, batch, faults, orphans>>

-----------------------------------------------------------------------------
(* settle_open_predictions *)

Fault == faults < MaxFaults /\ faults' = faults + 1

\* Mutant: the list has room for one view (the limit once cut it off).
ListNewest == {v \in Open : \A w \in Open : w <= v}

\* list_predictions(status="open", limit=100_000)
ListOpen == Open

\* update_prediction_status, committed at once.
Update(v, s, r) ==
    /\ status' = [status EXCEPT ![v] = s]
    /\ reading' = [reading EXCEPT ![v] = r]
    /\ UNCHANGED <<count, views>>

\* The list and the index are read; without the index the batch goes on.
StartBatch ==
    /\ batch.pc = "idle"
    /\ \E calendar \in {Traded, {}} :
          /\ IF calendar = Traded THEN UNCHANGED faults ELSE Fault
          /\ batch' = [pc |-> "supersede", listed |-> ListOpen, calendar |-> calendar,
                       masters |-> {}, todo |-> Contradicted(ListOpen), skipped |-> {}]
    /\ UNCHANGED <<clock, table, orphans>>

\* The views of a phase come in their order.
First(v, S) == v \in S /\ \A w \in S : v <= w

Superseding(v) == batch.pc = "supersede" /\ First(v, batch.todo)
Closing(v)     == batch.pc = "closing" /\ First(v, batch.todo)
Judging(v)     == batch.pc = "closing" /\ batch.todo = {} /\ First(v, batch.masters)

Done(v) == [batch EXCEPT !.todo = @ \ {v}, !.masters = IF batch.todo = {} THEN @ \ {v} ELSE @]

\* First phase: the old view is settled at the last row of its stock.
Supersede(v) ==
    /\ Superseding(v)
    /\ rows[views[v].sym] # {} /\ EntryDay(v) # 0
    /\ Update(v, "resolved", [rule |-> "superseded", entry |-> EntryDay(v),
                              exit |-> Max(rows[views[v].sym]), bench |-> FALSE])
    /\ batch' = Done(v)
    /\ UNCHANGED <<clock, faults, orphans>>

\* No rows or no entry; or the fetch or the write fails.
SkipSupersede(v) ==
    /\ Superseding(v)
    /\ IF EntryDay(v) = 0 THEN UNCHANGED faults ELSE Fault
    /\ batch' = [Done(v) EXCEPT !.skipped = @ \cup {v}]
    /\ UNCHANGED <<clock, table, orphans>>

\* Mutant: the list of the first phase is used again.
RelistStale ==
    /\ batch.pc = "supersede" /\ batch.todo = {}
    /\ LET masters == Masters(batch.listed, batch.calendar)
       IN  batch' = [batch EXCEPT !.pc = "closing",
                                  !.masters = masters, !.todo = batch.listed \ masters]
    /\ UNCHANGED <<clock, table, faults, orphans>>

\* Second phase: what is open now is listed again and the masters are chosen.
Relist ==
    /\ batch.pc = "supersede" /\ batch.todo = {}
    /\ LET masters == Masters(ListOpen, batch.calendar)
       IN  batch' = [batch EXCEPT !.pc = "closing",
                                  !.masters = masters, !.todo = ListOpen \ masters]
    /\ UNCHANGED <<clock, table, faults, orphans>>

CloseDuplicate(v) ==
    /\ Closing(v)
    /\ Update(v, "duplicate_of_day", [NoReading EXCEPT !.rule = "duplicate_of_day"])
    /\ batch' = Done(v)
    /\ UNCHANGED <<clock, faults, orphans>>

\* Third phase, the masters: the horizon is reached; a neutral view ends in a state of its own.
Judge(v) ==
    /\ Judging(v)
    /\ HasNewRows(v) /\ ExitDay(v) # 0
    /\ Update(v, IF views[v].opinion.direction = "neutral" THEN "avoidance" ELSE "resolved",
              [rule |-> "expiry", entry |-> EntryDay(v), exit |-> ExitDay(v),
               bench |-> batch.calendar # {}])
    /\ batch' = Done(v)
    /\ UNCHANGED <<clock, faults, orphans>>

GiveUp(v) ==
    /\ Judging(v)
    /\ ~HasNewRows(v) /\ IsStale(v, batch.calendar)
    /\ Update(v, "unresolvable", [NoReading EXCEPT !.rule = "stale_no_market"])
    /\ batch' = Done(v)
    /\ UNCHANGED <<clock, faults, orphans>>

\* Not due yet: skipped until another day.
NotYet(v) ==
    /\ Judging(v)
    /\ IF HasNewRows(v) THEN ExitDay(v) = 0 ELSE ~IsStale(v, batch.calendar)
    /\ batch' = Done(v)
    /\ UNCHANGED <<clock, table, faults, orphans>>

\* A fetch or a write fails in the second or third phase: the next view.
Fail(v) ==
    /\ Closing(v) \/ Judging(v)
    /\ Fault
    /\ batch' = Done(v)
    /\ orphans' = IF Closing(v) THEN orphans \cup {v} ELSE orphans
    /\ UNCHANGED <<clock, table>>

EndBatch ==
    /\ batch.pc = "closing" /\ batch.todo = {} /\ batch.masters = {}
    /\ batch' = NotRunning
    /\ UNCHANGED <<clock, table, faults, orphans>>

\* The process dies, or a read of the list or the write of GiveUp raises.
Crash ==
    /\ batch.pc # "idle"
    /\ Fault
    /\ batch' = NotRunning
    /\ UNCHANGED <<clock, table, orphans>>

BatchStep ==
    \/ \E v \in Ids : \/ Supersede(v) \/ SkipSupersede(v)
                     \/ CloseDuplicate(v)
                     \/ Judge(v) \/ GiveUp(v) \/ NotYet(v)
    \/ Relist
    \/ EndBatch

Next ==
    \/ Close \/ NextDay
    \/ \E s \in Symbols, o \in Opinions : Insert(s, o)
    \/ StartBatch
    \/ BatchStep
    \/ \E v \in Ids : Fail(v)
    \/ Crash

(***************************************************************************)
(* The days go by, the scheduler starts the batch every day, and a batch   *)
(* that neither fails nor dies comes to its end.                           *)
(***************************************************************************)
Fairness ==
    /\ WF_vars(Close) /\ WF_vars(NextDay)
    /\ WF_vars(StartBatch /\ batch'.calendar = Traded)
    /\ WF_vars(BatchStep)

Spec == Init /\ [][Next]_vars /\ Fairness

-----------------------------------------------------------------------------
(* Properties *)

\* The steps that leave every settled view as it is.
Settled ==
    \A v \in Ids : status[v] \notin {"none", "open"} =>
        status'[v] = status[v] /\ reading'[v] = reading[v]

(***************************************************************************)
(* A view that has left the state open never changes again: neither its    *)
(* status nor its reading.  update_prediction_status does not look at the  *)
(* status it overwrites ("idempotence is the caller's"), and the batch     *)
(* works on lists that are older than its last updates.                    *)
(***************************************************************************)
SettledOnce == [][Settled]_vars

\* The day on which a view counts, by the whole calendar.
TrueDay(v) == IF FirstDay(v, TradingDays) = 0 THEN LastDay ELSE FirstDay(v, TradingDays)

SameDay(v, w) == views[v].sym = views[w].sym /\ TrueDay(v) = TrueDay(w)

Judged(v) == status[v] # "none" /\ reading[v].rule = "expiry"

(***************************************************************************)
(* A stock and a day have one view in the statistics: of two views of one  *)
(* day only one is judged at its horizon, however many analyses, reruns,   *)
(* crashes and failed writes there were, unless the index was missing when *)
(* a view was judged, or the closing of one of them failed: the next batch *)
(* looks for duplicates among the open views only.                         *)
(***************************************************************************)
OneJudgedPerDay ==
    \A v, w \in Stored :
        v # w /\ SameDay(v, w) /\ Judged(v) /\ Judged(w) =>
            ~reading[v].bench \/ ~reading[w].bench \/ {v, w} \cap orphans # {}

(***************************************************************************)
(* A view is closed as a duplicate only for the sake of a later one of its *)
(* stock, made not after the day for which it counts itself; the latest    *)
(* view of a stock is never closed as one.                                 *)
(***************************************************************************)
DuplicatesAreReplaced ==
    \A v \in Stored : status[v] = "duplicate_of_day" =>
        \E w \in Stored : /\ w > v /\ views[w].sym = views[v].sym
                          /\ views[w].day <= TrueDay(v)

(***************************************************************************)
(* "The readings of the chain of changes are kept" (the comment on the     *)
(* second phase): a view that the newest view of the list contradicts is   *)
(* not closed as a duplicate, without a reading, unless its first phase    *)
(* was skipped.                                                            *)
(***************************************************************************)
ChangesAreReadFirst ==
    [][\A v \in Ids :
          /\ status[v] = "open" /\ status'[v] = "duplicate_of_day"
          /\ v \notin batch.skipped
          => \A w \in Stored : w = Newest(Stored, v) /\ w \in batch.listed =>
                 views[v].opinion.direction = "neutral" \/ ~ShouldSupersede(v, w)]_vars

Due(v) ==
    /\ status[v] = "open"
    /\ \/ ExitDay(v) # 0
       \/ ~HasNewRows(v) /\ IsStale(v, Traded)

(***************************************************************************)
(* A view whose horizon is reached, or whose stock has stopped trading     *)
(* since it was made, does not stay open for ever.                         *)
(***************************************************************************)
DueViewsEnd == \A v \in Ids : Due(v) ~> ~Due(v)

(***************************************************************************)
(* openspec/specs/track-record/spec.md:139-144: a view made after the close*)
(* counts for the next day and does not take the place of the view of its  *)
(* own day; both are judged.  So a day that has a view keeps one that is   *)
(* not a duplicate.                                                        *)
(***************************************************************************)
DaysKeepAView ==
    \A v \in Stored : status[v] = "duplicate_of_day" =>
        \E w \in Stored : SameDay(v, w) /\ status[w] # "duplicate_of_day"
=============================================================================
