------------------------- MODULE TrackRecordProofs -------------------------
(***************************************************************************)
(* Theorems about the track record, for every set of stocks and opinions,  *)
(* every calendar and every number of views and faults: a settled view     *)
(* never changes, a view is closed as a duplicate only for a later one,    *)
(* and not before the changes of opinion of the batch's list were read.    *)
(***************************************************************************)
EXTENDS TrackRecord, FiniteSetTheorems, WellFoundedInduction, TLAPS

Batch == [pc : {"idle", "supersede", "closing"},
          listed : SUBSET Ids, calendar : SUBSET TradingDays,
          masters : SUBSET Ids, todo : SUBSET Ids, skipped : SUBSET Ids]

TableOK ==
    /\ day \in Days /\ closed \in BOOLEAN /\ count \in 0 .. MaxViews
    /\ views \in [Ids -> View]
    /\ status \in [Ids -> Statuses \cup {"none"}]
    /\ reading = [v \in Ids |-> reading[v]]
    /\ batch \in Batch
    /\ \A v \in Ids : v > count => status[v] = "none"

\* What the batch has still to do is open, so nothing is written twice.
TodoOK ==
    /\ \A v \in batch.todo \cup batch.masters : v \in Stored /\ status[v] = "open"
    /\ batch.todo \cap batch.masters = {}

\* Some later view takes the day of v.
Replaced(v) ==
    \E w \in Stored : /\ w > v /\ views[w].sym = views[v].sym
                      /\ views[w].day <= TrueDay(v)

\* The calendar of a batch has no holes: it ends somewhere.
ClosedDown(calendar) ==
    \A d \in calendar, e \in TradingDays : e <= d => e \in calendar

DuplicatesOK ==
    /\ ClosedDown(batch.calendar)
    /\ batch.pc = "closing" => \A v \in batch.todo : Replaced(v)
    /\ DuplicatesAreReplaced

RecordInv == TableOK /\ TodoOK /\ DuplicatesOK

-----------------------------------------------------------------------------
LEMMA MinIsLeast ==
  ASSUME NEW S \in SUBSET Nat, S # {}
  PROVE  Min(S) \in S /\ \A x \in S : Min(S) <= x
<1> DEFINE R == {p \in Nat \X Nat : p[1] < p[2]}
<1>1. IsWellFoundedOn(R, Nat)
  BY NatLessThanWellFounded DEF OpToRel
<1>2. PICK m \in S : \A y \in S : ~ (<<y, m>> \in R)
  BY <1>1, WFMin
<1>3. ASSUME NEW y \in S
      PROVE  m <= y
  <2>1. y \in Nat /\ m \in Nat /\ <<y, m>> \notin R
    BY <1>2
  <2>2. ~ (y < m)
    BY <2>1
  <2>3. QED
    BY <2>1, <2>2
<1>4. QED
  BY <1>3 DEF Min

LEMMA FirstDayIsFirst ==
  ASSUME NEW v \in Ids, NEW S \in SUBSET Nat
  PROVE  LET eligible == {d \in S : d > views[v].day \/ (d = views[v].day /\ ~views[v].late)}
         IN  IF eligible = {} THEN FirstDay(v, S) = 0
             ELSE /\ FirstDay(v, S) \in eligible
                  /\ \A d \in eligible : FirstDay(v, S) <= d
<1> DEFINE eligible == {d \in S : d > views[v].day \/ (d = views[v].day /\ ~views[v].late)}
<1>1. eligible \in SUBSET Nat
  OBVIOUS
<1>2. CASE eligible = {}
  BY <1>2 DEF FirstDay
<1>3. CASE eligible # {}
  <2>1. FirstDay(v, S) = Min(eligible)
    BY <1>3 DEF FirstDay
  <2>2. QED
    BY <1>1, <1>3, <2>1, MinIsLeast
<1>4. QED
  BY <1>2, <1>3

LEMMA CalendarIsNat ==
  ASSUME NEW S \in SUBSET TradingDays
  PROVE  S \in SUBSET Nat
<1>1. \A d \in TradingDays : d \in Nat
  BY TrackRecordAssumption
<1>2. QED
  BY <1>1

\* A view counts not before it was made, and a batch that has not seen the
\* whole calendar puts it on an earlier day at most.
LEMMA AttributionBounds ==
  ASSUME TableOK, NEW v \in Ids, NEW calendar \in SUBSET TradingDays, ClosedDown(calendar)
  PROVE  /\ views[v].day \in Nat /\ AttributionDay(v, calendar) \in Nat /\ TrueDay(v) \in Nat
         /\ views[v].day <= AttributionDay(v, calendar)
         /\ AttributionDay(v, calendar) <= TrueDay(v)
<1> DEFINE Eligible(S) ==
             {d \in S : d > views[v].day \/ (d = views[v].day /\ ~views[v].late)}
<1>1. views[v].day \in Days /\ \A d \in TradingDays : d \in Days
  BY TrackRecordAssumption DEF TableOK, View, Days
<1>2. IF Eligible(calendar) = {} THEN FirstDay(v, calendar) = 0
      ELSE /\ FirstDay(v, calendar) \in Eligible(calendar)
           /\ \A d \in Eligible(calendar) : FirstDay(v, calendar) <= d
  BY CalendarIsNat, FirstDayIsFirst
<1>3. IF Eligible(TradingDays) = {} THEN FirstDay(v, TradingDays) = 0
      ELSE /\ FirstDay(v, TradingDays) \in Eligible(TradingDays)
           /\ \A d \in Eligible(TradingDays) : FirstDay(v, TradingDays) <= d
  BY CalendarIsNat, FirstDayIsFirst
<1>4. TrueDay(v) \in Nat /\ views[v].day <= TrueDay(v)
  <2>1. CASE Eligible(TradingDays) = {}
    BY <1>1, <1>3, <2>1, TrackRecordAssumption DEF TrueDay, Days
  <2>2. CASE Eligible(TradingDays) # {}
    <3> DEFINE f == FirstDay(v, TradingDays)
    <3>1. f \in Eligible(TradingDays)
      BY <1>3, <2>2
    <3>2. f \in Days /\ (f > views[v].day \/ f = views[v].day)
      BY <1>1, <3>1
    <3> HIDE DEF f
    <3>3. f \in Nat \ {0} /\ views[v].day <= f
      BY <1>1, <3>2, TrackRecordAssumption DEF Days
    <3> USE DEF f
    <3>4. QED
      BY <3>3 DEF TrueDay
  <2>3. QED
    BY <2>1, <2>2
<1>5. CASE Eligible(calendar) = {}
  BY <1>1, <1>2, <1>4, <1>5 DEF AttributionDay, Days
<1>6. CASE Eligible(calendar) # {}
  <2>1. /\ FirstDay(v, calendar) \in Eligible(calendar)
        /\ FirstDay(v, calendar) \in Eligible(TradingDays)
    BY <1>2, <1>6
  <2>2. /\ AttributionDay(v, calendar) = FirstDay(v, calendar)
        /\ FirstDay(v, calendar) \in Nat /\ views[v].day <= FirstDay(v, calendar)
    BY <1>1, <2>1 DEF AttributionDay, Days
  <2>3. /\ TrueDay(v) = FirstDay(v, TradingDays)
        /\ FirstDay(v, TradingDays) \in Eligible(TradingDays)
        /\ FirstDay(v, TradingDays) <= FirstDay(v, calendar)
    BY <1>1, <1>3, <2>1, <2>2 DEF TrueDay, Days
  <2>4. FirstDay(v, TradingDays) \in Eligible(calendar)
    BY <2>1, <2>3 DEF ClosedDown
  <2>5. QED
    BY <1>1, <1>2, <1>4, <2>1, <2>2, <2>3, <2>4 DEF Days
<1>7. QED
  BY <1>5, <1>6

\* The views that are not masters have a later one that takes their day.
LEMMA OthersAreReplaced ==
  ASSUME TableOK, NEW calendar \in SUBSET TradingDays, ClosedDown(calendar),
         NEW v \in Open \ Masters(Open, calendar)
  PROVE  Replaced(v)
<1>1. PICK w \in Open : /\ views[w].sym = views[v].sym
                         /\ AttributionDay(w, calendar) = AttributionDay(v, calendar)
                         /\ ~ (w <= v)
  BY DEF Masters
<1>2. v \in Ids /\ w \in Ids /\ w \in Stored
  BY TrackRecordAssumption DEF TableOK, Open, Stored, Ids
<1>3. views[w].day <= TrueDay(v)
  BY <1>1, <1>2, AttributionBounds
<1>4. w > v
  BY <1>1, <1>2, TrackRecordAssumption DEF Ids
<1>5. QED
  BY <1>1, <1>2, <1>3, <1>4 DEF Replaced
-----------------------------------------------------------------------------
LEMMA InitRecordInv ==
  ASSUME Init
  PROVE  RecordInv
<1>1. TableOK
  <2>1. day \in Days /\ closed \in BOOLEAN /\ count \in 0 .. MaxViews
    <3>1. day \in Days
      BY TrackRecordAssumption DEF Init, Days
    <3>2. closed \in BOOLEAN
      BY DEF Init
    <3>3. count \in 0 .. MaxViews
      BY TrackRecordAssumption DEF Init
    <3>4. QED
      BY <3>1, <3>2, <3>3
  <2>2. views \in [Ids -> View]
    <3>1. PICK s \in Symbols, o \in Opinions : TRUE
      BY TrackRecordAssumption
    <3>2. [sym |-> s, opinion |-> o, day |-> 1, late |-> FALSE] \in View
      BY <2>1 DEF View, Init
    <3>3. (CHOOSE view \in View : TRUE) \in View
      BY <3>2
    <3>4. QED
      BY <3>3 DEF Init
  <2>3. status \in [Ids -> Statuses \cup {"none"}] /\ \A v \in Ids : status[v] = "none"
    BY DEF Init
  <2>4. reading = [v \in Ids |-> reading[v]]
    BY DEF Init
  <2>5. batch \in Batch
    BY DEF Init, NotRunning, Batch
  <2>6. QED
    BY <2>1, <2>2, <2>3, <2>4, <2>5 DEF TableOK
<1>2. TodoOK
  BY DEF Init, TodoOK, NotRunning
<1>3. DuplicatesOK
  BY TrackRecordAssumption
     DEF Init, DuplicatesOK, ClosedDown, DuplicatesAreReplaced, NotRunning, Stored
<1>4. QED
  BY <1>1, <1>2, <1>3 DEF RecordInv

\* Steps that write neither the table nor the batch.
LEMMA ClockKeepsInv ==
  ASSUME RecordInv, UNCHANGED <<table, batch>>, day' \in Days, closed' \in BOOLEAN
  PROVE  RecordInv'
<1>1. TableOK'
  BY DEF RecordInv, TableOK, table
<1>2. TodoOK'
  BY DEF RecordInv, TodoOK, table, Stored
<1>3. \A v : TrueDay(v)' = TrueDay(v)
  BY DEF TrueDay, FirstDay, table
<1>4. DuplicatesOK'
  BY <1>3 DEF RecordInv, DuplicatesOK, Replaced, DuplicatesAreReplaced, table, Stored
<1>5. QED
  BY <1>1, <1>2, <1>4 DEF RecordInv

\* A new view leaves the others as they are.
LEMMA InsertKeepsInv ==
  ASSUME RecordInv, NEW s \in Symbols, NEW o \in Opinions, Insert(s, o)
  PROVE  /\ RecordInv'
         /\ \A v \in Stored : status'[v] = status[v] /\ reading'[v] = reading[v]
<1> DEFINE n == count + 1
<1>1. /\ n \in Ids /\ n \notin Stored /\ count' = n
      /\ \A v \in Stored : v \in Ids /\ v \in Stored'
      /\ \A v \in Stored' : v \in Stored \/ v = n
  BY TrackRecordAssumption DEF RecordInv, TableOK, Insert, Ids, Stored
<1>2. \A v \in Stored : views'[v] = views[v] /\ status'[v] = status[v]
  BY <1>1 DEF Insert, RecordInv, TableOK
<1>3. status'[n] = "open" /\ UNCHANGED <<reading, batch, day, closed>>
  BY <1>1 DEF Insert, RecordInv, TableOK, clock
<1>4. TableOK'
  <2>1. views' \in [Ids -> View]
    <3>1. [sym |-> s, opinion |-> o, day |-> day, late |-> closed] \in View
      BY DEF RecordInv, TableOK, View
    <3>2. QED
      BY <1>1, <3>1 DEF Insert, RecordInv, TableOK
  <2>2. status' \in [Ids -> Statuses \cup {"none"}]
    BY <1>1 DEF Insert, RecordInv, TableOK, Statuses
  <2>3. count' \in 0 .. MaxViews /\ \A v \in Ids : v > count' => status'[v] = "none"
    BY <1>1, TrackRecordAssumption DEF Insert, RecordInv, TableOK, Ids
  <2>4. QED
    BY <1>3, <2>1, <2>2, <2>3 DEF RecordInv, TableOK
<1>5. TodoOK'
  BY <1>1, <1>2, <1>3 DEF RecordInv, TodoOK
<1>6. \A v \in Stored : TrueDay(v)' = TrueDay(v)
  BY <1>2 DEF TrueDay, FirstDay
<1>7. \A v \in Stored : Replaced(v) => Replaced(v)'
  BY <1>1, <1>2, <1>6 DEF Replaced
<1>8. DuplicatesOK'
  <2>1. ClosedDown(batch'.calendar)
    BY <1>3 DEF RecordInv, DuplicatesOK, ClosedDown
  <2>2. batch'.pc = "closing" => \A v \in batch'.todo : Replaced(v)'
    BY <1>3, <1>7 DEF RecordInv, DuplicatesOK, TodoOK
  <2>3. DuplicatesAreReplaced'
    BY <1>1, <1>2, <1>3, <1>7 DEF RecordInv, DuplicatesOK, DuplicatesAreReplaced, Replaced
  <2>4. QED
    BY <2>1, <2>2, <2>3 DEF DuplicatesOK
<1>9. QED
  BY <1>2, <1>3, <1>4, <1>5, <1>8 DEF RecordInv

\* One view of the work list is written, or passed over.
LEMMA WorkKeepsInv ==
  ASSUME RecordInv, NEW v \in batch.todo \cup batch.masters,
         UNCHANGED <<day, closed, count, views>>,
         batch' \in Batch, batch'.pc = batch.pc, batch'.calendar = batch.calendar,
         batch'.todo \subseteq batch.todo \ {v}, batch'.masters \subseteq batch.masters \ {v},
         \/ UNCHANGED <<status, reading>>
         \/ /\ \E s \in Statuses : \E r : /\ status' = [status EXCEPT ![v] = s]
                                          /\ reading' = [reading EXCEPT ![v] = r]
            /\ status'[v] = "duplicate_of_day" => Replaced(v)
  PROVE  /\ RecordInv'
         /\ \A w \in Ids : status[w] # "open" => status'[w] = status[w] /\ reading'[w] = reading[w]
<1>1. v \in Stored /\ v \in Ids /\ status[v] = "open" /\ v <= count
  BY DEF RecordInv, TodoOK, TableOK, Batch, Stored
<1>2. \A w \in Ids : w # v => status'[w] = status[w] /\ reading'[w] = reading[w]
  BY <1>1 DEF RecordInv, TableOK
<1>3. TableOK'
  <2>1. status' \in [Ids -> Statuses \cup {"none"}]
    BY <1>1 DEF RecordInv, TableOK
  <2>2. reading' = [w \in Ids |-> reading'[w]]
    BY <1>1 DEF RecordInv, TableOK
  <2>3. \A w \in Ids : w > count => w # v
    BY <1>1, TrackRecordAssumption DEF Ids, RecordInv, TableOK
  <2>4. \A w \in Ids : w > count' => status'[w] = "none"
    BY <1>2, <2>3 DEF RecordInv, TableOK
  <2>5. QED
    BY <2>1, <2>2, <2>4 DEF RecordInv, TableOK
<1>4. TodoOK'
  <2>1. \A w \in batch'.todo \cup batch'.masters :
           w \in batch.todo \cup batch.masters /\ w # v /\ w \in Ids
    BY DEF RecordInv, TableOK, Batch
  <2>2. \A w \in batch'.todo \cup batch'.masters : w \in Stored' /\ status'[w] = "open"
    BY <1>2, <2>1 DEF RecordInv, TodoOK, Stored
  <2>3. batch'.todo \cap batch'.masters = {}
    BY DEF RecordInv, TodoOK
  <2>4. QED
    BY <2>2, <2>3 DEF TodoOK
<1>5. \A w : TrueDay(w)' = TrueDay(w) /\ Replaced(w)' = Replaced(w)
  BY DEF TrueDay, FirstDay, Replaced, Stored
<1>6. DuplicatesOK'
  <2>1. ClosedDown(batch'.calendar)
    BY DEF RecordInv, DuplicatesOK
  <2>2. batch'.pc = "closing" => \A w \in batch'.todo : Replaced(w)'
    BY <1>5 DEF RecordInv, DuplicatesOK
  <2>3. ASSUME NEW w \in Stored', status'[w] = "duplicate_of_day"
        PROVE  Replaced(w)'
    <3>1. w \in Ids /\ w \in Stored
      BY TrackRecordAssumption DEF RecordInv, TableOK, Stored, Ids
    <3>2. Replaced(w)
      <4>1. CASE w = v
        BY <1>1, <2>3, <4>1
      <4>2. CASE w # v
        BY <1>2, <2>3, <3>1, <4>2
           DEF RecordInv, DuplicatesOK, DuplicatesAreReplaced, Replaced
      <4>3. QED
        BY <4>1, <4>2
    <3>3. QED
      BY <1>5, <3>2
  <2>4. DuplicatesAreReplaced'
    BY <2>3 DEF DuplicatesAreReplaced, Replaced
  <2>5. QED
    BY <2>1, <2>2, <2>4 DEF DuplicatesOK
<1>7. QED
  BY <1>1, <1>2, <1>3, <1>4, <1>6 DEF RecordInv

\* The batch starts, lists the open views again, ends or dies.
LEMMA TurnKeepsInv ==
  ASSUME RecordInv, StartBatch \/ Relist \/ EndBatch \/ Crash
  PROVE  RecordInv' /\ UNCHANGED <<status, reading>>
<1>1. UNCHANGED <<day, closed, count, views, status, reading>>
  BY DEF StartBatch, Relist, EndBatch, Crash, clock, table
<1>2. \A w : TrueDay(w)' = TrueDay(w) /\ Replaced(w)' = Replaced(w)
  BY <1>1 DEF TrueDay, FirstDay, Replaced, Stored
<1>3. SUFFICES /\ batch' \in Batch /\ TodoOK' /\ ClosedDown(batch'.calendar)
               /\ batch'.pc = "closing" => \A v \in batch'.todo : Replaced(v)
  BY <1>1, <1>2 DEF RecordInv, TableOK, DuplicatesOK, DuplicatesAreReplaced, Replaced, Stored
<1>4. /\ \A v \in Open : v \in Ids /\ v \in Stored /\ status[v] = "open"
      /\ Open \subseteq Ids
  BY TrackRecordAssumption DEF RecordInv, TableOK, Open, Stored, Ids
<1>5. CASE StartBatch
  <2>1. PICK calendar \in {Traded, {}} :
           batch' = [pc |-> "supersede", listed |-> ListOpen, calendar |-> calendar,
                     masters |-> {}, todo |-> Contradicted(ListOpen), skipped |-> {}]
    BY <1>5 DEF StartBatch
  <2>2. Traded \subseteq TradingDays /\ ClosedDown(Traded) /\ ClosedDown({})
    <3>1. \A d \in TradingDays : d \in Nat
      BY TrackRecordAssumption
    <3>2. day \in Nat
      BY TrackRecordAssumption DEF RecordInv, TableOK, Days
    <3>3. QED
      BY <3>1, <3>2 DEF Traded, ClosedDown
  <2>3. Contradicted(ListOpen) \subseteq Open
    BY DEF Contradicted, ListOpen
  <2>4. QED
    BY <1>1, <1>4, <2>1, <2>2, <2>3 DEF Batch, TodoOK, ListOpen, Stored
<1>6. CASE Relist
  <2> DEFINE masters == Masters(Open, batch.calendar)
  <2>1. batch' = [batch EXCEPT !.pc = "closing", !.masters = masters, !.todo = Open \ masters]
    BY <1>6 DEF Relist, ListOpen
  <2>2. masters \subseteq Open
    BY DEF Masters
  <2>3. batch.calendar \in SUBSET TradingDays /\ ClosedDown(batch.calendar)
    BY DEF RecordInv, TableOK, Batch, DuplicatesOK
  <2>4. \A v \in Open \ masters : Replaced(v)
    BY <2>3, OthersAreReplaced DEF RecordInv
  <2> HIDE DEF masters
  <2>5. /\ batch' \in Batch /\ batch'.masters = masters /\ batch'.todo = Open \ masters
        /\ batch'.calendar = batch.calendar
    BY <1>4, <2>1, <2>2 DEF RecordInv, TableOK, Batch
  <2>6. TodoOK'
    BY <1>1, <1>4, <2>2, <2>5 DEF TodoOK, Stored
  <2>7. QED
    BY <2>3, <2>4, <2>5, <2>6
<1>7. CASE EndBatch \/ Crash
  <2>1. batch' = NotRunning
    BY <1>7 DEF EndBatch, Crash
  <2>2. QED
    BY <2>1 DEF NotRunning, Batch, TodoOK, ClosedDown
<1>8. QED
  BY <1>5, <1>6, <1>7

LEMMA DoneRemoves ==
  ASSUME RecordInv, NEW v \in batch.todo \cup batch.masters,
         batch.todo # {} => v \in batch.todo
  PROVE  /\ Done(v) \in Batch /\ Done(v).pc = batch.pc /\ Done(v).calendar = batch.calendar
         /\ Done(v).todo \subseteq batch.todo \ {v}
         /\ Done(v).masters \subseteq batch.masters \ {v}
         /\ [Done(v) EXCEPT !.skipped = @ \cup {v}] \in Batch
<1>1. v \in Ids /\ batch \in Batch
  BY DEF RecordInv, TableOK, Batch
<1>2. v \in batch.todo => v \notin batch.masters
  BY DEF RecordInv, TodoOK
<1>3. QED
  BY <1>1, <1>2 DEF Done, Batch

\* A view whose turn it is.
Turn(v) == Superseding(v) \/ Closing(v) \/ Judging(v)

LEMMA TurnIsWork ==
  ASSUME NEW v, Turn(v)
  PROVE  v \in batch.todo \cup batch.masters /\ (batch.todo # {} => v \in batch.todo)
BY DEF Turn, Superseding, Closing, Judging, First

LEMMA UpdateKeepsInv ==
  ASSUME RecordInv, NEW v \in Ids, Turn(v), NEW s \in Statuses, NEW r, Update(v, s, r),
         batch' = Done(v), UNCHANGED <<day, closed>>,
         s = "duplicate_of_day" => Closing(v)
  PROVE  RecordInv' /\ Settled
<1>1. v \in batch.todo \cup batch.masters /\ (batch.todo # {} => v \in batch.todo)
  BY TurnIsWork
<1>2. status'[v] = s
  BY DEF Update, RecordInv, TableOK
<1>3. status'[v] = "duplicate_of_day" => Replaced(v)
  BY <1>2 DEF Closing, First, RecordInv, DuplicatesOK
<1>4. UNCHANGED <<count, views>> /\ status' = [status EXCEPT ![v] = s]
      /\ reading' = [reading EXCEPT ![v] = r]
  BY DEF Update
<1>5. /\ batch' \in Batch /\ batch'.pc = batch.pc /\ batch'.calendar = batch.calendar
      /\ batch'.todo \subseteq batch.todo \ {v} /\ batch'.masters \subseteq batch.masters \ {v}
  BY <1>1, DoneRemoves
<1>6. QED
  BY <1>1, <1>3, <1>4, <1>5, WorkKeepsInv DEF Settled

LEMMA PassKeepsInv ==
  ASSUME RecordInv, NEW v \in Ids, Turn(v), UNCHANGED <<day, closed, table>>,
         batch' \in {Done(v), [Done(v) EXCEPT !.skipped = @ \cup {v}]}
  PROVE  RecordInv' /\ Settled
<1>1. v \in batch.todo \cup batch.masters /\ (batch.todo # {} => v \in batch.todo)
  BY TurnIsWork
<1>2. /\ batch' \in Batch /\ batch'.pc = batch.pc /\ batch'.calendar = batch.calendar
      /\ batch'.todo \subseteq batch.todo \ {v} /\ batch'.masters \subseteq batch.masters \ {v}
  <2>1. CASE batch' = Done(v)
    BY <1>1, <2>1, DoneRemoves
  <2>2. CASE batch' = [Done(v) EXCEPT !.skipped = @ \cup {v}]
    <3>1. batch' \in Batch
      BY <1>1, <2>2, DoneRemoves
    <3>2. /\ batch'.pc = Done(v).pc /\ batch'.calendar = Done(v).calendar
          /\ batch'.todo = Done(v).todo /\ batch'.masters = Done(v).masters
      BY <2>2
    <3>3. QED
      BY <1>1, <3>1, <3>2, DoneRemoves
  <2>3. QED
    BY <2>1, <2>2
<1>3. UNCHANGED <<count, views, status, reading>>
  BY DEF table
<1>4. QED
  BY <1>1, <1>2, <1>3, WorkKeepsInv DEF Settled

-----------------------------------------------------------------------------
LEMMA NextKeepsInv ==
  ASSUME RecordInv, Next
  PROVE  RecordInv' /\ Settled
<1>1. CASE Close \/ NextDay
  <2>1. day' \in Days /\ closed' \in BOOLEAN /\ UNCHANGED <<table, batch>>
    <3>1. CASE Close
      BY <3>1 DEF Close, RecordInv, TableOK
    <3>2. CASE NextDay
      <4>1. day' = day + 1 /\ day < LastDay /\ day \in Days
        BY <3>2 DEF NextDay, RecordInv, TableOK
      <4>2. QED
        <5>1. day + 1 \in Days
          BY <4>1, TrackRecordAssumption DEF Days
        <5>2. closed' = FALSE /\ UNCHANGED <<table, batch>>
          BY <3>2 DEF NextDay
        <5>3. QED
          BY <4>1, <5>1, <5>2
    <3>3. QED
      BY <1>1, <3>1, <3>2
  <2>2. QED
    BY <2>1, ClockKeepsInv DEF Settled, table
<1>2. ASSUME NEW s \in Symbols, NEW o \in Opinions, Insert(s, o)
      PROVE  RecordInv' /\ Settled
  <2>1. RecordInv' /\ \A v \in Stored : status'[v] = status[v] /\ reading'[v] = reading[v]
    BY <1>2, InsertKeepsInv
  <2>2. \A v \in Ids : status[v] # "none" => v \in Stored
    BY TrackRecordAssumption DEF RecordInv, TableOK, Stored, Ids
  <2>3. QED
    BY <2>1, <2>2 DEF Settled
<1>3. CASE StartBatch \/ Relist \/ EndBatch \/ Crash
  BY <1>3, TurnKeepsInv DEF Settled
<1>4. ASSUME NEW v \in Ids, Supersede(v) \/ Judge(v) \/ GiveUp(v) \/ CloseDuplicate(v)
      PROVE  RecordInv' /\ Settled
  <2>1. UNCHANGED <<day, closed>> /\ batch' = Done(v)
    BY <1>4 DEF Supersede, Judge, GiveUp, CloseDuplicate, clock
  <2>2. CASE Supersede(v)
    BY <2>1, <2>2, UpdateKeepsInv DEF Supersede, Turn, Statuses
  <2>3. CASE Judge(v)
    BY <2>1, <2>3, UpdateKeepsInv DEF Judge, Turn, Statuses
  <2>4. CASE GiveUp(v)
    BY <2>1, <2>4, UpdateKeepsInv DEF GiveUp, Turn, Statuses
  <2>5. CASE CloseDuplicate(v)
    BY <2>1, <2>5, UpdateKeepsInv DEF CloseDuplicate, Turn, Statuses
  <2>6. QED
    BY <1>4, <2>2, <2>3, <2>4, <2>5
<1>5. ASSUME NEW v \in Ids, SkipSupersede(v) \/ NotYet(v) \/ Fail(v)
      PROVE  RecordInv' /\ Settled
  <2>1. UNCHANGED <<day, closed, table>> /\ Turn(v)
    BY <1>5 DEF SkipSupersede, NotYet, Fail, clock, Turn
  <2>2. batch' \in {Done(v), [Done(v) EXCEPT !.skipped = @ \cup {v}]}
    BY <1>5 DEF SkipSupersede, NotYet, Fail
  <2>3. QED
    BY <2>1, <2>2, PassKeepsInv
<1>6. QED
  BY <1>1, <1>2, <1>3, <1>4, <1>5 DEF Next, BatchStep

LEMMA StutterKeepsInv ==
  ASSUME RecordInv, UNCHANGED vars
  PROVE  RecordInv' /\ Settled
<1>1. UNCHANGED <<table, batch, day, closed, status, reading>>
  BY DEF vars, table
<1>2. RecordInv'
  BY <1>1, ClockKeepsInv DEF RecordInv, TableOK
<1>3. QED
  BY <1>1, <1>2 DEF Settled

LEMMA RecordInvHolds == Spec => []RecordInv
<1>1. Init => RecordInv
  BY InitRecordInv
<1>2. RecordInv /\ [Next]_vars => RecordInv'
  BY NextKeepsInv, StutterKeepsInv
<1>3. QED
  BY <1>1, <1>2, PTL DEF Spec

\* update_prediction_status overwrites whatever it finds, and yet a view that
\* has left the state open never changes again.
THEOREM ViewsSettleOnce == Spec => SettledOnce
<1>1. RecordInv /\ [Next]_vars => [Settled]_vars
  BY NextKeepsInv
<1>2. QED
  BY <1>1, RecordInvHolds, PTL DEF Spec, SettledOnce

\* Every duplicate has a later view of its stock, made not after the day for
\* which the duplicate counts.
THEOREM DuplicatesHaveASuccessor == Spec => []DuplicatesAreReplaced
<1>1. RecordInv => DuplicatesAreReplaced
  BY DEF RecordInv, DuplicatesOK
<1>2. QED
  BY <1>1, RecordInvHolds, PTL
-----------------------------------------------------------------------------
(* The readings of the chain of changes.                                   *)

Latest(v, w) ==
    /\ w \in Stored /\ views[w].sym = views[v].sym
    /\ \A u \in Stored : views[u].sym = views[v].sym => u <= w

\* The list of the batch shows that v has been contradicted, and nothing was done about it.
Unread(v) ==
    /\ v \in Stored /\ status[v] = "open" /\ v \notin batch.skipped
    /\ views[v].opinion.direction # "neutral"
    /\ \E w \in batch.listed : Latest(v, w) /\ ShouldSupersede(v, w)

ReadInv ==
    /\ batch.listed \subseteq Stored
    /\ batch.pc # "idle" =>
           \A v \in Ids : Unread(v) => batch.pc = "supersede" /\ v \in batch.todo

LEMMA MaxIsGreatest ==
  ASSUME NEW S \in SUBSET Nat, NEW m \in S, \A x \in S : x <= m
  PROVE  Max(S) = m
<1>1. \A y \in S : m >= y
  OBVIOUS
<1>2. Max(S) \in S /\ \A y \in S : Max(S) >= y
  BY <1>1 DEF Max
<1>3. Max(S) >= m /\ Max(S) <= m /\ Max(S) \in Nat /\ m \in Nat
  BY <1>2
<1>4. QED
  BY <1>3

\* Finitely many views have a greatest one.
LEMMA HasGreatest ==
  ASSUME NEW n \in Nat, NEW S \in SUBSET (1 .. n), S # {}
  PROVE  \E m \in S : \A x \in S : x <= m
<1> DEFINE T == {n - x : x \in S}
<1>1. \A x \in S : x \in Nat /\ n - x \in Nat
  OBVIOUS
<1>2. T \in SUBSET Nat /\ T # {}
  BY <1>1
<1>3. Min(T) \in T /\ \A y \in T : Min(T) <= y
  BY <1>2, MinIsLeast
<1>4. PICK m \in S : Min(T) = n - m
  BY <1>3
<1>5. ASSUME NEW x \in S
      PROVE  x <= m
  <2>1. n - x \in T
    OBVIOUS
  <2>2. n - m <= n - x
    BY <1>3, <1>4, <2>1
  <2>3. QED
    BY <1>1, <2>2
<1>6. QED
  BY <1>5

\* The newest view of a stock is the newest of every list that holds it.
LEMMA NewestIsLatest ==
  ASSUME TableOK, NEW v, NEW w, Latest(v, w), NEW S \in SUBSET Stored, w \in S
  PROVE  Newest(S, v) = w
<1> DEFINE T == {u \in S : views[u].sym = views[v].sym}
<1>1. T \in SUBSET Nat /\ w \in T /\ \A u \in T : u <= w
  <2>1. count \in Nat
    BY TrackRecordAssumption DEF TableOK
  <2>2. Stored \subseteq Nat
    BY <2>1 DEF Stored
  <2>3. QED
    BY <2>2 DEF Latest
<1>2. Max(T) = w
  BY <1>1, MaxIsGreatest
<1>3. QED
  BY <1>2 DEF Newest

LEMMA LatestExists ==
  ASSUME TableOK, NEW v \in Stored
  PROVE  \E w : Latest(v, w)
<1> DEFINE T == {u \in Stored : views[u].sym = views[v].sym}
<1>1. count \in Nat /\ T \in SUBSET (1 .. count) /\ T # {}
  BY TrackRecordAssumption DEF TableOK, Stored
<1>2. PICK w \in T : \A x \in T : x <= w
  BY <1>1, HasGreatest
<1>3. QED
  BY <1>2 DEF Latest

LEMMA StartReads ==
  ASSUME RecordInv, StartBatch
  PROVE  ReadInv'
<1>1. PICK calendar \in {Traded, {}} :
         batch' = [pc |-> "supersede", listed |-> Open, calendar |-> calendar,
                   masters |-> {}, todo |-> Contradicted(Open), skipped |-> {}]
  BY DEF StartBatch, ListOpen
<1>2. UNCHANGED <<count, views, status>>
  BY DEF StartBatch, table
<1>3. ASSUME NEW v \in Ids, Unread(v)'
      PROVE  v \in Contradicted(Open)
  <2>1. PICK w \in Open : Latest(v, w) /\ ShouldSupersede(v, w)
    BY <1>1, <1>2, <1>3 DEF Unread, Latest, Stored, ShouldSupersede
  <2>2. v \in Open /\ views[v].opinion.direction # "neutral"
    BY <1>2, <1>3 DEF Unread, Stored, Open
  <2>3. Newest(Open, v) = w
    BY <2>1, NewestIsLatest DEF RecordInv, Open
  <2>4. v # w
    BY <2>1 DEF ShouldSupersede
  <2>5. QED
    BY <2>1, <2>2, <2>3, <2>4 DEF Contradicted
<1>4. QED
  BY <1>1, <1>2, <1>3 DEF ReadInv, Open, Stored

LEMMA InsertReads ==
  ASSUME RecordInv, ReadInv, NEW s \in Symbols, NEW o \in Opinions, Insert(s, o)
  PROVE  ReadInv'
<1> DEFINE n == count + 1
<1>1. /\ n \in Ids /\ count \in Nat /\ n \notin Stored /\ Stored' = Stored \cup {n}
      /\ \A u \in Stored : u \in Ids /\ u < n
      /\ batch' = batch
  BY TrackRecordAssumption DEF RecordInv, TableOK, Insert, Ids, Stored
<1>2. \A v \in Stored : views'[v] = views[v] /\ status'[v] = status[v]
  BY <1>1 DEF Insert, RecordInv, TableOK
<1>3. ASSUME NEW v \in Ids, Unread(v)'
      PROVE  Unread(v)
  <2>1. PICK w \in batch.listed : Latest(v, w)' /\ ShouldSupersede(v, w)'
    BY <1>1, <1>3 DEF Unread
  <2>2. w \in Stored /\ w < n /\ n \in Stored'
    BY <1>1 DEF ReadInv
  <2>3. views'[w].sym = views'[v].sym /\ \A u \in Stored' : views'[u].sym = views'[v].sym => u <= w
    BY <2>1 DEF Latest
  <2>4. v # n
    <3>1. v = n => n <= w
      BY <2>2, <2>3
    <3>2. QED
      BY <1>1, <2>2, <3>1 DEF Stored
  <2>5. v \in Stored
    BY <1>1, <1>3, <2>4 DEF Unread
  <2>6. Latest(v, w) /\ ShouldSupersede(v, w)
    BY <1>1, <1>2, <2>1, <2>2, <2>3, <2>5 DEF Latest, ShouldSupersede
  <2>7. QED
    BY <1>1, <1>2, <1>3, <2>5, <2>6 DEF Unread
<1>4. QED
  BY <1>1, <1>3 DEF ReadInv

\* What the batch writes or passes over leaves nothing unread that it has not in its list.
LEMMA WorkReads ==
  ASSUME RecordInv, ReadInv, NEW v \in Ids, Turn(v), UNCHANGED <<count, views>>,
         \A w \in Ids : status'[w] = "open" => status[w] = "open",
         \/ batch' = Done(v) /\ (batch.pc = "supersede" => status'[v] # "open")
         \/ batch' = [Done(v) EXCEPT !.skipped = @ \cup {v}]
  PROVE  ReadInv'
<1>1. /\ Done(v) \in Batch /\ Done(v).pc = batch.pc /\ Done(v).listed = batch.listed
      /\ Done(v).todo = batch.todo \ {v} /\ Done(v).skipped = batch.skipped
  BY DEF RecordInv, TableOK, Batch, Done
<1>2. /\ batch'.pc = batch.pc /\ batch'.listed = batch.listed
      /\ batch'.todo = batch.todo \ {v} /\ batch.skipped \subseteq batch'.skipped
      /\ v \in batch'.skipped \/ (batch.pc = "supersede" => status'[v] # "open")
  <2>1. CASE batch' = Done(v) /\ (batch.pc = "supersede" => status'[v] # "open")
    BY <1>1, <2>1
  <2>2. CASE batch' = [Done(v) EXCEPT !.skipped = @ \cup {v}]
    BY <1>1, <2>2 DEF Batch
  <2>3. QED
    BY <2>1, <2>2
<1>3. ASSUME NEW w \in Ids, Unread(w)'
      PROVE  Unread(w)
  BY <1>2, <1>3 DEF Unread, Latest, Stored, ShouldSupersede
<1>4. ASSUME Unread(v)', batch.pc = "supersede"
      PROVE  FALSE
  <2>1. v \notin batch'.skipped /\ status'[v] = "open"
    BY <1>4 DEF Unread
  <2>2. QED
    BY <1>2, <1>4, <2>1
<1>5. batch.pc # "idle"
  BY DEF Turn, Superseding, Closing, Judging
<1>6. QED
  BY <1>2, <1>3, <1>4, <1>5 DEF ReadInv, Stored

LEMMA TurnReads ==
  ASSUME RecordInv, ReadInv, Relist \/ EndBatch \/ Crash
  PROVE  ReadInv'
<1>1. UNCHANGED <<count, views, status>>
  BY DEF Relist, EndBatch, Crash, table
<1>2. CASE EndBatch \/ Crash
  BY <1>2 DEF EndBatch, Crash, NotRunning, ReadInv
<1>3. CASE Relist
  <2>1. /\ batch.pc = "supersede" /\ batch.todo = {}
        /\ batch'.pc = "closing" /\ batch'.listed = batch.listed
        /\ batch'.skipped = batch.skipped
    BY <1>3 DEF Relist, RecordInv, TableOK, Batch
  <2>2. \A v \in Ids : Unread(v)' => Unread(v)
    BY <1>1, <2>1 DEF Unread, Latest, Stored, ShouldSupersede
  <2>3. QED
    BY <1>1, <2>1, <2>2 DEF ReadInv, Stored
<1>4. QED
  BY <1>2, <1>3

LEMMA NextReads ==
  ASSUME RecordInv, ReadInv, [Next]_vars
  PROVE  ReadInv'
<1>1. ASSUME UNCHANGED <<table, batch>>
      PROVE  ReadInv'
  BY <1>1 DEF table, ReadInv, Unread, Latest, Stored, ShouldSupersede
<1>2. CASE Close \/ NextDay \/ UNCHANGED vars
  BY <1>1, <1>2 DEF Close, NextDay, vars, table
<1>3. ASSUME NEW v \in Ids, Supersede(v) \/ Judge(v) \/ GiveUp(v) \/ CloseDuplicate(v)
      PROVE  ReadInv'
  <2>1. /\ UNCHANGED <<count, views>> /\ batch' = Done(v) /\ Turn(v)
        /\ \E s \in Statuses \ {"open"} : status' = [status EXCEPT ![v] = s]
    BY <1>3 DEF Supersede, Judge, GiveUp, CloseDuplicate, Update, Turn, Statuses
  <2>2. /\ \A w \in Ids : status'[w] = "open" => status[w] = "open"
        /\ status'[v] # "open"
    BY <2>1 DEF RecordInv, TableOK
  <2>3. QED
    BY <2>1, <2>2, WorkReads
<1>4. ASSUME NEW v \in Ids, SkipSupersede(v) \/ NotYet(v) \/ Fail(v)
      PROVE  ReadInv'
  <2>1. UNCHANGED <<count, views, status>> /\ Turn(v)
    BY <1>4 DEF SkipSupersede, NotYet, Fail, table, Turn
  <2>2. \/ batch' = Done(v) /\ batch.pc = "closing"
        \/ batch' = [Done(v) EXCEPT !.skipped = @ \cup {v}]
    BY <1>4 DEF SkipSupersede, NotYet, Fail, Closing, Judging
  <2>3. QED
    BY <2>1, <2>2, WorkReads
<1>5. CASE Next
  BY <1>2, <1>3, <1>4, <1>5, StartReads, InsertReads, TurnReads DEF Next, BatchStep
<1>6. QED
  BY <1>2, <1>5

\* A view that the newest one of the list contradicts is not closed as a duplicate:
\* the list of changes is worked off before duplicates are looked for, and what is
\* left of it was skipped.
THEOREM ChangesAreRead == Spec => ChangesAreReadFirst
<1> DEFINE A == \A v \in Ids :
                  /\ status[v] = "open" /\ status'[v] = "duplicate_of_day"
                  /\ v \notin batch.skipped
                  => \A w \in Stored : w = Newest(Stored, v) /\ w \in batch.listed =>
                         views[v].opinion.direction = "neutral" \/ ~ShouldSupersede(v, w)
<1>1. Init => ReadInv
  BY DEF Init, ReadInv, NotRunning
<1>2. RecordInv /\ ReadInv /\ [Next]_vars => ReadInv'
  BY NextReads
<1>3. ASSUME RecordInv, ReadInv, Next
      PROVE  A
  <2> SUFFICES ASSUME NEW v \in Ids, status[v] = "open", status'[v] = "duplicate_of_day",
                      v \notin batch.skipped,
                      NEW w \in Stored, w = Newest(Stored, v), w \in batch.listed,
                      views[v].opinion.direction # "neutral", ShouldSupersede(v, w)
               PROVE  FALSE
    OBVIOUS
  <2>1. v \in Stored
    BY <1>3, TrackRecordAssumption DEF RecordInv, TableOK, Ids, Stored
  <2>2. Latest(v, w)
    <3>1. PICK u : Latest(v, u)
      BY <1>3, <2>1, LatestExists DEF RecordInv
    <3>2. u = Newest(Stored, v)
      BY <1>3, <3>1, NewestIsLatest DEF RecordInv, Latest
    <3>3. QED
      BY <3>1, <3>2
  <2>3. Unread(v)
    BY <2>1, <2>2 DEF Unread
  <2>4. \E u \in Ids : Closing(u)
    <3>1. status' # status
      OBVIOUS
    <3>2. ASSUME NEW u \in Ids, Supersede(u) \/ Judge(u) \/ GiveUp(u)
          PROVE  FALSE
      BY <1>3, <3>2 DEF Supersede, Judge, GiveUp, Update, RecordInv, TableOK
    <3>3. ASSUME NEW s \in Symbols, NEW o \in Opinions, Insert(s, o)
          PROVE  FALSE
      BY <1>3, <3>3 DEF Insert, RecordInv, TableOK
    <3>4. QED
      BY <1>3, <3>1, <3>2, <3>3
         DEF Next, BatchStep, Close, NextDay, StartBatch, Relist, EndBatch, Crash, Fail,
             SkipSupersede, NotYet, CloseDuplicate, table
  <2>5. QED
    BY <1>3, <2>3, <2>4 DEF ReadInv, Closing
<1>4. ASSUME RecordInv, ReadInv, [Next]_vars
      PROVE  [A]_vars
  BY <1>3, <1>4
<1>5. QED
  BY <1>1, <1>2, <1>4, RecordInvHolds, PTL DEF Spec, ChangesAreReadFirst
-----------------------------------------------------------------------------
(* One judged view for a stock and a day.                                  *)

\* Judged at its horizon by a batch that had the index.
Benched(v) == Judged(v) /\ reading[v].bench

Orphaned(v, w) == {v, w} \cap orphans # {}

\* A batch that has the index has all days before today, and today after the close only.
ClockOK ==
    /\ \A s \in Symbols : rows[s] \subseteq {0} \cup {d \in TradingDays : d <= day}
    /\ \A d \in batch.calendar : d < day \/ (d = day /\ closed)
    /\ batch.calendar # {} => \A d \in TradingDays : d < day => d \in batch.calendar
    /\ batch.pc = "idle" => batch.calendar = {}

NoneReadYet == \A v \in Ids : status[v] \in {"none", "open"} => reading[v] = NoReading

\* A judged view has no open view of its day beside it, and its day is over.
JudgedAlone ==
    \A v \in Stored : Benched(v) =>
        /\ TrueDay(v) < day
        /\ \A w \in Stored : v # w /\ SameDay(v, w) =>
               Orphaned(v, w) \/ (status[w] # "open" /\ ~Benched(w))

\* What stands beside a master is settled, left behind, or still to be closed.
MasterOK ==
    batch.pc = "closing" =>
        \A v \in batch.masters, w \in Stored :
            /\ v # w /\ views[v].sym = views[w].sym
            /\ FirstDay(v, batch.calendar) = FirstDay(w, batch.calendar)
            /\ FirstDay(v, batch.calendar) # 0
            => w \in orphans \/ status[w] # "open" \/ w \in batch.todo

OneInv == ClockOK /\ NoneReadYet /\ JudgedAlone /\ MasterOK

\* A view that is judged counts for a day that is over and that the batch knows, and
\* so does every other view of its day.
LEMMA JudgedDayIsKnown ==
  ASSUME TableOK, ClockOK, NEW v \in Stored, ExitDay(v) # 0, batch.calendar # {}
  PROVE  /\ TrueDay(v) < day
         /\ FirstDay(v, batch.calendar) = TrueDay(v)
         /\ FirstDay(v, batch.calendar) # 0
         /\ \A w \in Stored : SameDay(v, w) => FirstDay(w, batch.calendar) = TrueDay(v)
<1> DEFINE Eligible(w, S) ==
             {d \in S : d > views[w].day \/ (d = views[w].day /\ ~views[w].late)}
           C == batch.calendar
           R == rows[views[v].sym]
<1>1. /\ v \in Ids /\ \A w \in Stored : w \in Ids
      /\ C \in SUBSET TradingDays /\ C \in SUBSET Nat /\ TradingDays \in SUBSET Nat
      /\ TradingDays \subseteq 1 .. LastDay /\ LastDay \in Nat
      /\ day \in 1 .. LastDay
      /\ \A w \in Ids : views[w].day \in 1 .. LastDay /\ views[w].sym \in Symbols
  BY CalendarIsNat, TrackRecordAssumption DEF TableOK, Batch, Ids, Stored, Days, View
<1>2. R \subseteq {0} \cup {d \in TradingDays : d <= day} /\ R \in SUBSET Nat
  <2>1. views[v].sym \in Symbols
    BY <1>1
  <2>2. R \subseteq {0} \cup {d \in TradingDays : d <= day}
    BY <2>1 DEF ClockOK
  <2> HIDE DEF R
  <2>3. \A d \in TradingDays : d \in Nat
    BY <1>1
  <2>4. \A d \in R : d \in Nat
    BY <2>2, <2>3
  <2>5. QED
    BY <2>2, <2>4
<1>3. PICK x \in R : x > EntryDay(v)
  <2>1. EntryDay(v) # 0 /\ ~(Cardinality({d \in R : d > EntryDay(v)}) < Horizon)
    BY DEF ExitDay
  <2>2. {d \in R : d > EntryDay(v)} # {}
    <3>1. Cardinality({}) = 0 /\ 0 < Horizon
      BY FS_EmptySet, TrackRecordAssumption
    <3>2. QED
      BY <2>1, <3>1
  <2>3. QED
    BY <2>2
<1>4. EntryDay(v) \in Eligible(v, R)
  <2>1. EntryDay(v) # 0
    BY DEF ExitDay
  <2>2. EntryDay(v) = FirstDay(v, R)
    BY DEF EntryDay
  <2>3. QED
    BY <1>1, <1>2, <2>1, <2>2, FirstDayIsFirst
<1>5. /\ EntryDay(v) \in TradingDays /\ EntryDay(v) < day /\ EntryDay(v) \in C
      /\ EntryDay(v) \in Eligible(v, TradingDays) /\ EntryDay(v) \in Eligible(v, C)
  <2> DEFINE e == EntryDay(v)
  <2>1. e \in R /\ (e > views[v].day \/ e = views[v].day) /\ views[v].day \in Nat \ {0}
    BY <1>1, <1>4
  <2> HIDE DEF e
  <2>2. e # 0 /\ e \in TradingDays
    BY <1>2, <2>1
  <2>3. x > e /\ x <= day
    BY <1>2, <1>3, <2>1 DEF e
  <2>4. e < day
    BY <1>1, <1>2, <2>1, <2>3
  <2>5. e \in C
    BY <2>2, <2>4 DEF ClockOK
  <2> USE DEF e
  <2>6. QED
    BY <1>4, <2>2, <2>4, <2>5
<1> DEFINE f == FirstDay(v, TradingDays)
<1>6. /\ f \in Eligible(v, TradingDays) /\ f <= EntryDay(v)
      /\ \A d \in Eligible(v, TradingDays) : f <= d
  BY <1>1, <1>5, FirstDayIsFirst
<1>7. f \in TradingDays /\ f \in Nat \ {0} /\ f < day /\ f \in C
  <2>1. f \in TradingDays /\ EntryDay(v) \in Nat
    BY <1>1, <1>5, <1>6
  <2>2. f <= EntryDay(v) /\ EntryDay(v) < day
    BY <1>5, <1>6
  <2> HIDE DEF f
  <2>3. f \in Nat \ {0} /\ f < day
    BY <1>1, <2>1, <2>2
  <2>4. QED
    BY <2>1, <2>3, <1>5 DEF ClockOK
<1>8. TrueDay(v) = f
  BY <1>7 DEF TrueDay
\* The day is the first that counts, for any view for which it counts at all.
<1>9. ASSUME NEW w \in Ids, FirstDay(w, TradingDays) = f
      PROVE  FirstDay(w, C) = f
  <2>1. f \in Eligible(w, TradingDays) /\ \A d \in Eligible(w, TradingDays) : f <= d
    BY <1>1, <1>7, <1>9, FirstDayIsFirst
  <2>2. f \in Eligible(w, C)
    BY <1>7, <2>1
  <2>3. FirstDay(w, C) \in Eligible(w, C) /\ FirstDay(w, C) <= f
    BY <1>1, <2>2, FirstDayIsFirst
  <2>4. FirstDay(w, C) \in Eligible(w, TradingDays) /\ FirstDay(w, C) \in Nat
    BY <1>1, <2>3
  <2>5. QED
    BY <1>7, <2>1, <2>3, <2>4
<1>10. ASSUME NEW w \in Stored, SameDay(v, w)
       PROVE  FirstDay(w, TradingDays) = f
  <2>1. TrueDay(w) = f /\ f < LastDay
    BY <1>1, <1>7, <1>8, <1>10 DEF SameDay
  <2>2. f \in Nat /\ LastDay \in Nat
    BY <1>1, <1>7
  <2> HIDE DEF f
  <2>3. QED
    BY <2>1, <2>2 DEF TrueDay
<1>11. QED
  BY <1>1, <1>7, <1>8, <1>9, <1>10

\* The clock and the market move on.
LEMMA ClockKeepsOne ==
  ASSUME RecordInv, OneInv, UNCHANGED <<table, batch, orphans>>,
         day' \in Nat, day' >= day, ClockOK'
  PROVE  OneInv'
<1>1. UNCHANGED <<count, views, status, reading>>
  BY DEF table
<1>2. /\ \A v, S : FirstDay(v, S)' = FirstDay(v, S)
      /\ \A v : TrueDay(v)' = TrueDay(v)
      /\ \A v, w : SameDay(v, w)' = SameDay(v, w) /\ Benched(v)' = Benched(v)
  BY <1>1 DEF FirstDay, TrueDay, SameDay, Benched, Judged
<1>3. NoneReadYet'
  BY <1>1 DEF OneInv, NoneReadYet
<1>4. JudgedAlone'
  <2>1. ASSUME NEW v \in Stored, Benched(v)
        PROVE  TrueDay(v) < day'
    <3>1. v \in Ids /\ day \in Nat
      BY TrackRecordAssumption DEF RecordInv, TableOK, Stored, Ids, Days
    <3>2. TrueDay(v) \in Nat
      BY <3>1, AttributionBounds DEF RecordInv, DuplicatesOK, TableOK, Batch
    <3>3. TrueDay(v) < day
      BY <2>1 DEF OneInv, JudgedAlone
    <3>4. QED
      BY <3>1, <3>2, <3>3
  <2>2. QED
    BY <1>1, <1>2, <2>1 DEF OneInv, JudgedAlone, Orphaned, Stored
<1>5. MasterOK'
  BY <1>1, <1>2 DEF OneInv, MasterOK, Stored
<1>6. QED
  BY <1>3, <1>4, <1>5 DEF OneInv

\* A new view counts for no day that is over, and for none that a batch knows.
LEMMA InsertKeepsOne ==
  ASSUME RecordInv, OneInv, NEW s \in Symbols, NEW o \in Opinions, Insert(s, o)
  PROVE  OneInv'
<1>0. PICK n : n = count + 1
  OBVIOUS
<1>1. /\ n \in Ids /\ n \notin Stored /\ Stored' = Stored \cup {n}
      /\ \A v \in Stored : v \in Ids
      /\ n > count /\ status[n] = "none" /\ reading[n] = NoReading
  BY <1>0, TrackRecordAssumption DEF RecordInv, TableOK, Insert, Ids, Stored, OneInv, NoneReadYet
<1>2. /\ \A v \in Stored : views'[v] = views[v] /\ status'[v] = status[v]
      /\ views'[n].day = day /\ views'[n].late = closed /\ status'[n] = "open"
      /\ \A v \in Ids : v # n => status'[v] = status[v]
      /\ UNCHANGED <<reading, batch, orphans, day, closed, rows>>
  BY <1>0, <1>1 DEF Insert, RecordInv, TableOK, clock
<1>3. day \in Days /\ LastDay \in Nat /\ TradingDays \in SUBSET Nat
  BY CalendarIsNat, TrackRecordAssumption DEF RecordInv, TableOK
<1>4. TrueDay(n)' >= day /\ TrueDay(n)' \in Nat
  <2> DEFINE eligible == {d \in TradingDays : d > day \/ (d = day /\ ~closed)}
  <2>1. FirstDay(n, TradingDays)' = IF eligible = {} THEN 0 ELSE Min(eligible)
    BY <1>2 DEF FirstDay
  <2>2. CASE eligible = {}
    BY <1>3, <2>1, <2>2 DEF TrueDay, Days
  <2>3. CASE eligible # {}
    <3>1. eligible \in SUBSET Nat
      BY <1>3
    <3>2. Min(eligible) \in eligible
      BY <2>3, <3>1, MinIsLeast
    <3>3. Min(eligible) \in Nat /\ Min(eligible) >= day
      BY <1>3, <3>1, <3>2 DEF Days
    <3>4. Min(eligible) # 0
      BY <1>3, <3>3 DEF Days
    <3>5. QED
      BY <2>1, <2>3, <3>3, <3>4 DEF TrueDay
  <2>4. QED
    BY <2>2, <2>3
<1>5. FirstDay(n, batch.calendar)' = 0
  <2>1. {d \in batch.calendar : d > day \/ (d = day /\ ~closed)} = {}
    <3>1. \A d \in batch.calendar : d \in Nat
      BY CalendarIsNat DEF RecordInv, TableOK, Batch
    <3>2. QED
      BY <1>3, <3>1 DEF OneInv, ClockOK, Days
  <2>2. QED
    BY <1>2, <2>1 DEF FirstDay
<1>6. /\ \A v \in Stored : TrueDay(v)' = TrueDay(v) /\ Benched(v)' = Benched(v)
      /\ \A v \in Stored : FirstDay(v, batch.calendar)' = FirstDay(v, batch.calendar)
      /\ \A v, w \in Stored : SameDay(v, w)' = SameDay(v, w)
  <2>1. ASSUME NEW v \in Stored
        PROVE  FirstDay(v, TradingDays)' = FirstDay(v, TradingDays)
    BY <1>2 DEF FirstDay
  <2>2. ASSUME NEW v \in Stored
        PROVE  FirstDay(v, batch.calendar)' = FirstDay(v, batch.calendar)
    BY <1>2 DEF FirstDay
  <2>3. ASSUME NEW v \in Stored
        PROVE  TrueDay(v)' = TrueDay(v)
    BY <2>1 DEF TrueDay
  <2>4. ASSUME NEW v \in Stored
        PROVE  Benched(v)' = Benched(v)
    BY <1>2 DEF Benched, Judged
  <2>5. QED
    BY <1>2, <2>2, <2>3, <2>4 DEF SameDay
<1>7. ~Benched(n)'
  BY <1>1, <1>2 DEF Benched, Judged, NoReading
<1>8. ClockOK'
  BY <1>2 DEF OneInv, ClockOK
<1>9. NoneReadYet'
  BY <1>1, <1>2 DEF OneInv, NoneReadYet
<1>10. JudgedAlone'
  <2>1. ASSUME NEW v \in Stored', Benched(v)'
        PROVE  v \in Stored /\ TrueDay(v)' < day'
    BY <1>1, <1>2, <1>6, <1>7, <2>1 DEF OneInv, JudgedAlone
  <2>2. ASSUME NEW v \in Stored, Benched(v)'
        PROVE  ~SameDay(v, n)'
    <3>1. TrueDay(v) < day /\ TrueDay(v)' = TrueDay(v)
      BY <1>6, <2>2 DEF OneInv, JudgedAlone
    <3>2. TrueDay(v) \in Nat
      BY <1>1, AttributionBounds DEF RecordInv, DuplicatesOK, TableOK, Batch
    <3>3. TrueDay(v)' # TrueDay(n)'
      BY <1>3, <1>4, <3>1, <3>2 DEF Days
    <3>4. QED
      BY <3>3 DEF SameDay
  <2>3. ASSUME NEW v \in Stored, NEW w \in Stored, Benched(v)', v # w, SameDay(v, w)'
        PROVE  Orphaned(v, w)' \/ (status'[w] # "open" /\ ~Benched(w)')
    BY <1>2, <1>6, <2>3 DEF OneInv, JudgedAlone, Orphaned
  <2>4. QED
    BY <1>1, <2>1, <2>2, <2>3 DEF JudgedAlone
<1>11. MasterOK'
  <2>1. ASSUME batch.pc = "closing", NEW v \in batch.masters, NEW w \in Stored', v # w,
               views'[v].sym = views'[w].sym,
               FirstDay(v, batch.calendar)' = FirstDay(w, batch.calendar)',
               FirstDay(v, batch.calendar)' # 0
        PROVE  w \in orphans \/ status'[w] # "open" \/ w \in batch.todo
    <3>1. w \in Stored
      BY <1>1, <1>5, <2>1
    <3>2. v \in Stored
      BY DEF RecordInv, TodoOK
    <3>3. QED
      BY <1>2, <1>6, <2>1, <3>1, <3>2 DEF OneInv, MasterOK
  <2>2. QED
    BY <1>2, <2>1 DEF MasterOK
<1>12. QED
  BY <1>8, <1>9, <1>10, <1>11 DEF OneInv

\* The batch starts, lists again, ends or dies.
LEMMA TurnKeepsOne ==
  ASSUME RecordInv, OneInv, StartBatch \/ Relist \/ EndBatch \/ Crash
  PROVE  OneInv'
<1>1. UNCHANGED <<day, closed, rows, count, views, status, reading, orphans>>
  BY DEF StartBatch, Relist, EndBatch, Crash, clock, table
<1>2. /\ \A v, S : FirstDay(v, S)' = FirstDay(v, S)
      /\ \A v : TrueDay(v)' = TrueDay(v)
      /\ \A v, w : SameDay(v, w)' = SameDay(v, w) /\ Benched(v)' = Benched(v)
  BY <1>1 DEF FirstDay, TrueDay, SameDay, Benched, Judged
<1>3. NoneReadYet' /\ JudgedAlone'
  BY <1>1, <1>2 DEF OneInv, NoneReadYet, JudgedAlone, Orphaned, Stored
<1>4. CASE StartBatch
  <2>1. PICK calendar \in {Traded, {}} :
           batch' = [pc |-> "supersede", listed |-> ListOpen, calendar |-> calendar,
                     masters |-> {}, todo |-> Contradicted(ListOpen), skipped |-> {}]
    BY <1>4 DEF StartBatch
  <2>2. /\ \A d \in Traded : d < day \/ (d = day /\ closed)
        /\ \A d \in TradingDays : d < day => d \in Traded
    BY DEF Traded
  <2>3. ClockOK'
    BY <1>1, <2>1, <2>2 DEF OneInv, ClockOK
  <2>4. MasterOK'
    BY <2>1 DEF MasterOK
  <2>5. QED
    BY <1>3, <2>3, <2>4 DEF OneInv
<1>5. CASE Relist
  <2> DEFINE masters == Masters(Open, batch.calendar)
  <2>1. batch' = [batch EXCEPT !.pc = "closing", !.masters = masters, !.todo = Open \ masters]
    BY <1>5 DEF Relist, ListOpen
  <2> HIDE DEF masters
  <2>2. /\ batch'.pc = "closing" /\ batch'.masters = masters /\ batch'.todo = Open \ masters
        /\ batch'.calendar = batch.calendar
    BY <2>1 DEF RecordInv, TableOK, Batch
  <2>3. ASSUME NEW v \in masters, NEW w \in Stored, v # w, views[v].sym = views[w].sym,
               FirstDay(v, batch.calendar) = FirstDay(w, batch.calendar),
               FirstDay(v, batch.calendar) # 0, status[w] = "open"
        PROVE  w \in Open \ masters
    <3>1. v \in Open /\ w \in Open
      BY <2>3 DEF masters, Masters, Open
    <3>2. AttributionDay(v, batch.calendar) = AttributionDay(w, batch.calendar)
      BY <2>3 DEF AttributionDay
    <3>3. w <= v
      BY <2>3, <3>1, <3>2 DEF masters, Masters
    <3>4. w \in masters => v <= w
      BY <2>3, <3>1, <3>2 DEF masters, Masters
    <3>5. v \in Nat /\ w \in Nat
      BY <3>1, TrackRecordAssumption DEF Open, Stored, RecordInv, TableOK
    <3>6. QED
      BY <2>3, <3>1, <3>3, <3>4, <3>5
  <2>4. MasterOK'
    BY <1>1, <1>2, <2>2, <2>3 DEF MasterOK, Stored
  <2>5. ClockOK'
    BY <1>1, <1>5, <2>2 DEF OneInv, ClockOK, Relist
  <2>6. QED
    BY <1>3, <2>4, <2>5 DEF OneInv
<1>6. CASE EndBatch \/ Crash
  <2>1. batch' = NotRunning
    BY <1>6 DEF EndBatch, Crash
  <2>2. ClockOK' /\ MasterOK'
    BY <1>1, <2>1 DEF OneInv, ClockOK, MasterOK, NotRunning
  <2>3. QED
    BY <1>3, <2>2 DEF OneInv
<1>7. QED
  BY <1>4, <1>5, <1>6

\* A view whose turn it is, is written or passed over.
LEMMA WorkKeepsOne ==
  ASSUME RecordInv, OneInv, NEW v \in Ids, Turn(v), UNCHANGED <<day, closed, rows, count, views>>,
         batch' \in {Done(v), [Done(v) EXCEPT !.skipped = @ \cup {v}]},
         orphans \subseteq orphans',
         \/ /\ UNCHANGED <<status, reading>>
            /\ Closing(v) => v \in orphans'
         \/ \E s \in Statuses \ {"open"} : \E r :
               /\ status' = [status EXCEPT ![v] = s]
               /\ reading' = [reading EXCEPT ![v] = r]
               /\ r.rule = "expiry" /\ r.bench =>
                      Judging(v) /\ ExitDay(v) # 0 /\ batch.calendar # {}
  PROVE  OneInv'
<1>1. v \in batch.todo \cup batch.masters /\ (batch.todo # {} => v \in batch.todo)
  BY TurnIsWork
<1>2. /\ v \in Stored /\ status[v] = "open"
      /\ \A w \in Stored : w \in Ids
  BY <1>1, TrackRecordAssumption DEF RecordInv, TodoOK, TableOK, Stored, Ids
<1>3. /\ batch'.pc = batch.pc /\ batch'.calendar = batch.calendar
      /\ batch'.todo = batch.todo \ {v} /\ batch'.masters \subseteq batch.masters
  <2>1. batch \in Batch
    BY DEF RecordInv, TableOK
  <2>2. /\ Done(v).pc = batch.pc /\ Done(v).calendar = batch.calendar
        /\ Done(v).todo = batch.todo \ {v} /\ Done(v).masters \subseteq batch.masters
    BY <2>1 DEF Done, Batch
  <2>3. Done(v) \in Batch
    BY <1>1, DoneRemoves
  <2>4. LET d == [Done(v) EXCEPT !.skipped = @ \cup {v}]
        IN  d.pc = Done(v).pc /\ d.calendar = Done(v).calendar /\ d.todo = Done(v).todo /\ d.masters = Done(v).masters
    BY <2>3 DEF Batch
  <2>5. QED
    BY <2>2, <2>4
<1>4. /\ \A w, S : FirstDay(w, S)' = FirstDay(w, S)
      /\ \A w : TrueDay(w)' = TrueDay(w)
      /\ \A w, u : SameDay(w, u)' = SameDay(w, u)
      /\ Stored' = Stored
  BY DEF FirstDay, TrueDay, SameDay, Stored
<1>5. /\ \A w \in Ids : w # v => status'[w] = status[w] /\ reading'[w] = reading[w]
      /\ status'[v] \in Statuses
      /\ \A w \in Ids : status'[w] = "open" => status[w] = "open"
      /\ status'[v] = "open" => (Closing(v) => v \in orphans')
  BY <1>2 DEF RecordInv, TableOK, Statuses
<1>6. \A w \in Ids : w # v => Benched(w)' = Benched(w)
  BY <1>5 DEF Benched, Judged
<1>7. ~Benched(v)
  BY <1>2 DEF Benched, Judged, NoReading, OneInv, NoneReadYet
<1>8. Benched(v)' => Judging(v) /\ ExitDay(v) # 0 /\ batch.calendar # {}
  <2>1. CASE UNCHANGED <<status, reading>>
    BY <1>7, <2>1 DEF Benched, Judged
  <2>2. CASE ~UNCHANGED <<status, reading>>
    <3>1. PICK s, r :
             /\ status' = [status EXCEPT ![v] = s]
             /\ reading' = [reading EXCEPT ![v] = r]
             /\ r.rule = "expiry" /\ r.bench =>
                    Judging(v) /\ ExitDay(v) # 0 /\ batch.calendar # {}
      BY <2>2
    <3>2. reading'[v] = r
      BY <3>1 DEF RecordInv, TableOK
    <3>3. QED
      BY <3>1, <3>2 DEF Benched, Judged
  <2>3. QED
    BY <2>1, <2>2
<1>9. ClockOK'
  BY <1>3 DEF OneInv, ClockOK
<1>10. NoneReadYet'
  <2>1. CASE UNCHANGED <<status, reading>>
    BY <2>1 DEF OneInv, NoneReadYet
  <2>2. CASE ~UNCHANGED <<status, reading>>
    <3>1. status'[v] \notin {"none", "open"}
      BY <2>2 DEF RecordInv, TableOK, Statuses
    <3>2. QED
      BY <1>5, <3>1 DEF OneInv, NoneReadYet
  <2>3. QED
    BY <2>1, <2>2
<1>11. MasterOK'
  <2>1. ASSUME batch.pc = "closing", NEW u \in batch'.masters, NEW w \in Stored, u # w,
               views[u].sym = views[w].sym,
               FirstDay(u, batch.calendar) = FirstDay(w, batch.calendar),
               FirstDay(u, batch.calendar) # 0, w \notin orphans', status'[w] = "open"
        PROVE  w \in batch'.todo
    <3>1. w \in batch.todo
      BY <1>2, <1>3, <1>5, <2>1 DEF OneInv, MasterOK
    <3>2. w # v
      <4>1. v \in batch.todo => Closing(v)
        BY <2>1 DEF Turn, Superseding, Closing, Judging
      <4>2. QED
        BY <1>5, <2>1, <3>1, <4>1
    <3>3. QED
      BY <1>3, <3>1, <3>2
  <2>2. QED
    BY <1>3, <1>4, <2>1 DEF MasterOK
<1>12. JudgedAlone'
  <2>1. ASSUME NEW x \in Stored, Benched(x)'
        PROVE  TrueDay(x) < day
    <3>1. CASE x = v
      BY <1>8, <2>1, <3>1, JudgedDayIsKnown DEF RecordInv, OneInv
    <3>2. CASE x # v
      BY <1>2, <1>6, <2>1, <3>2 DEF OneInv, JudgedAlone
    <3>3. QED
      BY <3>1, <3>2
  <2>2. ASSUME NEW x \in Stored, NEW y \in Stored, Benched(x)', x # y, SameDay(x, y)
        PROVE  Orphaned(x, y)' \/ (status'[y] # "open" /\ ~Benched(y)')
    <3>1. Orphaned(x, y) => Orphaned(x, y)'
      BY DEF Orphaned
    <3>2. CASE x # v /\ y # v
      BY <1>2, <1>5, <1>6, <2>2, <3>1, <3>2 DEF OneInv, JudgedAlone
    <3>3. CASE y = v
      <4>1. Benched(x)
        BY <1>2, <1>6, <2>2, <3>3
      <4>2. Orphaned(x, v)
        BY <1>2, <2>2, <3>3, <4>1 DEF OneInv, JudgedAlone
      <4>3. QED
        BY <3>1, <3>3, <4>2
    <3>4. CASE x = v
      <4>1. Judging(v) /\ ExitDay(v) # 0 /\ batch.calendar # {}
        BY <1>8, <2>2, <3>4
      <4>2. /\ FirstDay(v, batch.calendar) = FirstDay(y, batch.calendar)
            /\ FirstDay(v, batch.calendar) # 0
        BY <1>2, <2>2, <3>4, <4>1, JudgedDayIsKnown DEF RecordInv, OneInv
      <4>3. v \in batch.masters /\ batch.todo = {} /\ batch.pc = "closing"
        BY <4>1 DEF Judging, First
      <4>4. y \in orphans \/ status[y] # "open"
        BY <2>2, <3>4, <4>2, <4>3 DEF OneInv, MasterOK, SameDay
      <4>5. CASE y \in orphans
        BY <3>1, <3>4, <4>5 DEF Orphaned
      <4>6. CASE status[y] # "open" /\ ~Benched(y)
        BY <1>2, <1>5, <1>6, <2>2, <3>4, <4>6
      <4>7. CASE Benched(y)
        <5>1. SameDay(y, v)
          BY <2>2, <3>4 DEF SameDay
        <5>2. Orphaned(y, v)
          BY <1>2, <2>2, <3>4, <4>7, <5>1 DEF OneInv, JudgedAlone
        <5>3. QED
          BY <3>1, <3>4, <5>2 DEF Orphaned
      <4>8. QED
        BY <4>4, <4>5, <4>6, <4>7
    <3>5. QED
      BY <3>2, <3>3, <3>4
  <2>3. QED
    BY <1>4, <2>1, <2>2 DEF JudgedAlone
<1>13. QED
  BY <1>9, <1>10, <1>11, <1>12 DEF OneInv

LEMMA UpdateKeepsOne ==
  ASSUME RecordInv, OneInv, NEW v \in Ids, Turn(v), UNCHANGED <<day, closed, rows, orphans>>,
         NEW s \in Statuses \ {"open"}, NEW r, Update(v, s, r), batch' = Done(v),
         r.rule = "expiry" /\ r.bench => Judging(v) /\ ExitDay(v) # 0 /\ batch.calendar # {}
  PROVE  OneInv'
<1>1. /\ status' = [status EXCEPT ![v] = s] /\ reading' = [reading EXCEPT ![v] = r]
      /\ UNCHANGED <<count, views>>
  BY DEF Update
<1>2. batch' \in {Done(v), [Done(v) EXCEPT !.skipped = @ \cup {v}]} /\ orphans \subseteq orphans'
  OBVIOUS
<1>3. QED
  BY <1>1, <1>2, WorkKeepsOne

LEMMA NextKeepsOne ==
  ASSUME RecordInv, OneInv, [Next]_vars
  PROVE  OneInv'
<1>1. day \in Nat /\ day \in Days
  BY TrackRecordAssumption DEF RecordInv, TableOK, Days
<1>2. CASE Close
  <2>1. UNCHANGED <<day, table, batch, faults, orphans>> /\ closed' = TRUE
    BY <1>2 DEF Close
  <2>2. \A s \in Symbols : rows'[s] \subseteq rows[s] \cup (IF day \in TradingDays THEN {day} ELSE {})
    BY <1>2 DEF Close
  <2>3. ClockOK'
    BY <1>1, <2>1, <2>2 DEF OneInv, ClockOK
  <2>4. QED
    BY <1>1, <2>1, <2>3, ClockKeepsOne
<1>3. CASE NextDay
  <2>1. /\ day' = day + 1 /\ batch.pc = "idle"
        /\ UNCHANGED <<rows, table, batch, orphans>>
    BY <1>3 DEF NextDay
  <2>2. ASSUME NEW s \in Symbols
        PROVE  rows[s] \subseteq {0} \cup {d \in TradingDays : d <= day'}
    <3>1. \A d \in TradingDays : d \in Nat /\ (d <= day => d <= day')
      BY <1>1, <2>1, TrackRecordAssumption
    <3>2. QED
      BY <3>1 DEF OneInv, ClockOK
  <2>3. ClockOK'
    BY <2>1, <2>2 DEF OneInv, ClockOK
  <2>4. QED
    BY <1>1, <2>1, <2>3, ClockKeepsOne
<1>4. ASSUME NEW v \in Ids, Supersede(v) \/ Judge(v) \/ GiveUp(v) \/ CloseDuplicate(v)
      PROVE  OneInv'
  <2>1. UNCHANGED <<day, closed, rows, orphans>> /\ batch' = Done(v)
    BY <1>4 DEF Supersede, Judge, GiveUp, CloseDuplicate, clock
  <2>2. CASE Supersede(v)
    <3>1. /\ Turn(v) /\ "resolved" \in Statuses \ {"open"}
          /\ \E e, x : Update(v, "resolved", [rule |-> "superseded", entry |-> e, exit |-> x, bench |-> FALSE])
      BY <2>2 DEF Supersede, Turn, Statuses
    <3>2. PICK e, x : Update(v, "resolved", [rule |-> "superseded", entry |-> e, exit |-> x, bench |-> FALSE])
      BY <3>1
    <3>3. QED
      BY <2>1, <3>1, <3>2, UpdateKeepsOne
  <2>3. CASE Judge(v)
    <3> DEFINE s == IF views[v].opinion.direction = "neutral" THEN "avoidance" ELSE "resolved"
               r == [rule |-> "expiry", entry |-> EntryDay(v), exit |-> ExitDay(v),
                     bench |-> batch.calendar # {}]
    <3>1. /\ Turn(v) /\ Judging(v) /\ ExitDay(v) # 0 /\ s \in Statuses \ {"open"}
          /\ Update(v, s, r)
      BY <2>3 DEF Judge, Turn, Statuses
    <3>2. r.bench => batch.calendar # {}
      OBVIOUS
    <3> HIDE DEF s, r
    <3>3. QED
      BY <2>1, <3>1, <3>2, UpdateKeepsOne
  <2>4. CASE GiveUp(v)
    <3>1. Turn(v) /\ Update(v, "unresolvable", [NoReading EXCEPT !.rule = "stale_no_market"])
      BY <2>4 DEF GiveUp, Turn
    <3>2. [NoReading EXCEPT !.rule = "stale_no_market"].rule # "expiry"
      BY DEF NoReading
    <3>3. "unresolvable" \in Statuses \ {"open"}
      BY DEF Statuses
    <3>4. QED
      BY <2>1, <3>1, <3>2, <3>3, UpdateKeepsOne
  <2>5. CASE CloseDuplicate(v)
    <3>1. Turn(v) /\ Update(v, "duplicate_of_day", [NoReading EXCEPT !.rule = "duplicate_of_day"])
      BY <2>5 DEF CloseDuplicate, Turn
    <3>2. [NoReading EXCEPT !.rule = "duplicate_of_day"].rule # "expiry"
      BY DEF NoReading
    <3>3. "duplicate_of_day" \in Statuses \ {"open"}
      BY DEF Statuses
    <3>4. QED
      BY <2>1, <3>1, <3>2, <3>3, UpdateKeepsOne
  <2>6. QED
    BY <1>4, <2>2, <2>3, <2>4, <2>5
<1>5. ASSUME NEW v \in Ids, SkipSupersede(v) \/ NotYet(v) \/ Fail(v)
      PROVE  OneInv'
  <2>1. UNCHANGED <<day, closed, rows, count, views, status, reading>> /\ Turn(v)
    BY <1>5 DEF SkipSupersede, NotYet, Fail, clock, table, Turn
  <2>2. batch' \in {Done(v), [Done(v) EXCEPT !.skipped = @ \cup {v}]}
    BY <1>5 DEF SkipSupersede, NotYet, Fail
  <2>3. orphans \subseteq orphans' /\ (Closing(v) => v \in orphans')
    BY <1>5 DEF SkipSupersede, NotYet, Fail, Superseding, Closing, Judging, First
  <2>4. QED
    BY <2>1, <2>2, <2>3, WorkKeepsOne
<1>6. CASE UNCHANGED vars
  <2>1. UNCHANGED <<day, closed, rows, table, batch, orphans>>
    BY <1>6 DEF vars, table
  <2>2. ClockOK'
    BY <2>1 DEF OneInv, ClockOK
  <2>3. QED
    BY <1>1, <2>1, <2>2, ClockKeepsOne
<1>7. QED
  BY <1>2, <1>3, <1>4, <1>5, <1>6, InsertKeepsOne, TurnKeepsOne DEF Next, BatchStep

\* However many batches, reruns, crashes and failed writes there were, one view of a
\* stock and a day is judged at its horizon: what stands beside it was closed before,
\* or is left behind by a failed write, or was judged without the index.
THEOREM OneViewIsJudged == Spec => []OneJudgedPerDay
<1>1. Init => OneInv
  <2> SUFFICES ASSUME Init PROVE OneInv
    OBVIOUS
  <2>1. batch.calendar = {} /\ batch.pc = "idle" /\ Stored = {}
    BY DEF Init, NotRunning, Stored
  <2>2. QED
    BY <2>1 DEF Init, OneInv, ClockOK, NoneReadYet, JudgedAlone, MasterOK
<1>2. RecordInv /\ OneInv /\ [Next]_vars => OneInv'
  BY NextKeepsOne
<1>3. OneInv => OneJudgedPerDay
  BY DEF OneInv, JudgedAlone, OneJudgedPerDay, Benched, Orphaned
<1>4. QED
  BY <1>1, <1>2, <1>3, RecordInvHolds, PTL DEF Spec
=============================================================================
