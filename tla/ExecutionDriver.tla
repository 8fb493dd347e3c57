--------------------------- MODULE ExecutionDriver ---------------------------
(***************************************************************************)
(* The daily execution batch (execution/driver.py run_execution_daily):    *)
(* approved decisions become signals, signals without an order become      *)
(* target positions, and the difference to the holdings becomes orders     *)
(* that pass the gate and are filled on the paper account.                 *)
(*                                                                         *)
(* One batch runs at a time (the job's lock), but it commits signal by     *)
(* signal and order by order, so it may die between any two writes and be  *)
(* run again the same day (a retry, a manual run, the start-up catch-up).  *)
(*                                                                         *)
(* Decisions are numbered in the order in which they were created; symbols *)
(* are numbered in the order in which the code sorts them.                 *)
(***************************************************************************)
EXTENDS PaperLedger

CONSTANTS
    WINDOW,     \* window_days: older decisions are not executed
    Actions,    \* the actions decisions are taken from
    Snapshots,  \* the daily snapshots that occur: partial functions to rows
    Multipliers \* the regime multipliers that occur, in percent

AllActions == {"buy", "hold", "watch", "sell"}

ASSUME DriverAssumption ==
    /\ Symbols \subseteq Nat
    /\ Decisions \subseteq Nat \ {0}
    /\ SignalIds = [symbol : Symbols, date : Days]
    /\ WINDOW \in Nat
    /\ Actions \subseteq AllActions
    /\ Multipliers \subseteq 0 .. 100
    /\ \A snap \in Snapshots : \E S \in SUBSET Symbols : snap \in [S -> MarketRows]

VARIABLES
    predictions, \* predictions table (open rows): decision -> row
    signals,     \* signals table: signal_id -> row
    snapshot,    \* the rows of the latest snapshot; none at all = empty database
    multiplier,  \* the regime's position multiplier of the day
    pc,          \* "idle", "convert" or "orders": where the batch is
    todo,        \* decisions the batch has still to turn into signals
    planned      \* orders the batch has still to gate and place

batchVars == <<pc, todo, planned>>
marketVars == <<snapshot, multiplier>>
driverVars == <<today, orders, account, predictions, signals, snapshot, multiplier,
                pc, todo, planned>>

Directions == {"long", "flat"}

\* signals._direction_for_action; a prediction carries no sell_type.
DirectionFor(action) == IF action = "buy" THEN "long" ELSE "flat"

DriverInit ==
    /\ LedgerInit
    /\ predictions = << >>
    /\ signals = << >>
    /\ snapshot \in Snapshots
    /\ multiplier \in Multipliers
    /\ pc = "idle"
    /\ todo = {}
    /\ planned = {}

-----------------------------------------------------------------------------
(* The decision pipeline: ingest.persist_prediction_from_accumulated.      *)

NextDecision == Cardinality(DOMAIN predictions) + 1

\* The calendar may be a day ahead of the latest snapshot, never behind it.
Decide(symbol, action, approved, date) ==
    /\ NextDecision \in Decisions
    /\ \A d \in DOMAIN predictions : predictions[d].created <= date
    /\ predictions' = Insert(predictions, NextDecision,
            [symbol |-> symbol, action |-> action, approved |-> approved, created |-> date])
    /\ UNCHANGED <<ledgerVars, signals, marketVars, batchVars>>

-----------------------------------------------------------------------------
(* Stage 1: decisions to signals.                                          *)

KnownDecisions == {signals[k].decision : k \in DOMAIN signals}

\* Mutant of Convertible: the day's own decisions are executed at its opening price.
ConvertibleSameDay(d) ==
    /\ predictions[d].created <= today
    /\ predictions[d].created >= today - WINDOW
    /\ predictions[d].approved

\* _create_signals_from_decisions: taken on an earlier day, inside the window,
\* approved by the fund manager.
Convertible(d) ==
    /\ predictions[d].created < today
    /\ predictions[d].created >= today - WINDOW
    /\ predictions[d].approved

Begin ==
    /\ pc = "idle"
    /\ pc' = "convert"
    /\ todo' = {d \in DOMAIN predictions \ KnownDecisions : Convertible(d)}
    /\ UNCHANGED <<ledgerVars, predictions, signals, marketVars, planned>>

\* signal_from_decision and record_signal: an upsert by signal_id.
SignalIdFor(d) == [symbol |-> predictions[d].symbol, date |-> today]

SignalFor(d) == [decision |-> d, direction |-> DirectionFor(predictions[d].action),
                 created |-> predictions[d].created]

\* Mutant of Convert: the decision stays in the list.
ConvertForEver(d) ==
    /\ pc = "convert"
    /\ d \in todo
    /\ signals' = Insert(signals, SignalIdFor(d), SignalFor(d))
    /\ UNCHANGED <<ledgerVars, predictions, marketVars, batchVars>>

Convert(d) ==
    /\ pc = "convert"
    /\ d \in todo
    /\ \A other \in todo : d <= other
    /\ signals' = Insert(signals, SignalIdFor(d), SignalFor(d))
    /\ todo' = todo \ {d}
    /\ UNCHANGED <<ledgerVars, predictions, marketVars, pc, planned>>

-----------------------------------------------------------------------------
(* Stages 2 and 3: signals to targets, targets to order intents.           *)

SignalIdsWithOrders == {id.signal : id \in DOMAIN orders}
\* Mutant of PendingSignals: signals that have an order are planned again.
EverySignal == DOMAIN signals
PendingSignals == DOMAIN signals \ SignalIdsWithOrders
PendingOf(direction) == {k \in PendingSignals : signals[k].direction = direction}

\* The earliest of the signals of a symbol: by created_at, then signal_id.
Earlier(k, l) ==
    \/ signals[k].created < signals[l].created
    \/ signals[k].created = signals[l].created /\ k.date <= l.date

FirstSignal(ids, symbol) ==
    CHOOSE k \in ids : /\ k.symbol = symbol
                       /\ \A l \in ids : l.symbol = symbol => Earlier(k, l)

Priced == DOMAIN snapshot
Held(acct) == {s \in Symbols : acct.positions[s] > 0}
ValueOf(S, qty(_)) == MapThenSumSet(LAMBDA s : qty(s) * snapshot[s].close, S)
MarkedValue == ValueOf(Held(account) \cap Priced, LAMBDA s : account.positions[s])
Equity == account.cash + MarkedValue

\* _plan_flat_exits: sell the whole of every held symbol with a flat signal.
ExitSymbols == {k.symbol : k \in PendingOf("flat")} \cap Held(account) \cap Priced

QtyAfterExits(s) == IF s \in ExitSymbols THEN 0 ELSE account.positions[s]

\* aggregate_targets(method="equal"): every signal counts in the denominator,
\* a symbol counts once in the result; clip, scale to the total cap, regime.
LongSymbols == {k.symbol : k \in PendingOf("long")}

MinOf(a, b) == IF a <= b THEN a ELSE b

TargetWeight ==
    LET share == MinOf(100 \div Cardinality(PendingOf("long")), MAX_SINGLE_POSITION)
        count == Cardinality(LongSymbols)
        capped == IF share * count > MAX_TOTAL_POSITION
                  THEN MAX_TOTAL_POSITION \div count ELSE share
    IN  (capped * multiplier) \div 100

\* _plan_long_entries: buy up to the target in whole lots, never sell.
Lots(shares) == (shares \div LOT_SIZE) * LOT_SIZE
TargetShares(s) == Lots((TargetWeight * Equity) \div (100 * snapshot[s].open))
Shortfall(s) == Lots(TargetShares(s) - QtyAfterExits(s))
EntrySymbols == {s \in LongSymbols \cap Priced : Shortfall(s) > 0}

\* The running projection of the total exposure, in planning order.
ProjectedAfterExit(s) ==
    MarkedValue - ValueOf({t \in ExitSymbols : t <= s}, LAMBDA t : account.positions[t])
ProjectedAfterEntry(s) ==
    MarkedValue - ValueOf(ExitSymbols, LAMBDA t : account.positions[t])
                + ValueOf({t \in EntrySymbols : t <= s}, Shortfall)

Intent(k, side, qty, target, projected) ==
    [id |-> [signal |-> k, symbol |-> k.symbol, side |-> side], qty |-> qty,
     decision |-> signals[k].decision, target |-> target, projected |-> projected,
     total |-> Equity]

ExitIntent(s) == Intent(FirstSignal(PendingOf("flat"), s), "sell",
                        account.positions[s], 0, ProjectedAfterExit(s))
EntryIntent(s) == Intent(FirstSignal(PendingOf("long"), s), "buy",
                         Shortfall(s), TargetWeight, ProjectedAfterEntry(s))

Plan ==
    /\ pc = "convert"
    /\ todo = {}
    /\ IF Priced = {}
       THEN pc' = "idle" /\ planned' = {}       \* no_snapshot_data
       ELSE /\ pc' = "orders"
            /\ planned' = {ExitIntent(s) : s \in ExitSymbols}
                          \cup {EntryIntent(s) : s \in EntrySymbols}
    /\ UNCHANGED <<ledgerVars, predictions, signals, marketVars, todo>>

-----------------------------------------------------------------------------
(* Stages 4 and 5: gate and place, one order at a time.                    *)

PlannedContext(item) == IF item.id.side = "sell"
                        THEN [sellable_qty |-> item.qty, total_qty |-> item.qty]
                        ELSE NoPosition

GateVerdict(item) ==
    GateReason(item.id.side, item.qty, snapshot[item.id.symbol], PlannedContext(item),
               item.target, item.projected, item.total)

Submit(item) ==
    IF GateVerdict(item) = OK
    THEN PlaceOrder(item.id, item.qty, item.decision, snapshot[item.id.symbol],
                    PlannedContext(item))
    ELSE RecordRejection(item.id, item.qty, item.decision, GateVerdict(item))

\* Exits first, then entries, each by symbol.
PlannedBefore(a, b) ==
    \/ a.id.side = "sell" /\ b.id.side = "buy"
    \/ a.id.side = b.id.side /\ a.id.symbol <= b.id.symbol

Execute(item) ==
    /\ pc = "orders"
    /\ item \in planned
    /\ \A other \in planned : PlannedBefore(item, other)
    /\ Submit(item)
    /\ planned' = planned \ {item}
    /\ UNCHANGED <<predictions, signals, marketVars, pc, todo>>

Finish ==
    /\ pc = "orders"
    /\ planned = {}
    /\ pc' = "idle"
    /\ UNCHANGED <<ledgerVars, predictions, signals, marketVars, todo, planned>>

-----------------------------------------------------------------------------
\* The process dies, or a write raises: what was committed stays.
Crash ==
    /\ pc # "idle"
    /\ pc' = "idle"
    /\ todo' = {}
    /\ planned' = {}
    /\ UNCHANGED <<ledgerVars, predictions, signals, marketVars>>

\* The next trading day's snapshot arrives.  `today` is latest_snapshot_date(),
\* the day the batch executes; a filled snapshot database stays filled.
NextSnapshot ==
    /\ pc = "idle"
    /\ today < MaxDay
    /\ today' = today + 1
    /\ snapshot' \in Snapshots
    /\ Priced # {} => DOMAIN snapshot' # {}
    /\ multiplier' \in Multipliers
    /\ UNCHANGED <<orders, account, predictions, signals, batchVars>>

BatchStep == \/ \E d \in Decisions : Convert(d)
             \/ Plan
             \/ \E item \in planned : Execute(item)
             \/ Finish

DriverNext ==
    \/ \E symbol \in Symbols, action \in Actions, approved \in BOOLEAN,
          date \in {today, today + 1} : Decide(symbol, action, approved, date)
    \/ Begin
    \/ BatchStep
    \/ Crash
    \/ NextSnapshot

DriverSpec == DriverInit /\ [][DriverNext]_driverVars

-----------------------------------------------------------------------------
Prediction == [symbol : Symbols, action : AllActions, approved : BOOLEAN, created : Nat]
SignalRow == [decision : Decisions, direction : Directions, created : Nat]
PlannedOrder == [id : OrderIds, qty : Nat \ {0}, decision : Decisions, target : Nat,
                 projected : Int, total : Nat]

(***************************************************************************)
(* A signal never has two orders: not after a crash between its order and  *)
(* the end of the batch, not after a rerun, and not when a later decision  *)
(* overwrote its row with the other direction (signal_ids_with_orders and  *)
(* the derived order_id are the batch's idempotence anchors).              *)
(***************************************************************************)
OneOrderPerSignal ==
    \A id, other \in DOMAIN orders : id.signal = other.signal => id = other

(***************************************************************************)
(* Whatever is in the order book was decided for that symbol and that      *)
(* direction, approved by the fund manager, on an earlier day than the     *)
(* order's and inside the backlog window of its signal's day.  The row the *)
(* order was planned from may be overwritten while the batch runs or after *)
(* a crash.                                                                *)
(***************************************************************************)
OrdersAreAuthorised ==
    \A id \in DOMAIN orders :
        LET decision == predictions[orders[id].decision]
        IN  /\ orders[id].decision \in DOMAIN predictions
            /\ decision.approved
            /\ decision.symbol = id.symbol
            /\ (id.side = "buy") <=> (decision.action = "buy")
            /\ decision.created < id.signal.date
            /\ decision.created + WINDOW >= id.signal.date
            /\ id.signal.date <= orders[id].created

(***************************************************************************)
(* A purchase never takes the exposure over the total cap, measured at the *)
(* day's closing prices, on a day on which every sale was filled: the caps *)
(* are checked against a projection made before the first order.  Fees are *)
(* not part of the projection; where they are charged, the equity they     *)
(* take may leave a purchase that used up the cap a little above it.       *)
(***************************************************************************)
Exposure == ValueOf(Held(account) \cap Priced, LAMBDA s : account.positions[s])

Bought(s) == account'.positions[s] > account.positions[s]

CapRespected == Exposure * 100 <= MAX_TOTAL_POSITION * Equity

SaleRefusedToday ==
    \E id \in DOMAIN orders :
        id.side = "sell" /\ orders[id].created = today /\ orders[id].status # "filled"

EntriesRespectProjectedCap ==
    [][(\E s \in Symbols : Bought(s)) /\ ~SaleRefusedToday => CapRespected']_driverVars

\* A batch that has begun comes to an end.
BatchEnds == pc # "idle" ~> pc = "idle"

-----------------------------------------------------------------------------
(* What the documentation says and the code does not do.                   *)

(***************************************************************************)
(* "The total position of the portfolio SHALL NOT exceed the total cap"    *)
(* (openspec trade-execution): no purchase takes the exposure over it.     *)
(***************************************************************************)
EntriesRespectTotalCap == [][(\E s \in Symbols : Bought(s)) => CapRespected']_driverVars
=============================================================================
