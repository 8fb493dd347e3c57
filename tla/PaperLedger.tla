----------------------------- MODULE PaperLedger -----------------------------
(***************************************************************************)
(* The tables of the execution database that hold the paper account        *)
(* (execution/store.py: orders, positions, cash) and the transactions that *)
(* insert an order row (execution/brokers/paper.py place_order, store.py   *)
(* record_order_rejection).  The broker and the daily driver extend it.    *)
(***************************************************************************)
EXTENDS Matching, FiniteSetsExt

CONSTANTS
    Symbols,      \* stocks
    SignalIds,    \* primary keys of the signals table
    Decisions,    \* primary keys of the predictions table
    MarketRows,   \* the snapshot rows that occur
    InitialCash,  \* opening balance of the account
    MaxDay        \* bound: trading days considered

ASSUME LedgerAssumption ==
    /\ InitialCash \in Nat
    /\ MaxDay \in Nat \ {0}

\* Prices stay above the slippage, and half of the smallest lot pays the
\* smallest commission (100 shares against 5 yuan).
ASSUME MarketAssumption ==
    \A row \in MarketRows :
        /\ row \in Rows
        /\ row.open > MAX_SLIPPAGE
        /\ 2 * MIN_COMMISSION <= (row.open - MAX_SLIPPAGE) * LOT_SIZE

VARIABLES
    today,   \* the trading day in progress
    orders,  \* orders table: order_id -> row
    account  \* cash balance and positions (no row = quantity 0)

ledgerVars == <<today, orders, account>>

Days == 1 .. MaxDay

\* order_id_for: f"{signal_id}:{symbol}:{side}".
OrderIds == [signal : SignalIds, symbol : Symbols, side : Sides]

Statuses == {"pending", "filled", "rejected", "expired"}
Terminal == Statuses \ {"pending"}
Reasons == {OK, "INSUFFICIENT_CASH", "CANCELED"} \cup GateReasons

OrderRow == [qty : Nat \ {0}, status : Statuses, reason : Reasons, price : Nat,
             fee : Nat, attempts : Nat, decision : Decisions, created : Days]

Accounts == [cash : Nat, positions : [Symbols -> Nat]]

Insert(table, key, row) ==
    [k \in DOMAIN table \cup {key} |-> IF k = key THEN row ELSE table[k]]

LedgerInit ==
    /\ today = 1
    /\ orders = << >>
    /\ account = [cash |-> InitialCash, positions |-> [s \in Symbols |-> 0]]

-----------------------------------------------------------------------------
(* Filling an order: _apply_fill, on the account of the open transaction.  *)

Cost(price, qty) == price * qty + Fee("buy", price * qty)
Proceeds(price, qty) == price * qty - Fee("sell", price * qty)

Unfilled(acct, status, reason) ==
    [status |-> status, reason |-> reason, price |-> 0, fee |-> 0, acct |-> acct]

Filled(acct, id, qty, price) ==
    [status |-> "filled", reason |-> OK, price |-> price,
     fee |-> Fee(id.side, price * qty),
     acct |-> IF id.side = "buy"
              THEN [cash |-> acct.cash - Cost(price, qty),
                    positions |-> [acct.positions EXCEPT ![id.symbol] = @ + qty]]
              ELSE [cash |-> acct.cash + Proceeds(price, qty),
                    positions |-> [acct.positions EXCEPT ![id.symbol] = @ - qty]]]

ApplyFill(acct, id, qty, reason, price) ==
    IF reason # OK THEN Unfilled(acct, "pending", reason)
    ELSE IF id.side = "buy" /\ Cost(price, qty) > acct.cash
         THEN Unfilled(acct, "rejected", "INSUFFICIENT_CASH")
    ELSE Filled(acct, id, qty, price)

\* The stored position as an (all sellable) context: _position_context.
StoredContext(acct, symbol) ==
    [sellable_qty |-> acct.positions[symbol], total_qty |-> acct.positions[symbol]]

Matched(acct, id, qty, row, position, slip) ==
    ApplyFill(acct, id, qty, MatchReason(id.side, qty, row, position),
              FillPrice(id.side, row, slip))

\* A sale the matching engine lets through but the book cannot cover raises
\* ValueError and rolls the transaction back.
Uncovered(fill) == \E s \in Symbols : fill.acct.positions[s] < 0

-----------------------------------------------------------------------------
(* The operations, each one transaction.                                   *)

\* Mutant of AlreadyPlaced: a replayed order is not recognised.
NeverPlaced(id) == FALSE

AlreadyPlaced(id) == id \in DOMAIN orders

OrderRowOf(fill, qty, decision, attempts, created) ==
    [qty |-> qty, status |-> fill.status, reason |-> fill.reason,
     price |-> fill.price, fee |-> fill.fee, attempts |-> attempts,
     decision |-> decision, created |-> created]

\* PaperBroker.place_order: an order_id already stored is returned unchanged.
PlaceOrder(id, qty, decision, row, position) ==
    LET fill == Matched(account, id, qty, row, position, row.slip)
    IN  /\ IF AlreadyPlaced(id) \/ Uncovered(fill)
           THEN UNCHANGED <<orders, account>>
           ELSE /\ orders' = Insert(orders, id, OrderRowOf(fill, qty, decision, 0, today))
                /\ account' = fill.acct
        /\ UNCHANGED today

\* store.record_order_rejection: insert a rejected row unless the id has one.
RecordRejection(id, qty, decision, reason) ==
    /\ IF AlreadyPlaced(id)
       THEN UNCHANGED orders
       ELSE orders' = Insert(orders, id,
                OrderRowOf(Unfilled(account, "rejected", reason), qty, decision, 0, today))
    /\ UNCHANGED <<today, account>>

-----------------------------------------------------------------------------
LedgerTypeOK ==
    /\ today \in Days
    /\ DOMAIN orders \subseteq OrderIds
    /\ \A id \in DOMAIN orders : orders[id] \in OrderRow
    /\ account \in Accounts

\* The filled orders of one side.
FilledOrders(side) == {id \in DOMAIN orders : id.side = side /\ orders[id].status = "filled"}

TotalCost == MapThenSumSet(LAMBDA id : Cost(orders[id].price, orders[id].qty),
                           FilledOrders("buy"))
TotalProceeds == MapThenSumSet(LAMBDA id : Proceeds(orders[id].price, orders[id].qty),
                               FilledOrders("sell"))
Traded(side, s) == MapThenSumSet(LAMBDA id : orders[id].qty,
                                 {id \in FilledOrders(side) : id.symbol = s})

(***************************************************************************)
(* Conservation: the cash balance is the opening balance less what every   *)
(* filled purchase cost plus what every filled sale brought in, and every  *)
(* position is the shares bought less the shares sold, counted over the    *)
(* orders table.  Three tables are written by one operation (_apply_fill   *)
(* and insert_order / update_order): a replayed order, a lost rollback or  *)
(* a row overwritten after its fill breaks the balance.                    *)
(***************************************************************************)
LedgerConserved ==
    /\ account.cash + TotalCost = InitialCash + TotalProceeds
    /\ \A s \in Symbols : account.positions[s] + Traded("sell", s) = Traded("buy", s)

(***************************************************************************)
(* Only whole lots are ever held, so that the full sale of a position is   *)
(* never an odd lot, although match_order lets odd-lot positions be sold.  *)
(***************************************************************************)
LotsOnly(acct) == \A s \in Symbols : acct.positions[s] % LOT_SIZE = 0

WholeLots == LotsOnly(account)
=============================================================================
