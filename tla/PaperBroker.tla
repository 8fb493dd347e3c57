----------------------------- MODULE PaperBroker -----------------------------
(***************************************************************************)
(* The paper broker (execution/brokers/paper.py) behind the Broker         *)
(* interface: place_order, cancel, retry_pending and the gate's            *)
(* record_order_rejection, called by several threads or processes on one   *)
(* SQLite file.                                                            *)
(*                                                                         *)
(* A write transaction takes the database's single write lock at its first *)
(* INSERT or UPDATE.  place_order, retry_pending and settle_daily begin    *)
(* with ensure_account's INSERT, so their reads are inside the lock; the   *)
(* SELECT of cancel is not, since sqlite3 opens a transaction only at its  *)
(* first data-modifying statement.  retry_pending walks over many rows in  *)
(* one transaction and is modelled row by row: an exception or a crash in  *)
(* between drops the working copy `txn`.                                   *)
(***************************************************************************)
EXTENDS PaperLedger

CONSTANTS
    Quantities,          \* order sizes callers ask for
    PENDING_EXPIRE_DAYS, \* pending_expire_days of the broker (3)
    MaxOrders,           \* bound: rows of the orders table
    MaxCancels           \* bound: cancels between their read and their write

ASSUME BrokerAssumption ==
    /\ Quantities \subseteq Nat \ {0}
    /\ PENDING_EXPIRE_DAYS \in Nat \ {0}
    /\ MaxOrders \in Nat
    /\ MaxCancels \in Nat

VARIABLES
    txn,       \* the retry batch in progress: its working copy, or NoTxn
    cancelling \* rows read by a cancel that has not written yet

vars == <<today, orders, account, txn, cancelling>>

NoTxn == [open |-> FALSE]
Batch(todo, bars, table, acct) ==
    [open |-> TRUE, todo |-> todo, bars |-> bars, orders |-> table, account |-> acct]
Locked == txn.open

Init ==
    /\ LedgerInit
    /\ txn = NoTxn
    /\ cancelling = << >>

-----------------------------------------------------------------------------
\* What a caller may pass: nothing (the stored position counts in full), or
\* the stored position with part of it locked by T+1.
Contexts(id) ==
    {StoredContext(account, id.symbol)} \cup
    (IF id.side = "sell"
     THEN {[sellable_qty |-> k, total_qty |-> account.positions[id.symbol]] :
              k \in 0 .. account.positions[id.symbol]}
     ELSE {})

RoomFor(id) == id \in DOMAIN orders \/ Cardinality(DOMAIN orders) < MaxOrders

Place(id, qty, decision, row, position) ==
    /\ RoomFor(id)
    /\ ~Locked
    /\ PlaceOrder(id, qty, decision, row, position)
    /\ UNCHANGED <<txn, cancelling>>

\* A caller records what the gate refused (the caps are the driver's business).
Reject(id, qty, decision, row) ==
    LET reason == GateReason(id.side, qty, row, StoredContext(account, id.symbol), 0, 0, 0)
    IN  /\ RoomFor(id)
        /\ ~Locked
        /\ reason # OK
        /\ RecordRejection(id, qty, decision, reason)
        /\ UNCHANGED <<txn, cancelling>>

-----------------------------------------------------------------------------
(* cancel: a read outside any transaction, then an update by primary key.  *)

CancelRead(id) ==
    /\ Cardinality(DOMAIN cancelling) < MaxCancels
    /\ id \in DOMAIN orders \ DOMAIN cancelling
    /\ orders[id].status = "pending"
    /\ cancelling' = Insert(cancelling, id, orders[id])
    /\ UNCHANGED <<ledgerVars, txn>>

Canceled(row) == [row EXCEPT !.status = "expired", !.reason = "CANCELED"]

WithoutKey(table, key) == [k \in DOMAIN table \ {key} |-> table[k]]

CancelWrite(id) ==
    /\ ~Locked
    /\ id \in DOMAIN cancelling
    /\ orders' = [orders EXCEPT ![id] = Canceled(cancelling[id])]
    /\ cancelling' = WithoutKey(cancelling, id)
    /\ UNCHANGED <<today, account, txn>>

-----------------------------------------------------------------------------
(* retry_pending: every pending order against today's bars.                *)

\* Mutant of PendingIds: whatever is not filled is tried again.
UnfilledIds == {id \in DOMAIN orders : orders[id].status # "filled"}

PendingIds == {id \in DOMAIN orders : orders[id].status = "pending"}

RetryBegin(bars) ==
    /\ ~Locked
    /\ txn' = Batch(PendingIds, bars, orders, account)
    /\ UNCHANGED <<ledgerVars, cancelling>>

\* Rows are taken oldest first (the tie by order_id is left open).
Oldest(ids) == {id \in ids : \A other \in ids : orders[id].created <= orders[other].created}

\* Mutant of StatusAfter: one attempt too many.
StatusAfterOneMore(status, attempts) ==
    IF status = "pending" /\ attempts > PENDING_EXPIRE_DAYS THEN "expired" ELSE status

StatusAfter(status, attempts) ==
    IF status = "pending" /\ attempts >= PENDING_EXPIRE_DAYS THEN "expired" ELSE status

Retried(row, fill) ==
    LET attempts == row.attempts + 1
    IN  [OrderRowOf(fill, row.qty, row.decision, attempts, row.created)
            EXCEPT !.status = StatusAfter(@, attempts)]

RetryRow(id) ==
    /\ Locked
    /\ id \in Oldest(txn.todo)
    /\ LET row == txn.orders[id]
           fill == Matched(txn.account, id, row.qty, txn.bars[id.symbol],
                           StoredContext(txn.account, id.symbol), MAX_SLIPPAGE)
           left == txn.todo \ {id}
       IN  txn' = IF id.symbol \in DOMAIN txn.bars
                  THEN Batch(left, txn.bars, [txn.orders EXCEPT ![id] = Retried(row, fill)],
                             fill.acct)
                  ELSE Batch(left, txn.bars, txn.orders, txn.account)
    /\ UNCHANGED <<ledgerVars, cancelling>>

RetryCommit ==
    /\ Locked
    /\ txn.todo = {}
    /\ orders' = txn.orders
    /\ account' = txn.account
    /\ txn' = NoTxn
    /\ UNCHANGED <<today, cancelling>>

\* An exception or the death of the process: SQLite rolls the batch back.
RetryRollback ==
    /\ Locked
    /\ txn' = NoTxn
    /\ UNCHANGED <<ledgerVars, cancelling>>

NextDay ==
    /\ ~Locked
    /\ today < MaxDay
    /\ today' = today + 1
    /\ UNCHANGED <<orders, account, txn, cancelling>>

\* The bars of a day: some symbols may be missing.
BarMaps == UNION {[S -> MarketRows] : S \in SUBSET Symbols}

Next ==
    \/ \E id \in OrderIds, qty \in Quantities, decision \in Decisions, row \in MarketRows :
          \/ \E position \in Contexts(id) : Place(id, qty, decision, row, position)
          \/ Reject(id, qty, decision, row)
    \/ \E id \in OrderIds : CancelRead(id) \/ CancelWrite(id) \/ RetryRow(id)
    \/ \E bars \in BarMaps : RetryBegin(bars)
    \/ RetryCommit
    \/ RetryRollback
    \/ NextDay

Spec == Init /\ [][Next]_vars

-----------------------------------------------------------------------------
OrderTableOK(table) ==
    /\ DOMAIN table \subseteq OrderIds
    /\ \A id \in DOMAIN table : table[id] \in OrderRow

TxnOK ==
    \/ txn = NoTxn
    \/ /\ txn = Batch(txn.todo, txn.bars, txn.orders, txn.account)
       /\ OrderTableOK(txn.orders)
       /\ DOMAIN txn.orders = DOMAIN orders
       /\ txn.todo \subseteq {id \in PendingIds : txn.orders[id] = orders[id]}
       /\ txn.account \in Accounts
       /\ txn.bars \in BarMaps

BrokerTypeOK ==
    /\ LedgerTypeOK
    /\ TxnOK
    /\ DOMAIN cancelling \subseteq DOMAIN orders
    /\ \A id \in DOMAIN cancelling : cancelling[id] \in OrderRow

(***************************************************************************)
(* A pending order has been retried fewer than pending_expire_days times,  *)
(* and an order that expired without being cancelled has been retried      *)
(* exactly that often: no order is retried for ever, none expires early.   *)
(***************************************************************************)
TimelyRow(row) ==
    /\ row.status = "pending" => row.attempts < PENDING_EXPIRE_DAYS
    /\ row.status = "expired" /\ row.reason # "CANCELED"
          => row.attempts = PENDING_EXPIRE_DAYS

ExpiresOnTime == \A id \in DOMAIN orders : TimelyRow(orders[id])

(***************************************************************************)
(* An order row is inserted once; what identifies it (quantity, decision,  *)
(* day) never changes, and a row in a terminal status changes in one case  *)
(* only: a cancel that read it while it was pending writes over it.  Every *)
(* replay of place_order, every gate rejection and every retry leaves      *)
(* settled orders alone.                                                   *)
(***************************************************************************)
OnlyCancelsReopen ==
    [][\A id \in DOMAIN orders :
          /\ id \in DOMAIN orders'
          /\ orders[id].status \in Terminal =>
                \/ orders'[id] = orders[id]
                \/ id \in DOMAIN cancelling /\ orders'[id].reason = "CANCELED"
          /\ orders'[id].qty = orders[id].qty
          /\ orders'[id].decision = orders[id].decision
          /\ orders'[id].created = orders[id].created]_vars

(***************************************************************************)
(* Until an order is cancelled, cash and positions are exactly what the    *)
(* orders table accounts for, whatever places, retries, rollbacks and      *)
(* replays interleave (the cancel of a filled order breaks the balance).   *)
(***************************************************************************)
ConservedUntilCanceled ==
    (\A id \in DOMAIN orders : orders[id].reason # "CANCELED") => LedgerConserved

(***************************************************************************)
(* The account moves only together with the order that moves it: a step    *)
(* that changes cash or positions turns at least one order into "filled".  *)
(***************************************************************************)
NoFillNoMove ==
    [][account' # account =>
          \E id \in DOMAIN orders' :
             /\ orders'[id].status = "filled"
             /\ id \in DOMAIN orders => orders[id].status # "filled"]_vars
=============================================================================
