-------------------------- MODULE PaperBrokerProofs --------------------------
(***************************************************************************)
(* Theorems about the paper account, for every set of symbols, signals,    *)
(* market rows and order sizes: the broker first, then the daily batch     *)
(* that places its orders.  BrokerInv is the inductive invariant of the    *)
(* broker: the properties of the committed tables hold of the working copy *)
(* of a retry batch as well, and the copy differs from the tables only     *)
(* where a pending order may still change.  BalanceInv, the one of the     *)
(* balance of cash, costs and proceeds, rests on the sums of SetSums, and  *)
(* so do FlatInv and CapInv, those of the curve and of the cap of a flat   *)
(* market.  DayInv is the invariant of the day.                            *)
(***************************************************************************)
EXTENDS PaperBroker, PaperDay, SetSums

-----------------------------------------------------------------------------
(* Arithmetic of whole lots.                                               *)

\* Dividing leaves a quotient and a remainder below the divisor.
LEMMA Division ==
  ASSUME NEW L \in Nat \ {0}, NEW a \in Nat
  PROVE  a = L * (a \div L) + (a % L) /\ a \div L \in Nat /\ a % L \in 0 .. (L - 1)
OBVIOUS

\* A number that is k lots and r shares leaves the remainder r.
LEMMA RemainderUnique ==
  ASSUME NEW L \in Nat \ {0}, NEW a \in Nat, NEW k \in Nat, NEW r \in 0 .. (L - 1),
         a = L * k + r
  PROVE  a % L = r
<1> DEFINE q == a \div L
           m == a % L
<1>1. a = L * q + m /\ q \in Nat /\ m \in 0 .. (L - 1)
  BY Division
<1> HIDE DEF q, m
<1>2. L * (q - k) = r - m
  BY <1>1
<1>3. CASE q = k
  BY <1>1, <1>2, <1>3 DEF m
<1>4. CASE q > k
  <2>1. q - k >= 1
    BY <1>1, <1>4
  <2>2. L * (q - k) >= L
    BY <1>1, <2>1
  <2> QED
    BY <1>1, <1>2, <2>2
<1>5. CASE q < k
  <2>1. k - q >= 1
    BY <1>1, <1>5
  <2>2. L * (k - q) >= L
    BY <1>1, <2>1
  <2>3. L * (k - q) = m - r
    BY <1>1
  <2> QED
    BY <1>1, <2>2, <2>3
<1> QED
  BY <1>1, <1>3, <1>4, <1>5

\* Whole lots add up to whole lots.
LEMMA LotsAdd ==
  ASSUME NEW L \in Nat \ {0}, NEW a \in Nat, NEW b \in Nat, a % L = 0, b % L = 0
  PROVE  (a + b) % L = 0
<1> DEFINE p == a \div L
           q == b \div L
<1>1. a = L * p /\ p \in Nat
  BY Division
<1>2. b = L * q /\ q \in Nat
  BY Division
<1> HIDE DEF p, q
<1>3. a + b = L * (p + q) + 0
  BY <1>1, <1>2
<1> QED
  BY <1>1, <1>2, <1>3, RemainderUnique

\* Whole lots taken from whole lots leave whole lots.
LEMMA LotsSubtract ==
  ASSUME NEW L \in Nat \ {0}, NEW a \in Nat, NEW b \in Nat, a % L = 0, b % L = 0, b <= a
  PROVE  (a - b) % L = 0
<1> DEFINE p == a \div L
           q == b \div L
<1>1. a = L * p /\ p \in Nat
  BY Division
<1>2. b = L * q /\ q \in Nat
  BY Division
<1> HIDE DEF p, q
<1>3. a - b = L * (p - q) + 0
  BY <1>1, <1>2
<1>4. p - q \in Nat
  <2>1. CASE p < q
    <3>1. q - p >= 1
      BY <1>1, <1>2, <2>1
    <3>2. L * (q - p) >= L
      BY <1>1, <1>2, <3>1
    <3>3. L * (q - p) = b - a
      BY <1>1, <1>2
    <3> QED
      BY <3>2, <3>3
  <2>2. CASE p >= q
    BY <1>1, <1>2, <2>2
  <2> QED
    BY <1>1, <1>2, <2>1, <2>2
<1>5. a - b \in Nat /\ 0 \in 0 .. (L - 1)
  OBVIOUS
<1> QED
  BY <1>3, <1>4, <1>5, RemainderUnique

\* A positive number of whole lots is at least one lot.
LEMMA AtLeastOneLot ==
  ASSUME NEW L \in Nat \ {0}, NEW a \in Nat \ {0}, a % L = 0
  PROVE  a >= L
<1> DEFINE p == a \div L
<1>1. a = L * p /\ p \in Nat
  BY Division
<1> HIDE DEF p
<1>2. p >= 1
  BY <1>1
<1> QED
  BY <1>1, <1>2

\* Dividing by at least two at least halves.
LEMMA HalfDiv ==
  ASSUME NEW D \in Nat \ {0, 1}, NEW a \in Nat
  PROVE  a \div D \in Nat /\ 2 * (a \div D) <= a
OBVIOUS

\* Products are monotone in both factors.
LEMMA ProductMonotone ==
  ASSUME NEW a \in Nat, NEW b \in Nat, NEW c \in Nat, NEW d \in Nat, a <= c, b <= d
  PROVE  a * b \in Nat /\ c * d \in Nat /\ a * b <= c * d
<1>1. a * b \in Nat /\ c * d \in Nat /\ c * b \in Nat
  OBVIOUS
<1>2. a * b <= c * b
  OBVIOUS
<1>3. c * b <= c * d
  OBVIOUS
<1> QED
  BY <1>1, <1>2, <1>3

-----------------------------------------------------------------------------
(* Fees.                                                                   *)

LEMMA FeeInNat ==
  ASSUME NEW side \in Sides, NEW turnover \in Nat
  PROVE  Fee(side, turnover) \in Nat
<1>1. turnover \div COMMISSION_DIV \in Nat /\ turnover \div STAMP_DIV \in Nat
  BY HalfDiv, MatchingAssumption
<1> QED
  BY <1>1, MatchingAssumption DEF Fee, Sides

\* A turnover of twice the smallest commission pays its own fee.
LEMMA FeeCovered ==
  ASSUME NEW side \in Sides, NEW turnover \in Nat, 2 * MIN_COMMISSION <= turnover
  PROVE  Fee(side, turnover) <= turnover
<1> DEFINE byRate == turnover \div COMMISSION_DIV
           stamp == turnover \div STAMP_DIV
<1>1. byRate \in Nat /\ 2 * byRate <= turnover
  BY HalfDiv, MatchingAssumption
<1>2. stamp \in Nat /\ 2 * stamp <= turnover
  BY HalfDiv, MatchingAssumption
<1>3. Fee(side, turnover) = (IF byRate > MIN_COMMISSION THEN byRate ELSE MIN_COMMISSION)
                            + (IF side = "sell" THEN stamp ELSE 0)
  BY DEF Fee
<1> HIDE DEF byRate, stamp
<1> QED
  BY <1>1, <1>2, <1>3, MatchingAssumption

\* The price of a fill is a natural number of at least open - MAX_SLIPPAGE.
LEMMA FillPriceBound ==
  ASSUME NEW side \in Sides, NEW row \in MarketRows, NEW slip \in SlippageTiers
  PROVE  /\ FillPrice(side, row, slip) \in Nat
         /\ row.open - MAX_SLIPPAGE \in Nat
         /\ row.open - MAX_SLIPPAGE <= FillPrice(side, row, slip)
         /\ 2 * MIN_COMMISSION <= (row.open - MAX_SLIPPAGE) * LOT_SIZE
<1>1. row \in Rows /\ row.open > MAX_SLIPPAGE
      /\ 2 * MIN_COMMISSION <= (row.open - MAX_SLIPPAGE) * LOT_SIZE
  BY MarketAssumption
<1>2. row.open \in Nat
  BY <1>1 DEF Rows
<1>3. slip \in Nat /\ MAX_SLIPPAGE \in Nat /\ slip <= MAX_SLIPPAGE
  BY MatchingAssumption
<1> QED
  BY <1>1, <1>2, <1>3 DEF FillPrice

\* Selling whole lots brings in at least the fee.
LEMMA SaleCoversFee ==
  ASSUME NEW row \in MarketRows, NEW slip \in SlippageTiers, NEW qty \in Nat \ {0},
         qty % LOT_SIZE = 0
  PROVE  Proceeds(FillPrice("sell", row, slip), qty) \in Nat
<1> DEFINE price == FillPrice("sell", row, slip)
           floor == row.open - MAX_SLIPPAGE
<1>1. /\ price \in Nat /\ floor \in Nat /\ floor <= price
      /\ 2 * MIN_COMMISSION <= floor * LOT_SIZE
  BY FillPriceBound DEF Sides
<1>2. LOT_SIZE \in Nat \ {0} /\ LOT_SIZE <= qty /\ MIN_COMMISSION \in Nat
  BY AtLeastOneLot, MatchingAssumption
<1> HIDE DEF price, floor
<1>3. price * qty \in Nat /\ floor * LOT_SIZE \in Nat /\ floor * LOT_SIZE <= price * qty
  BY <1>1, <1>2, ProductMonotone
<1>4. 2 * MIN_COMMISSION <= price * qty
  BY <1>1, <1>2, <1>3
<1>5. Fee("sell", price * qty) \in Nat /\ Fee("sell", price * qty) <= price * qty
  BY <1>3, <1>4, FeeInNat, FeeCovered DEF Sides
<1> QED
  BY <1>3, <1>5 DEF Proceeds, price

-----------------------------------------------------------------------------
(* Matching and filling.                                                   *)

\* A context tells the truth about the account: a sale is judged by the stored
\* position, of which all or a part may be sold.
TruthfulContext(acct, id, position) ==
    id.side = "sell" => /\ position.total_qty = acct.positions[id.symbol]
                        /\ position.sellable_qty \in Nat
                        /\ position.sellable_qty <= position.total_qty

LEMMA StoredContextIsTruthful ==
  ASSUME NEW acct \in Accounts, NEW id \in OrderIds
  PROVE  TruthfulContext(acct, id, StoredContext(acct, id.symbol))
BY DEF TruthfulContext, StoredContext, Accounts, OrderIds

\* An order that matches against a whole-lot position is a whole number of
\* lots, and a sale is covered by the position.
LEMMA MatchedIsWholeLots ==
  ASSUME NEW acct \in Accounts, LotsOnly(acct), NEW id \in OrderIds,
         NEW qty \in Nat \ {0}, NEW row, NEW position, TruthfulContext(acct, id, position),
         MatchReason(id.side, qty, row, position) = OK
  PROVE  /\ qty % LOT_SIZE = 0
         /\ id.side = "sell" => qty <= acct.positions[id.symbol]
<1>1. ~OddLot(id.side, qty, position)
  BY DEF MatchReason, OK
<1>2. ~T1Blocked(id.side, qty, position)
  <2>1. SealedReason(id.side) # OK
    BY DEF SealedReason, OK
  <2> QED
    BY <2>1 DEF MatchReason, OK
<1>3. id.symbol \in Symbols /\ acct.positions[id.symbol] \in Nat
      /\ acct.positions[id.symbol] % LOT_SIZE = 0
  BY DEF Accounts, OrderIds, LotsOnly
<1>4. qty % LOT_SIZE = 0
  BY <1>1, <1>3 DEF OddLot, TruthfulContext
<1>5. id.side = "sell" => qty <= acct.positions[id.symbol]
  BY <1>2, <1>3 DEF T1Blocked, TruthfulContext
<1> QED
  BY <1>4, <1>5

LEMMA MatchReasonType ==
  ASSUME NEW side \in Sides, NEW qty, NEW row, NEW position
  PROVE  MatchReason(side, qty, row, position) \in Reasons
BY DEF MatchReason, SealedReason, Reasons, GateReasons, MatchReasons

\* What a fill may be: unfilled with the account untouched, or filled with the
\* account still made of naturals and whole lots.
GoodFill(acct, fill) ==
    /\ fill.status \in {"pending", "rejected", "filled"}
    /\ fill.reason \in Reasons
    /\ fill.price \in Nat
    /\ fill.fee \in Nat
    /\ fill.acct \in Accounts
    /\ LotsOnly(fill.acct)
    /\ fill.status # "filled" => fill.acct = acct

LEMMA UnfilledIsGood ==
  ASSUME NEW acct \in Accounts, LotsOnly(acct), NEW status \in {"pending", "rejected"},
         NEW reason \in Reasons
  PROVE  GoodFill(acct, Unfilled(acct, status, reason))
BY DEF GoodFill, Unfilled

LEMMA PurchaseIsGood ==
  ASSUME NEW acct \in Accounts, LotsOnly(acct), NEW id \in OrderIds, id.side = "buy",
         NEW qty \in Nat \ {0}, qty % LOT_SIZE = 0, NEW price \in Nat,
         Cost(price, qty) <= acct.cash
  PROVE  GoodFill(acct, Filled(acct, id, qty, price))
<1> DEFINE fill == Filled(acct, id, qty, price)
           held == acct.positions[id.symbol]
<1>1. id.symbol \in Symbols /\ id.side \in Sides /\ LOT_SIZE \in Nat \ {0}
  BY MatchingAssumption DEF OrderIds
<1>2. acct.cash \in Nat /\ acct.positions \in [Symbols -> Nat] /\ held \in Nat
      /\ held % LOT_SIZE = 0
  BY <1>1 DEF Accounts, LotsOnly
<1>3. price * qty \in Nat
  OBVIOUS
<1>4. Fee(id.side, price * qty) \in Nat
  BY <1>1, <1>3, FeeInNat
<1>5. Cost(price, qty) \in Nat /\ acct.cash - Cost(price, qty) \in Nat
  BY <1>2, <1>3, <1>4 DEF Cost
<1>6. (held + qty) % LOT_SIZE = 0
  BY <1>1, <1>2, LotsAdd
<1>7. fill.acct = [cash |-> acct.cash - Cost(price, qty),
                   positions |-> [acct.positions EXCEPT ![id.symbol] = held + qty]]
  BY DEF Filled
<1>8. fill.acct \in Accounts
  BY <1>1, <1>2, <1>5, <1>7 DEF Accounts
<1>9. LotsOnly(fill.acct)
  BY <1>1, <1>2, <1>6, <1>7 DEF LotsOnly
<1>10. /\ fill.status = "filled" /\ fill.reason = OK /\ fill.price = price
       /\ fill.fee = Fee(id.side, price * qty)
  BY DEF Filled
<1> QED
  BY ONLY <1>4, <1>8, <1>9, <1>10, price \in Nat DEF GoodFill, Reasons, Filled

LEMMA SaleIsGood ==
  ASSUME NEW acct \in Accounts, LotsOnly(acct), NEW id \in OrderIds, id.side = "sell",
         NEW qty \in Nat \ {0}, qty % LOT_SIZE = 0, qty <= acct.positions[id.symbol],
         NEW price \in Nat, Proceeds(price, qty) \in Nat
  PROVE  GoodFill(acct, Filled(acct, id, qty, price))
<1> DEFINE fill == Filled(acct, id, qty, price)
           held == acct.positions[id.symbol]
<1>1. id.symbol \in Symbols /\ id.side \in Sides /\ LOT_SIZE \in Nat \ {0}
  BY MatchingAssumption DEF OrderIds
<1>2. acct.cash \in Nat /\ acct.positions \in [Symbols -> Nat] /\ held \in Nat
      /\ held % LOT_SIZE = 0
  BY <1>1 DEF Accounts, LotsOnly
<1>3. price * qty \in Nat
  OBVIOUS
<1>4. Fee(id.side, price * qty) \in Nat
  BY <1>1, <1>3, FeeInNat
<1>5. (held - qty) % LOT_SIZE = 0 /\ held - qty \in Nat
  <2>1. qty <= held
    OBVIOUS
  <2> HIDE DEF held
  <2> QED
    BY <1>1, <1>2, <2>1, LotsSubtract
<1>6. fill.acct = [cash |-> acct.cash + Proceeds(price, qty),
                   positions |-> [acct.positions EXCEPT ![id.symbol] = held - qty]]
  BY DEF Filled
<1>7. fill.acct \in Accounts
  BY <1>1, <1>2, <1>5, <1>6 DEF Accounts
<1>8. LotsOnly(fill.acct)
  BY <1>1, <1>2, <1>5, <1>6 DEF LotsOnly
<1>9. /\ fill.status = "filled" /\ fill.reason = OK /\ fill.price = price
      /\ fill.fee = Fee(id.side, price * qty)
  BY DEF Filled
<1> QED
  BY ONLY <1>4, <1>7, <1>8, <1>9, price \in Nat DEF GoodFill, Reasons, Filled

\* The outcome of matching and filling an order on a whole-lot account.
LEMMA MatchedIsGood ==
  ASSUME NEW acct \in Accounts, LotsOnly(acct), NEW id \in OrderIds,
         NEW qty \in Nat \ {0}, NEW row \in MarketRows, NEW position,
         TruthfulContext(acct, id, position), NEW slip \in SlippageTiers
  PROVE  GoodFill(acct, Matched(acct, id, qty, row, position, slip))
<1> DEFINE reason == MatchReason(id.side, qty, row, position)
           price == FillPrice(id.side, row, slip)
<1>1. id.side \in Sides
  BY DEF OrderIds
<1>2. reason \in Reasons
  BY <1>1, MatchReasonType
<1>3. price \in Nat
  BY <1>1, FillPriceBound
<1>4. "INSUFFICIENT_CASH" \in Reasons
  BY DEF Reasons
<1>5. CASE reason # OK
  BY <1>2, <1>5, UnfilledIsGood DEF Matched, ApplyFill
<1>6. CASE reason = OK /\ id.side = "buy" /\ Cost(price, qty) > acct.cash
  BY <1>4, <1>6, UnfilledIsGood DEF Matched, ApplyFill
<1>7. CASE reason = OK /\ id.side = "buy" /\ ~(Cost(price, qty) > acct.cash)
  <2>1. qty % LOT_SIZE = 0
    BY <1>7, MatchedIsWholeLots
  <2>2. price * qty \in Nat
    BY <1>3
  <2>3. Fee("buy", price * qty) \in Nat
    BY <2>2, FeeInNat DEF Sides
  <2>4. Cost(price, qty) \in Nat /\ acct.cash \in Nat
    BY <2>2, <2>3 DEF Cost, Accounts
  <2>5. GoodFill(acct, Filled(acct, id, qty, price))
    BY <1>3, <1>7, <2>1, <2>4, PurchaseIsGood
  <2> QED
    BY <1>7, <2>5 DEF Matched, ApplyFill
<1>8. CASE reason = OK /\ id.side = "sell"
  <2>1. qty % LOT_SIZE = 0 /\ qty <= acct.positions[id.symbol]
    BY <1>8, MatchedIsWholeLots
  <2>2. Proceeds(price, qty) \in Nat
    BY <1>8, <2>1, SaleCoversFee
  <2>3. GoodFill(acct, Filled(acct, id, qty, price))
    BY <1>3, <1>8, <2>1, <2>2, SaleIsGood
  <2> QED
    BY <1>8, <2>3 DEF Matched, ApplyFill
<1> QED
  BY <1>1, <1>5, <1>6, <1>7, <1>8 DEF Sides

\* A good fill is never refused for want of shares, and makes a good row.
LEMMA GoodFillMakesRow ==
  ASSUME NEW acct, NEW fill, GoodFill(acct, fill), NEW qty \in Nat \ {0},
         NEW decision \in Decisions, NEW attempts \in Nat, NEW created \in Days
  PROVE  /\ ~Uncovered(fill)
         /\ OrderRowOf(fill, qty, decision, attempts, created) \in OrderRow
<1>1. ~Uncovered(fill)
  BY DEF GoodFill, Uncovered, Accounts
<1>2. OrderRowOf(fill, qty, decision, attempts, created) \in OrderRow
  BY DEF GoodFill, OrderRowOf, OrderRow, Statuses
<1> QED
  BY <1>1, <1>2

\* Inserting a good row into the order table.
LEMMA InsertDomain ==
  ASSUME NEW table, NEW key, NEW row
  PROVE  /\ DOMAIN Insert(table, key, row) = DOMAIN table \cup {key}
         /\ Insert(table, key, row)[key] = row
         /\ \A k \in DOMAIN table : k # key => Insert(table, key, row)[k] = table[k]
BY DEF Insert

-----------------------------------------------------------------------------
(* The broker.                                                             *)

\* What identifies an order never changes.
SameOrder(old, new) ==
    /\ new.qty = old.qty
    /\ new.decision = old.decision
    /\ new.created = old.created

\* What a transaction may make of an order row.
MayBecome(old, new) ==
    /\ old.status \in Terminal => new = old
    /\ SameOrder(old, new)

NewlyFilled(before, after) ==
    \E id \in DOMAIN after :
        /\ after[id].status = "filled"
        /\ id \in DOMAIN before => before[id].status # "filled"

BatchInv ==
    Locked =>
        /\ LotsOnly(txn.account)
        /\ \A id \in DOMAIN orders : TimelyRow(txn.orders[id])
        /\ \A id \in DOMAIN orders : MayBecome(orders[id], txn.orders[id])
        /\ txn.account # account => NewlyFilled(orders, txn.orders)

\* A cancel holds the row it read: what identifies an order is still right.
CancelInv ==
    \A id \in DOMAIN cancelling : SameOrder(orders[id], cancelling[id])

BrokerInv ==
    /\ BrokerTypeOK
    /\ WholeLots
    /\ ExpiresOnTime
    /\ BatchInv
    /\ CancelInv

-----------------------------------------------------------------------------
(* What the actions do to rows and fills.                                  *)

\* While no batch is open, txn is NoTxn and the batch part holds by itself.
LEMMA UnlockedTxn ==
  ASSUME txn = NoTxn
  PROVE  ~Locked /\ TxnOK /\ BatchInv
BY DEF NoTxn, Locked, TxnOK, BatchInv

LEMMA UnlockedIsNoTxn ==
  ASSUME TxnOK, ~Locked
  PROVE  txn = NoTxn
BY DEF TxnOK, Locked, Batch

\* A fresh row has not been retried and is never expired.
LEMMA FreshRowIsTimely ==
  ASSUME NEW acct, NEW fill, GoodFill(acct, fill), NEW qty, NEW decision, NEW created
  PROVE  TimelyRow(OrderRowOf(fill, qty, decision, 0, created))
BY BrokerAssumption DEF GoodFill, TimelyRow, OrderRowOf

\* Retrying a pending row: its type, its age, and what it may become.
LEMMA RetriedRow ==
  ASSUME NEW acct, NEW fill, GoodFill(acct, fill), NEW row \in OrderRow,
         row.status = "pending", TimelyRow(row)
  PROVE  /\ Retried(row, fill) \in OrderRow
         /\ TimelyRow(Retried(row, fill))
         /\ MayBecome(row, Retried(row, fill))
         /\ fill.status = "filled" => Retried(row, fill).status = "filled"
<1> DEFINE attempts == row.attempts + 1
           status == StatusAfter(fill.status, attempts)
<1>1. /\ row.qty \in Nat \ {0} /\ row.decision \in Decisions /\ row.created \in Days
      /\ row.attempts \in Nat
  BY DEF OrderRow
<1>2. row.attempts < PENDING_EXPIRE_DAYS /\ PENDING_EXPIRE_DAYS \in Nat
  BY BrokerAssumption DEF TimelyRow
<1>3. /\ fill.status \in {"pending", "rejected", "filled"}
      /\ fill.reason \in Reasons /\ fill.price \in Nat /\ fill.fee \in Nat
  BY DEF GoodFill
<1>4. Retried(row, fill) = [qty |-> row.qty, status |-> status, reason |-> fill.reason,
                            price |-> fill.price, fee |-> fill.fee, attempts |-> attempts,
                            decision |-> row.decision, created |-> row.created]
  BY DEF Retried, OrderRowOf
<1>5. /\ status \in Statuses
      /\ status = "pending" => attempts < PENDING_EXPIRE_DAYS
      /\ status = "expired" => attempts = PENDING_EXPIRE_DAYS
      /\ fill.status = "filled" => status = "filled"
  BY <1>1, <1>2, <1>3 DEF StatusAfter, Statuses
<1> HIDE DEF status
<1> QED
  BY <1>1, <1>2, <1>3, <1>4, <1>5 DEF OrderRow, TimelyRow, MayBecome, SameOrder, Terminal

-----------------------------------------------------------------------------
(* The invariant holds at the start.                                       *)

LEMMA InitInv ==
  ASSUME Init
  PROVE  BrokerInv
<1>1. DOMAIN orders = {} /\ DOMAIN cancelling = {}
  BY DEF Init, LedgerInit
<1>2. today \in Days
  BY LedgerAssumption DEF Init, LedgerInit, Days
<1>3. account \in Accounts
  BY LedgerAssumption DEF Init, LedgerInit, Accounts
<1>4. LotsOnly(account)
  BY MatchingAssumption DEF Init, LedgerInit, LotsOnly
<1>5. TxnOK /\ BatchInv
  BY UnlockedTxn DEF Init
<1> QED
  BY <1>1, <1>2, <1>3, <1>4, <1>5
  DEF BrokerInv, BrokerTypeOK, LedgerTypeOK, WholeLots, ExpiresOnTime, CancelInv

-----------------------------------------------------------------------------
(* Inserting a row: place_order and record_order_rejection.                *)

LEMMA InsertKeepsInv ==
  ASSUME BrokerInv, txn = NoTxn, NEW id \in OrderIds, ~AlreadyPlaced(id),
         NEW fill, GoodFill(account, fill), NEW qty \in Nat \ {0},
         NEW decision \in Decisions,
         orders' = Insert(orders, id, OrderRowOf(fill, qty, decision, 0, today)),
         account' = fill.acct, UNCHANGED <<today, txn, cancelling>>
  PROVE  /\ BrokerInv'
         /\ \A k \in DOMAIN orders : k \in DOMAIN orders' /\ orders'[k] = orders[k]
         /\ account' # account => NewlyFilled(orders, orders')
<1> DEFINE new == OrderRowOf(fill, qty, decision, 0, today)
<1>1. today \in Days
  BY DEF BrokerInv, BrokerTypeOK, LedgerTypeOK
<1>2. new \in OrderRow
  BY <1>1, GoodFillMakesRow
<1>3. TimelyRow(new)
  BY FreshRowIsTimely
<1>4. /\ DOMAIN orders' = DOMAIN orders \cup {id}
      /\ orders'[id] = new
      /\ \A k \in DOMAIN orders : orders'[k] = orders[k]
  <2>1. orders' = Insert(orders, id, new)
    OBVIOUS
  <2> HIDE DEF new
  <2> QED
    BY <2>1 DEF Insert, AlreadyPlaced
<1>5. new.status = fill.status
  BY DEF OrderRowOf
<1>6. account' \in Accounts /\ LotsOnly(account')
  BY DEF GoodFill
<1>7. account' # account => new.status = "filled"
  BY <1>5 DEF GoodFill
<1> HIDE DEF new
<1>8. LedgerTypeOK'
  BY <1>1, <1>2, <1>4, <1>6 DEF LedgerTypeOK, BrokerInv, BrokerTypeOK
<1>9. (TxnOK /\ BatchInv)'
  <2>1. txn' = NoTxn
    OBVIOUS
  <2> QED
    BY <2>1 DEF NoTxn, Locked, TxnOK, BatchInv
<1>10. BrokerTypeOK'
  BY <1>4, <1>8, <1>9 DEF BrokerTypeOK, BrokerInv
<1>11. WholeLots'
  BY <1>6 DEF WholeLots, LotsOnly
<1>12. ExpiresOnTime'
  BY <1>3, <1>4 DEF ExpiresOnTime, BrokerInv
<1>13. CancelInv'
  BY <1>4 DEF CancelInv, BrokerInv, BrokerTypeOK
<1>14. account' # account => NewlyFilled(orders, orders')
  BY <1>4, <1>7 DEF NewlyFilled, AlreadyPlaced
<1> QED
  BY <1>4, <1>9, <1>10, <1>11, <1>12, <1>13, <1>14 DEF BrokerInv

\* Every context a caller may pass is truthful.
LEMMA ContextsAreTruthful ==
  ASSUME BrokerInv, NEW id \in OrderIds, NEW position \in Contexts(id)
  PROVE  TruthfulContext(account, id, position)
<1>1. account \in Accounts
  BY DEF BrokerInv, BrokerTypeOK, LedgerTypeOK
<1>2. CASE position = StoredContext(account, id.symbol)
  BY <1>1, <1>2, StoredContextIsTruthful
<1>3. CASE /\ id.side = "sell"
           /\ \E k \in 0 .. account.positions[id.symbol] :
                position = [sellable_qty |-> k, total_qty |-> account.positions[id.symbol]]
  BY <1>1, <1>3 DEF TruthfulContext, Accounts, OrderIds
<1> QED
  BY <1>2, <1>3 DEF Contexts

-----------------------------------------------------------------------------
(* What every step does, one lemma per action.                             *)

\* A cancel that read the row writes it.
CanceledOver(id) ==
    /\ id \in DOMAIN cancelling
    /\ orders'[id].reason = "CANCELED"
    /\ SameOrder(orders[id], orders'[id])

StepOK ==
    /\ BrokerInv'
    /\ \A id \in DOMAIN orders :
          /\ id \in DOMAIN orders'
          /\ MayBecome(orders[id], orders'[id]) \/ CanceledOver(id)
    /\ account' # account => NewlyFilled(orders, orders')

\* A step that leaves the committed tables alone.
LEMMA QuietStep ==
  ASSUME BrokerInv, UNCHANGED <<orders, account>>, today' \in Days,
         TxnOK', BatchInv', CancelInv',
         DOMAIN cancelling' \subseteq DOMAIN orders,
         \A id \in DOMAIN cancelling' : cancelling'[id] \in OrderRow
  PROVE  StepOK
<1>1. LedgerTypeOK' /\ WholeLots' /\ ExpiresOnTime'
  BY DEF BrokerInv, BrokerTypeOK, LedgerTypeOK, WholeLots, LotsOnly, ExpiresOnTime
<1>2. \A id \in DOMAIN orders : MayBecome(orders[id], orders'[id])
  BY DEF MayBecome, SameOrder
<1> QED
  BY <1>1, <1>2 DEF StepOK, BrokerInv, BrokerTypeOK

\* A step that touches neither the batch nor the cancels nor the tables.
LEMMA StutterStep ==
  ASSUME BrokerInv, UNCHANGED <<orders, account, txn, cancelling>>, today' \in Days
  PROVE  StepOK
<1>1. TxnOK'
  BY DEF BrokerInv, BrokerTypeOK, TxnOK, OrderTableOK, PendingIds
<1>2. BatchInv'
  BY DEF BrokerInv, BatchInv, Locked, LotsOnly, NewlyFilled
<1>3. CancelInv'
  BY DEF BrokerInv, CancelInv
<1> QED
  BY <1>1, <1>2, <1>3, QuietStep DEF BrokerInv, BrokerTypeOK

LEMMA InsertStep ==
  ASSUME BrokerInv, ~Locked, NEW id \in OrderIds, ~AlreadyPlaced(id),
         NEW fill, GoodFill(account, fill), NEW qty \in Nat \ {0},
         NEW decision \in Decisions,
         orders' = Insert(orders, id, OrderRowOf(fill, qty, decision, 0, today)),
         account' = fill.acct, UNCHANGED <<today, txn, cancelling>>
  PROVE  StepOK
<1>1. txn = NoTxn
  BY UnlockedIsNoTxn DEF BrokerInv, BrokerTypeOK
<1>2. /\ BrokerInv'
      /\ \A k \in DOMAIN orders : k \in DOMAIN orders' /\ orders'[k] = orders[k]
      /\ account' # account => NewlyFilled(orders, orders')
  BY <1>1, InsertKeepsInv
<1> QED
  BY <1>2 DEF StepOK, MayBecome, SameOrder

LEMMA PlaceStep ==
  ASSUME BrokerInv, NEW id \in OrderIds, NEW qty \in Quantities, NEW decision \in Decisions,
         NEW row \in MarketRows, NEW position \in Contexts(id),
         Place(id, qty, decision, row, position)
  PROVE  StepOK
<1> DEFINE fill == Matched(account, id, qty, row, position, row.slip)
<1>1. ~Locked /\ UNCHANGED <<today, txn, cancelling>>
      /\ IF AlreadyPlaced(id) \/ Uncovered(fill)
         THEN UNCHANGED <<orders, account>>
         ELSE /\ orders' = Insert(orders, id, OrderRowOf(fill, qty, decision, 0, today))
              /\ account' = fill.acct
  BY DEF Place, PlaceOrder
<1>2. account \in Accounts /\ LotsOnly(account) /\ today \in Days
  BY DEF BrokerInv, BrokerTypeOK, LedgerTypeOK, WholeLots
<1>3. qty \in Nat \ {0} /\ row.slip \in SlippageTiers
  BY BrokerAssumption, MarketAssumption DEF Rows
<1>4. GoodFill(account, fill)
  BY <1>2, <1>3, ContextsAreTruthful, MatchedIsGood
<1> HIDE DEF fill
<1>5. CASE AlreadyPlaced(id) \/ Uncovered(fill)
  BY <1>1, <1>2, <1>5, StutterStep
<1>6. CASE ~(AlreadyPlaced(id) \/ Uncovered(fill))
  BY <1>1, <1>3, <1>4, <1>6, InsertStep
<1> QED
  BY <1>5, <1>6

LEMMA RejectStep ==
  ASSUME BrokerInv, NEW id \in OrderIds, NEW qty \in Quantities, NEW decision \in Decisions,
         NEW row \in MarketRows, Reject(id, qty, decision, row)
  PROVE  StepOK
<1> DEFINE position == StoredContext(account, id.symbol)
           reason == GateReason(id.side, qty, row, position, 0, 0, 0)
           fill == Unfilled(account, "rejected", reason)
<1>1. /\ ~Locked /\ reason # OK /\ UNCHANGED <<today, account, txn, cancelling>>
      /\ IF AlreadyPlaced(id) THEN UNCHANGED orders
         ELSE orders' = Insert(orders, id, OrderRowOf(fill, qty, decision, 0, today))
  BY DEF Reject, RecordRejection
<1>2. account \in Accounts /\ LotsOnly(account) /\ today \in Days
  BY DEF BrokerInv, BrokerTypeOK, LedgerTypeOK, WholeLots
<1>3. qty \in Nat \ {0}
  BY BrokerAssumption
<1>4. reason \in Reasons
  BY DEF GateReason, SealedReason, Reasons, GateReasons, MatchReasons
<1>5. GoodFill(account, fill)
  BY <1>2, <1>4, UnfilledIsGood
<1>6. account' = fill.acct
  BY <1>1 DEF Unfilled
<1> HIDE DEF fill, reason
<1>7. CASE AlreadyPlaced(id)
  BY <1>1, <1>2, <1>7, StutterStep
<1>8. CASE ~AlreadyPlaced(id)
  BY <1>1, <1>3, <1>5, <1>6, <1>8, InsertStep
<1> QED
  BY <1>7, <1>8

LEMMA CancelReadStep ==
  ASSUME BrokerInv, NEW id \in OrderIds, CancelRead(id)
  PROVE  StepOK
<1>1. /\ id \in DOMAIN orders
      /\ cancelling' = Insert(cancelling, id, orders[id])
      /\ UNCHANGED <<today, orders, account, txn>>
  BY DEF CancelRead, ledgerVars
<1>2. today \in Days /\ orders[id] \in OrderRow
  BY <1>1 DEF BrokerInv, BrokerTypeOK, LedgerTypeOK
<1>3. /\ DOMAIN cancelling' = DOMAIN cancelling \cup {id}
      /\ \A k \in DOMAIN cancelling' :
            cancelling'[k] = IF k = id THEN orders[id] ELSE cancelling[k]
  BY <1>1 DEF Insert
<1>4. /\ DOMAIN cancelling' \subseteq DOMAIN orders
      /\ \A k \in DOMAIN cancelling' : cancelling'[k] \in OrderRow
  BY <1>1, <1>2, <1>3 DEF BrokerInv, BrokerTypeOK
<1>5. TxnOK' /\ BatchInv'
  BY <1>1 DEF BrokerInv, BrokerTypeOK, TxnOK, OrderTableOK, PendingIds, BatchInv, Locked,
              LotsOnly, NewlyFilled
<1>6. CancelInv'
  BY <1>1, <1>3 DEF BrokerInv, CancelInv, SameOrder
<1> QED
  BY <1>1, <1>2, <1>4, <1>5, <1>6, QuietStep

\* A cancelled row is well-typed, and its age does not count.
LEMMA CanceledRow ==
  ASSUME NEW row \in OrderRow
  PROVE  Canceled(row) \in OrderRow /\ TimelyRow(Canceled(row))
BY DEF Canceled, OrderRow, Statuses, Reasons, TimelyRow

LEMMA CancelWriteStep ==
  ASSUME BrokerInv, NEW id \in OrderIds, CancelWrite(id)
  PROVE  StepOK
<1>1. /\ ~Locked /\ id \in DOMAIN cancelling
      /\ orders' = [orders EXCEPT ![id] = Canceled(cancelling[id])]
      /\ cancelling' = WithoutKey(cancelling, id)
      /\ UNCHANGED <<today, account, txn>>
  BY DEF CancelWrite
<1>2. /\ id \in DOMAIN orders /\ DOMAIN cancelling \subseteq DOMAIN orders
      /\ \A k \in DOMAIN cancelling : cancelling[k] \in OrderRow
  BY <1>1 DEF BrokerInv, BrokerTypeOK
<1>3. Canceled(cancelling[id]) \in OrderRow /\ TimelyRow(Canceled(cancelling[id]))
  BY <1>1, <1>2, CanceledRow
<1>4. /\ DOMAIN orders' = DOMAIN orders
      /\ \A k \in DOMAIN orders :
            orders'[k] = IF k = id THEN Canceled(cancelling[id]) ELSE orders[k]
  BY <1>1, <1>2
<1>5. LedgerTypeOK' /\ WholeLots' /\ ExpiresOnTime'
  BY <1>1, <1>3, <1>4
  DEF BrokerInv, BrokerTypeOK, LedgerTypeOK, WholeLots, LotsOnly, ExpiresOnTime
<1>6. TxnOK' /\ BatchInv'
  <2>1. txn = NoTxn
    BY <1>1, UnlockedIsNoTxn DEF BrokerInv, BrokerTypeOK
  <2>2. txn' = NoTxn
    BY <1>1, <2>1
  <2> QED
    BY <2>2 DEF NoTxn, Locked, TxnOK, BatchInv
<1>7. /\ DOMAIN cancelling' \subseteq DOMAIN orders'
      /\ \A k \in DOMAIN cancelling' : cancelling'[k] \in OrderRow
  BY <1>1, <1>2, <1>4 DEF WithoutKey
<1>8. \A k \in DOMAIN cancelling : SameOrder(orders[k], cancelling[k])
  BY DEF BrokerInv, CancelInv
<1>9. CancelInv'
  BY <1>1, <1>2, <1>4, <1>8 DEF CancelInv, WithoutKey, SameOrder, Canceled, OrderRow
<1>10. CanceledOver(id)
  BY <1>1, <1>2, <1>4, <1>8 DEF CanceledOver, SameOrder, Canceled, OrderRow
<1>11. \A k \in DOMAIN orders : k # id => MayBecome(orders[k], orders'[k])
  BY <1>4 DEF MayBecome, SameOrder
<1> QED
  BY <1>1, <1>4, <1>5, <1>6, <1>7, <1>9, <1>10, <1>11 DEF StepOK, BrokerInv, BrokerTypeOK

LEMMA RetryBeginStep ==
  ASSUME BrokerInv, NEW bars \in BarMaps, RetryBegin(bars)
  PROVE  StepOK
<1>1. /\ txn' = Batch(PendingIds, bars, orders, account)
      /\ UNCHANGED <<today, orders, account, cancelling>>
  BY DEF RetryBegin, ledgerVars
<1>2. /\ today \in Days /\ account \in Accounts /\ LotsOnly(account)
      /\ DOMAIN orders \subseteq OrderIds /\ \A id \in DOMAIN orders : orders[id] \in OrderRow
  BY DEF BrokerInv, BrokerTypeOK, LedgerTypeOK, WholeLots
<1>3. TxnOK'
  BY <1>1, <1>2 DEF TxnOK, OrderTableOK, PendingIds, Batch
<1>4. BatchInv'
  <2>1. LotsOnly(txn.account)'
    BY <1>1, <1>2 DEF LotsOnly, Batch
  <2>2. \A id \in DOMAIN orders : TimelyRow(txn'.orders[id])
    BY <1>1 DEF BrokerInv, ExpiresOnTime, Batch
  <2>3. \A id \in DOMAIN orders : MayBecome(orders[id], txn'.orders[id])
    BY <1>1 DEF MayBecome, SameOrder, Batch
  <2>4. txn'.account = account
    BY <1>1 DEF Batch
  <2> QED
    BY <1>1, <2>1, <2>2, <2>3, <2>4 DEF BatchInv
<1>5. CancelInv'
  BY <1>1 DEF BrokerInv, CancelInv
<1> QED
  BY <1>1, <1>2, <1>3, <1>4, <1>5, QuietStep DEF BrokerInv, BrokerTypeOK

\* A retry of one row works on the copy only.  The row is still pending in the
\* copy because the copy agrees with the table on the rows that are left.
LEMMA RetryRowStep ==
  ASSUME BrokerInv, NEW id \in OrderIds, RetryRow(id)
  PROVE  StepOK
<1> DEFINE row == txn.orders[id]
           fill == Matched(txn.account, id, row.qty, txn.bars[id.symbol],
                           StoredContext(txn.account, id.symbol), MAX_SLIPPAGE)
           new == Retried(row, fill)
<1>1. /\ Locked /\ id \in txn.todo
      /\ UNCHANGED <<today, orders, account, cancelling>>
      /\ txn' = IF id.symbol \in DOMAIN txn.bars
                THEN Batch(txn.todo \ {id}, txn.bars, [txn.orders EXCEPT ![id] = new], fill.acct)
                ELSE Batch(txn.todo \ {id}, txn.bars, txn.orders, txn.account)
  BY DEF RetryRow, Oldest, ledgerVars
<1>2. /\ txn = Batch(txn.todo, txn.bars, txn.orders, txn.account)
      /\ OrderTableOK(txn.orders)
      /\ DOMAIN txn.orders = DOMAIN orders
      /\ txn.todo \subseteq {k \in PendingIds : txn.orders[k] = orders[k]}
      /\ txn.account \in Accounts
      /\ txn.bars \in BarMaps
  BY <1>1 DEF BrokerInv, BrokerTypeOK, TxnOK, Locked, NoTxn
<1>3. /\ LotsOnly(txn.account)
      /\ \A k \in DOMAIN orders : TimelyRow(txn.orders[k])
      /\ \A k \in DOMAIN orders : MayBecome(orders[k], txn.orders[k])
      /\ txn.account # account => NewlyFilled(orders, txn.orders)
  BY <1>1 DEF BrokerInv, BatchInv
<1>4. /\ id \in DOMAIN orders /\ row = orders[id] /\ row.status = "pending"
      /\ row \in OrderRow /\ TimelyRow(row)
  BY <1>1, <1>2, <1>3 DEF PendingIds, OrderTableOK
<1>5. today \in Days
  BY DEF BrokerInv, BrokerTypeOK, LedgerTypeOK
<1>6. CancelInv'
  BY <1>1 DEF BrokerInv, CancelInv
<1>7. ASSUME TxnOK', BatchInv'
      PROVE  StepOK
  BY <1>1, <1>5, <1>6, <1>7, QuietStep DEF BrokerInv, BrokerTypeOK
<1>8. CASE id.symbol \notin DOMAIN txn.bars
  <2>1. txn' = Batch(txn.todo \ {id}, txn.bars, txn.orders, txn.account)
    BY <1>1, <1>8
  <2>2. TxnOK'
    <3>1. /\ txn'.todo = txn.todo \ {id} /\ txn'.bars = txn.bars
          /\ txn'.orders = txn.orders /\ txn'.account = txn.account
      BY <2>1 DEF Batch
    <3>2. txn' = Batch(txn'.todo, txn'.bars, txn'.orders, txn'.account)
      BY <2>1, <3>1
    <3>3. txn'.todo \subseteq {k \in PendingIds : txn.orders[k] = orders[k]}
      BY <1>2, <3>1
    <3> QED
      BY <1>1, <1>2, <3>1, <3>2, <3>3 DEF TxnOK, OrderTableOK, PendingIds
  <2>3. BatchInv'
    BY <1>1, <1>3, <2>1 DEF BatchInv, LotsOnly, NewlyFilled, Batch
  <2> QED
    BY <1>7, <2>2, <2>3
<1>9. CASE id.symbol \in DOMAIN txn.bars
  <2>1. txn.bars[id.symbol] \in MarketRows
    BY <1>2, <1>9 DEF BarMaps
  <2>2. row.qty \in Nat \ {0}
    BY <1>4 DEF OrderRow
  <2>3. TruthfulContext(txn.account, id, StoredContext(txn.account, id.symbol))
    BY <1>2, StoredContextIsTruthful
  <2>4. GoodFill(txn.account, fill)
    BY <1>2, <1>3, <2>1, <2>2, <2>3, MatchingAssumption, MatchedIsGood
  <2> HIDE DEF fill
  <2>5. /\ new \in OrderRow /\ TimelyRow(new) /\ MayBecome(row, new)
        /\ fill.status = "filled" => new.status = "filled"
    BY <1>4, <2>4, RetriedRow
  <2>6. /\ fill.acct \in Accounts /\ LotsOnly(fill.acct)
        /\ fill.status # "filled" => fill.acct = txn.account
    BY <2>4 DEF GoodFill
  <2> HIDE DEF new
  <2> DEFINE after == [txn.orders EXCEPT ![id] = new]
  <2>7. txn' = Batch(txn.todo \ {id}, txn.bars, after, fill.acct)
    BY <1>1, <1>9
  <2>8. /\ DOMAIN after = DOMAIN orders
        /\ \A k \in DOMAIN orders : after[k] = IF k = id THEN new ELSE txn.orders[k]
    BY <1>2, <1>4
  <2>9. txn'.orders = after /\ txn'.account = fill.acct /\ txn'.todo = txn.todo \ {id}
        /\ txn'.bars = txn.bars /\ txn'.open = TRUE
    BY <2>7 DEF Batch
  <2> HIDE DEF after, row
  <2>10. TxnOK'
    <3>1. OrderTableOK(after)
      BY <1>2, <2>5, <2>8 DEF OrderTableOK
    <3>2. txn'.todo \subseteq {k \in PendingIds : after[k] = orders[k]}
      BY <1>2, <2>8, <2>9 DEF PendingIds
    <3>3. txn' = Batch(txn'.todo, txn'.bars, txn'.orders, txn'.account)
      BY <2>7, <2>9
    <3> QED
      BY <1>1, <1>2, <2>6, <2>8, <2>9, <3>1, <3>2, <3>3
      DEF TxnOK, OrderTableOK, PendingIds
  <2>11. BatchInv'
    <3>1. LotsOnly(txn'.account)
      BY <2>6, <2>9
    <3>2. \A k \in DOMAIN orders : TimelyRow(after[k])
      BY <1>3, <2>5, <2>8
    <3>3. \A k \in DOMAIN orders : MayBecome(orders[k], after[k])
      BY <1>3, <1>4, <2>5, <2>8
    <3>4. ASSUME txn'.account # account
          PROVE  NewlyFilled(orders, after)
      <4>1. CASE fill.status = "filled"
        BY <1>4, <2>5, <2>8, <4>1 DEF NewlyFilled
      <4>2. CASE fill.status # "filled"
        <5>1. NewlyFilled(orders, txn.orders)
          BY <1>3, <2>6, <2>9, <3>4, <4>2
        <5>2. PICK k \in DOMAIN txn.orders :
                /\ txn.orders[k].status = "filled"
                /\ k \in DOMAIN orders => orders[k].status # "filled"
          BY <5>1 DEF NewlyFilled
        <5>3. k # id
          BY <1>4, <5>2 DEF row
        <5> QED
          BY <1>2, <2>8, <5>2, <5>3 DEF NewlyFilled
      <4> QED
        BY <4>1, <4>2
    <3> QED
      BY <1>1, <2>9, <3>1, <3>2, <3>3, <3>4 DEF BatchInv, LotsOnly, NewlyFilled
  <2> QED
    BY <1>7, <2>10, <2>11
<1> QED
  BY <1>8, <1>9

\* The copy becomes the tables.
LEMMA RetryCommitStep ==
  ASSUME BrokerInv, RetryCommit
  PROVE  StepOK
<1>1. /\ Locked /\ orders' = txn.orders /\ account' = txn.account /\ txn' = NoTxn
      /\ UNCHANGED <<today, cancelling>>
  BY DEF RetryCommit
<1>2. /\ OrderTableOK(txn.orders) /\ DOMAIN txn.orders = DOMAIN orders
      /\ txn.account \in Accounts
  BY <1>1 DEF BrokerInv, BrokerTypeOK, TxnOK, Locked, NoTxn
<1>3. /\ LotsOnly(txn.account)
      /\ \A k \in DOMAIN orders : TimelyRow(txn.orders[k])
      /\ \A k \in DOMAIN orders : MayBecome(orders[k], txn.orders[k])
      /\ txn.account # account => NewlyFilled(orders, txn.orders)
  BY <1>1 DEF BrokerInv, BatchInv
<1>4. LedgerTypeOK'
  BY <1>1, <1>2 DEF BrokerInv, BrokerTypeOK, LedgerTypeOK, OrderTableOK
<1>5. WholeLots' /\ ExpiresOnTime'
  BY <1>1, <1>2, <1>3 DEF WholeLots, LotsOnly, ExpiresOnTime
<1>6. TxnOK' /\ BatchInv'
  BY <1>1 DEF NoTxn, Locked, TxnOK, BatchInv
<1>7. /\ DOMAIN cancelling' \subseteq DOMAIN orders'
      /\ \A k \in DOMAIN cancelling' : cancelling'[k] \in OrderRow
  BY <1>1, <1>2 DEF BrokerInv, BrokerTypeOK
<1>8. CancelInv'
  BY <1>1, <1>2, <1>3 DEF BrokerInv, BrokerTypeOK, CancelInv, MayBecome, SameOrder
<1> QED
  BY <1>1, <1>2, <1>3, <1>4, <1>5, <1>6, <1>7, <1>8 DEF StepOK, BrokerInv, BrokerTypeOK

LEMMA RetryRollbackStep ==
  ASSUME BrokerInv, RetryRollback
  PROVE  StepOK
<1>1. txn' = NoTxn /\ UNCHANGED <<today, orders, account, cancelling>>
  BY DEF RetryRollback, ledgerVars
<1>2. TxnOK' /\ BatchInv'
  BY <1>1 DEF NoTxn, Locked, TxnOK, BatchInv
<1> QED
  BY <1>1, <1>2, QuietStep
  DEF BrokerInv, BrokerTypeOK, LedgerTypeOK, CancelInv

LEMMA NextDayStep ==
  ASSUME BrokerInv, NextDay
  PROVE  StepOK
<1>1. today < MaxDay /\ today' = today + 1 /\ UNCHANGED <<orders, account, txn, cancelling>>
  BY DEF NextDay
<1>2. today' \in Days
  BY <1>1, LedgerAssumption DEF BrokerInv, BrokerTypeOK, LedgerTypeOK, Days
<1> QED
  BY <1>1, <1>2, StutterStep

LEMMA StepInv ==
  ASSUME BrokerInv, [Next]_vars
  PROVE  StepOK
<1>1. CASE \E id \in OrderIds, qty \in Quantities, decision \in Decisions, row \in MarketRows :
              \E position \in Contexts(id) : Place(id, qty, decision, row, position)
  BY <1>1, PlaceStep
<1>2. CASE \E id \in OrderIds, qty \in Quantities, decision \in Decisions, row \in MarketRows :
              Reject(id, qty, decision, row)
  BY <1>2, RejectStep
<1>3. CASE \E id \in OrderIds : CancelRead(id)
  BY <1>3, CancelReadStep
<1>4. CASE \E id \in OrderIds : CancelWrite(id)
  BY <1>4, CancelWriteStep
<1>5. CASE \E id \in OrderIds : RetryRow(id)
  BY <1>5, RetryRowStep
<1>6. CASE \E bars \in BarMaps : RetryBegin(bars)
  BY <1>6, RetryBeginStep
<1>7. CASE RetryCommit
  BY <1>7, RetryCommitStep
<1>8. CASE RetryRollback
  BY <1>8, RetryRollbackStep
<1>9. CASE NextDay
  BY <1>9, NextDayStep
<1>10. CASE UNCHANGED vars
  BY <1>10, StutterStep DEF vars, BrokerInv, BrokerTypeOK, LedgerTypeOK
<1> QED
  BY <1>1, <1>2, <1>3, <1>4, <1>5, <1>6, <1>7, <1>8, <1>9, <1>10 DEF Next

-----------------------------------------------------------------------------
(* The theorems.                                                           *)

(***************************************************************************)
(* BrokerInv holds in every reachable state.                               *)
(***************************************************************************)
THEOREM BrokerInvariant == Spec => []BrokerInv
<1>1. Init => BrokerInv
  BY InitInv
<1>2. BrokerInv /\ [Next]_vars => BrokerInv'
  BY StepInv DEF StepOK
<1> QED
  BY <1>1, <1>2, PTL DEF Spec

(***************************************************************************)
(* The tables and the open batch are well-formed; above all, neither the   *)
(* cash balance nor a position is ever negative, whatever orders, retries, *)
(* rollbacks and cancels interleave.                                       *)
(***************************************************************************)
THEOREM TypeCorrect == Spec => []BrokerTypeOK
<1>1. BrokerInv => BrokerTypeOK
  BY DEF BrokerInv
<1> QED
  BY <1>1, BrokerInvariant, PTL

(***************************************************************************)
(* Only whole lots are held: the odd-lot exception of match_order is never *)
(* needed, and no sale of it leaves a remainder.                           *)
(***************************************************************************)
THEOREM HoldsWholeLots == Spec => []WholeLots
<1>1. BrokerInv => WholeLots
  BY DEF BrokerInv
<1> QED
  BY <1>1, BrokerInvariant, PTL

(***************************************************************************)
(* Pending orders are retried fewer than pending_expire_days times, and    *)
(* expire at exactly that count (retry_pending).                           *)
(***************************************************************************)
THEOREM PendingExpires == Spec => []ExpiresOnTime
<1>1. BrokerInv => ExpiresOnTime
  BY DEF BrokerInv
<1> QED
  BY <1>1, BrokerInvariant, PTL

(***************************************************************************)
(* No step moves cash or shares without filling an order in the same       *)
(* commit (_apply_fill and the order row share a transaction).             *)
(***************************************************************************)
THEOREM AccountMovesWithAFill == Spec => NoFillNoMove
<1>1. BrokerInv /\ [Next]_vars =>
        [account' # account =>
            \E id \in DOMAIN orders' :
               /\ orders'[id].status = "filled"
               /\ id \in DOMAIN orders => orders[id].status # "filled"]_vars
  BY StepInv DEF StepOK, NewlyFilled
<1> QED
  BY <1>1, BrokerInvariant, PTL DEF Spec, NoFillNoMove

(***************************************************************************)
(* An order row never disappears, keeps its quantity, decision and day,    *)
(* and once its status is terminal only the write of a cancel that read it *)
(* earlier changes it (paper.py reads it before the write locks the file). *)
(***************************************************************************)
THEOREM OnlyCancelsReopenOrders == Spec => OnlyCancelsReopen
<1>1. BrokerInv /\ [Next]_vars =>
        [\A id \in DOMAIN orders :
            /\ id \in DOMAIN orders'
            /\ orders[id].status \in Terminal =>
                  \/ orders'[id] = orders[id]
                  \/ id \in DOMAIN cancelling /\ orders'[id].reason = "CANCELED"
            /\ orders'[id].qty = orders[id].qty
            /\ orders'[id].decision = orders[id].decision
            /\ orders'[id].created = orders[id].created]_vars
  BY StepInv DEF StepOK, MayBecome, SameOrder, CanceledOver
<1> QED
  BY <1>1, BrokerInvariant, PTL DEF Spec, OnlyCancelsReopen

-----------------------------------------------------------------------------
(* The balance: what cash and positions owe to the filled orders.          *)

\* What the filled orders of a table account for.
CostsIn(t) == [id \in DOMAIN t |-> Cost(t[id].price, t[id].qty)]
ProceedsIn(t) == [id \in DOMAIN t |-> Proceeds(t[id].price, t[id].qty)]
SharesIn(t) == [id \in DOMAIN t |-> t[id].qty]
FilledIn(t, side) == {id \in DOMAIN t : id.side = side /\ t[id].status = "filled"}
FilledOf(t, side, s) == {id \in FilledIn(t, side) : id.symbol = s}

Balanced(t, acct) ==
    /\ acct.cash + SumOf(CostsIn(t), FilledIn(t, "buy"))
         = InitialCash + SumOf(ProceedsIn(t), FilledIn(t, "sell"))
    /\ \A s \in Symbols :
          acct.positions[s] + SumOf(SharesIn(t), FilledOf(t, "sell", s))
            = SumOf(SharesIn(t), FilledOf(t, "buy", s))

\* The totals of the ledger are such sums.
LEMMA LibrarySums ==
  ASSUME IsFiniteSet(DOMAIN orders)
  PROVE  /\ TotalCost = SumOf(CostsIn(orders), FilledOrders("buy"))
         /\ TotalProceeds = SumOf(ProceedsIn(orders), FilledOrders("sell"))
         /\ \A side, s : Traded(side, s) =
               SumOf(SharesIn(orders), {id \in FilledOrders(side) : id.symbol = s})
<1>1. \A side : FilledOrders(side) \in SUBSET DOMAIN orders
  BY DEF FilledOrders
<1>2. ASSUME NEW S \in SUBSET DOMAIN orders
      PROVE  /\ MapThenSumSet(LAMBDA id : Cost(orders[id].price, orders[id].qty), S)
                   = SumOf(CostsIn(orders), S)
             /\ MapThenSumSet(LAMBDA id : Proceeds(orders[id].price, orders[id].qty), S)
                   = SumOf(ProceedsIn(orders), S)
             /\ MapThenSumSet(LAMBDA id : orders[id].qty, S) = SumOf(SharesIn(orders), S)
  <2>1. \A T \in SUBSET S : T # {} => (CHOOSE x \in T : TRUE) \in DOMAIN orders
    OBVIOUS
  <2>2. IsFiniteSet(S)
    BY FS_Subset
  <2>3. MapThenSumSet(LAMBDA id : Cost(orders[id].price, orders[id].qty), S)
           = SumOf(CostsIn(orders), S)
    <3> DEFINE Body(h) == h = [T \in SUBSET S |-> IF T = {} THEN 0 ELSE
                 Cost(orders[CHOOSE x \in T : TRUE].price, orders[CHOOSE x \in T : TRUE].qty)
                    + h[T \ {CHOOSE x \in T : TRUE}]]
    <3>1. \A h : Body(h) <=> Adds(h, CostsIn(orders), S)
      BY <2>1 DEF Adds, Picked, CostsIn
    <3>2. MapThenSumSet(LAMBDA id : Cost(orders[id].price, orders[id].qty), S)
             = (CHOOSE h : Body(h))[S]
      BY DEF MapThenSumSet, MapThenFoldSet
    <3> HIDE DEF Body
    <3> QED
      BY <2>2, <3>1, <3>2, SumsExist, SumOfPart
  <2>4. MapThenSumSet(LAMBDA id : Proceeds(orders[id].price, orders[id].qty), S)
           = SumOf(ProceedsIn(orders), S)
    <3> DEFINE Body(h) == h = [T \in SUBSET S |-> IF T = {} THEN 0 ELSE
                 Proceeds(orders[CHOOSE x \in T : TRUE].price, orders[CHOOSE x \in T : TRUE].qty)
                    + h[T \ {CHOOSE x \in T : TRUE}]]
    <3>1. \A h : Body(h) <=> Adds(h, ProceedsIn(orders), S)
      BY <2>1 DEF Adds, Picked, ProceedsIn
    <3>2. MapThenSumSet(LAMBDA id : Proceeds(orders[id].price, orders[id].qty), S)
             = (CHOOSE h : Body(h))[S]
      BY DEF MapThenSumSet, MapThenFoldSet
    <3> HIDE DEF Body
    <3> QED
      BY <2>2, <3>1, <3>2, SumsExist, SumOfPart
  <2>5. MapThenSumSet(LAMBDA id : orders[id].qty, S) = SumOf(SharesIn(orders), S)
    <3> DEFINE Body(h) == h = [T \in SUBSET S |-> IF T = {} THEN 0 ELSE
                 orders[CHOOSE x \in T : TRUE].qty + h[T \ {CHOOSE x \in T : TRUE}]]
    <3>1. \A h : Body(h) <=> Adds(h, SharesIn(orders), S)
      BY <2>1 DEF Adds, Picked, SharesIn
    <3>2. MapThenSumSet(LAMBDA id : orders[id].qty, S) = (CHOOSE h : Body(h))[S]
      BY DEF MapThenSumSet, MapThenFoldSet
    <3> HIDE DEF Body
    <3> QED
      BY <2>2, <3>1, <3>2, SumsExist, SumOfPart
  <2> QED
    BY <2>3, <2>4, <2>5
<1> QED
  BY <1>1, <1>2 DEF TotalCost, TotalProceeds, Traded

\* The ledger is conserved when its tables balance.
LEMMA BalancedLedger ==
  ASSUME IsFiniteSet(DOMAIN orders)
  PROVE  LedgerConserved <=> Balanced(orders, account)
<1>1. \A side : FilledIn(orders, side) = FilledOrders(side)
  BY DEF FilledIn, FilledOrders
<1>2. \A side, s : FilledOf(orders, side, s) = {id \in FilledOrders(side) : id.symbol = s}
  BY <1>1 DEF FilledOf
<1> QED
  BY <1>1, <1>2, LibrarySums DEF LedgerConserved, Balanced

-----------------------------------------------------------------------------
\* A table becomes another one by the row `id`, and the account moves with it.
RowMoves(t, u, id, a, b) ==
    /\ DOMAIN u = DOMAIN t \cup {id}
    /\ \A k \in DOMAIN t : k # id => u[k] = t[k]
    /\ id \in DOMAIN t => t[id].status # "filled"
    /\ \/ u[id].status # "filled" /\ b = a
       \/ u[id].status = "filled" /\ b = Filled(a, id, u[id].qty, u[id].price).acct

\* The sums over one set of filled orders, before and after.
LEMMA RowAdds ==
  ASSUME NEW S, IsFiniteSet(S), NEW id, id \notin S,
         NEW f, NEW h, \A k \in S : f[k] = h[k] /\ f[k] \in Int, h[id] \in Int
  PROVE  /\ SumOf(f, S) \in Int
         /\ SumOf(h, S) = SumOf(f, S)
         /\ SumOf(h, S \cup {id}) = SumOf(f, S) + h[id]
<1>1. SumOf(f, S) \in Int
  BY SumType
<1>2. SumOf(f, S) = SumOf(h, S)
  BY SumOfSame
<1>3. SumOf(h, S \cup {id}) = h[id] + SumOf(f, S)
  BY SumGrows
<1>4. h[id] + SumOf(f, S) = SumOf(f, S) + h[id]
  BY <1>1
<1> QED
  BY <1>1, <1>2, <1>3, <1>4

\* Such a step keeps the balance: each of the four sums grows by what the row
\* adds, which is what cash and the position of its stock lose or gain.
LEMMA BalanceKept ==
  ASSUME NEW t, NEW u, OrderTableOK(t), OrderTableOK(u), IsFiniteSet(DOMAIN t),
         NEW id \in OrderIds, NEW a \in Accounts, NEW b \in Accounts,
         RowMoves(t, u, id, a, b), Balanced(t, a)
  PROVE  Balanced(u, b)
<1>1. /\ id \in DOMAIN u /\ DOMAIN t \subseteq DOMAIN u
      /\ \A k \in DOMAIN t : k # id => u[k] = t[k]
      /\ \A k \in DOMAIN u : k \in DOMAIN t \/ k = id
  BY DEF RowMoves
<1>2. \A k \in DOMAIN u : /\ CostsIn(u)[k] \in Int /\ ProceedsIn(u)[k] \in Int
                          /\ SharesIn(u)[k] \in Int
  <2>1. \A k \in DOMAIN u : u[k].price \in Nat /\ u[k].qty \in Nat
    BY DEF OrderTableOK, OrderRow
  <2>2. \A p, q \in Nat : p * q \in Nat
    OBVIOUS
  <2>3. \A p, q \in Nat : Cost(p, q) \in Int /\ Proceeds(p, q) \in Int
    BY <2>2, FeeInNat DEF Cost, Proceeds, Sides
  <2> QED
    BY <2>1, <2>3 DEF CostsIn, ProceedsIn, SharesIn
<1>3. \A k \in DOMAIN t : k # id => /\ CostsIn(t)[k] = CostsIn(u)[k]
                                    /\ ProceedsIn(t)[k] = ProceedsIn(u)[k]
                                    /\ SharesIn(t)[k] = SharesIn(u)[k]
  BY <1>1 DEF CostsIn, ProceedsIn, SharesIn
<1>4. \A side : /\ FilledIn(t, side) \in SUBSET DOMAIN t /\ id \notin FilledIn(t, side)
                /\ FilledIn(u, side) = IF u[id].status = "filled" /\ id.side = side
                                       THEN FilledIn(t, side) \cup {id} ELSE FilledIn(t, side)
  BY <1>1 DEF FilledIn, RowMoves
<1>5. \A side, s :
         /\ FilledOf(t, side, s) \in SUBSET DOMAIN t /\ id \notin FilledOf(t, side, s)
         /\ FilledOf(u, side, s) = IF u[id].status = "filled" /\ id.side = side /\ id.symbol = s
                                   THEN FilledOf(t, side, s) \cup {id} ELSE FilledOf(t, side, s)
  BY <1>4 DEF FilledOf
<1> DEFINE c == CostsIn(u)[id]
           p == ProceedsIn(u)[id]
           q == SharesIn(u)[id]
           done == u[id].status = "filled"
<1>6. /\ SumOf(CostsIn(t), FilledIn(t, "buy")) \in Int
      /\ SumOf(CostsIn(u), FilledIn(u, "buy")) = SumOf(CostsIn(t), FilledIn(t, "buy"))
            + (IF done /\ id.side = "buy" THEN c ELSE 0)
  <2>1. \A k \in FilledIn(t, "buy") : CostsIn(t)[k] = CostsIn(u)[k] /\ CostsIn(t)[k] \in Int
    BY <1>1, <1>2, <1>3, <1>4
  <2> DEFINE f == CostsIn(t)
             h == CostsIn(u)
             before == FilledIn(t, "buy")
             after == FilledIn(u, "buy")
  <2>2. /\ \A k \in before : f[k] = h[k] /\ f[k] \in Int
        /\ h[id] \in Int /\ before \in SUBSET DOMAIN t /\ id \notin before
        /\ after = IF done /\ id.side = "buy" THEN before \cup {id} ELSE before
    BY <1>1, <1>2, <1>4, <2>1
  <2> HIDE DEF f, h, before, after
  <2>3. IsFiniteSet(before)
    BY <2>2, FS_Subset
  <2>4. /\ SumOf(f, before) \in Int
        /\ SumOf(h, before) = SumOf(f, before)
        /\ SumOf(h, before \cup {id}) = SumOf(f, before) + h[id]
    BY <2>2, <2>3, RowAdds
  <2>5. /\ SumOf(f, before) \in Int
        /\ SumOf(h, after) = SumOf(f, before) + (IF done /\ id.side = "buy" THEN h[id] ELSE 0)
    BY <2>2, <2>4
  <2> QED
    BY <2>5 DEF f, h, before, after
<1>7. /\ SumOf(ProceedsIn(t), FilledIn(t, "sell")) \in Int
      /\ SumOf(ProceedsIn(u), FilledIn(u, "sell")) = SumOf(ProceedsIn(t), FilledIn(t, "sell"))
            + (IF done /\ id.side = "sell" THEN p ELSE 0)
  <2>1. \A k \in FilledIn(t, "sell") :
           ProceedsIn(t)[k] = ProceedsIn(u)[k] /\ ProceedsIn(t)[k] \in Int
    BY <1>1, <1>2, <1>3, <1>4
  <2> DEFINE f == ProceedsIn(t)
             h == ProceedsIn(u)
             before == FilledIn(t, "sell")
             after == FilledIn(u, "sell")
  <2>2. /\ \A k \in before : f[k] = h[k] /\ f[k] \in Int
        /\ h[id] \in Int /\ before \in SUBSET DOMAIN t /\ id \notin before
        /\ after = IF done /\ id.side = "sell" THEN before \cup {id} ELSE before
    BY <1>1, <1>2, <1>4, <2>1
  <2> HIDE DEF f, h, before, after
  <2>3. IsFiniteSet(before)
    BY <2>2, FS_Subset
  <2>4. /\ SumOf(f, before) \in Int
        /\ SumOf(h, before) = SumOf(f, before)
        /\ SumOf(h, before \cup {id}) = SumOf(f, before) + h[id]
    BY <2>2, <2>3, RowAdds
  <2>5. /\ SumOf(f, before) \in Int
        /\ SumOf(h, after) = SumOf(f, before) + (IF done /\ id.side = "sell" THEN h[id] ELSE 0)
    BY <2>2, <2>4
  <2> QED
    BY <2>5 DEF f, h, before, after
<1>8. ASSUME NEW s \in Symbols, NEW side \in Sides
      PROVE  /\ SumOf(SharesIn(t), FilledOf(t, side, s)) \in Int
             /\ SumOf(SharesIn(u), FilledOf(u, side, s))
                  = SumOf(SharesIn(t), FilledOf(t, side, s))
                   + (IF done /\ id.side = side /\ id.symbol = s THEN q ELSE 0)
  <2>1. \A k \in FilledOf(t, side, s) :
           SharesIn(t)[k] = SharesIn(u)[k] /\ SharesIn(t)[k] \in Int
    BY <1>1, <1>2, <1>3, <1>5
  <2> DEFINE f == SharesIn(t)
             h == SharesIn(u)
             before == FilledOf(t, side, s)
             after == FilledOf(u, side, s)
  <2>2. /\ \A k \in before : f[k] = h[k] /\ f[k] \in Int
        /\ h[id] \in Int /\ before \in SUBSET DOMAIN t /\ id \notin before
        /\ after = IF done /\ id.side = side /\ id.symbol = s THEN before \cup {id} ELSE before
    BY <1>1, <1>2, <1>5, <2>1
  <2> HIDE DEF f, h, before, after
  <2>3. IsFiniteSet(before)
    BY <2>2, FS_Subset
  <2>4. /\ SumOf(f, before) \in Int
        /\ SumOf(h, before) = SumOf(f, before)
        /\ SumOf(h, before \cup {id}) = SumOf(f, before) + h[id]
    BY <2>2, <2>3, RowAdds
  <2>5. /\ SumOf(f, before) \in Int
        /\ SumOf(h, after) = SumOf(f, before)
              + (IF done /\ id.side = side /\ id.symbol = s THEN h[id] ELSE 0)
    BY <2>2, <2>4
  <2> QED
    BY <2>5 DEF f, h, before, after
<1>9. /\ c = Cost(u[id].price, u[id].qty) /\ p = Proceeds(u[id].price, u[id].qty)
      /\ q = u[id].qty /\ c \in Int /\ p \in Int /\ q \in Int
  BY <1>1, <1>2 DEF CostsIn, ProceedsIn, SharesIn
<1>10. /\ InitialCash \in Int /\ a.cash \in Int /\ \A s \in Symbols : a.positions[s] \in Int
       /\ DOMAIN a.positions = Symbols
       /\ id.symbol \in Symbols /\ id.side \in Sides
  BY LedgerAssumption DEF Accounts, OrderIds
<1>11. /\ b.cash = a.cash - (IF done /\ id.side = "buy" THEN c ELSE 0)
                          + (IF done /\ id.side = "sell" THEN p ELSE 0)
       /\ \A s \in Symbols :
            b.positions[s] = a.positions[s]
               + (IF done /\ id.side = "buy" /\ id.symbol = s THEN q ELSE 0)
               - (IF done /\ id.side = "sell" /\ id.symbol = s THEN q ELSE 0)
  BY <1>9, <1>10 DEF RowMoves, Filled, Sides
<1> HIDE DEF c, p, q, done
<1>12. a.cash + SumOf(CostsIn(t), FilledIn(t, "buy"))
          = InitialCash + SumOf(ProceedsIn(t), FilledIn(t, "sell"))
  BY DEF Balanced
<1>13. b.cash + SumOf(CostsIn(u), FilledIn(u, "buy"))
          = InitialCash + SumOf(ProceedsIn(u), FilledIn(u, "sell"))
  BY <1>6, <1>7, <1>9, <1>10, <1>11, <1>12
<1>14. ASSUME NEW s \in Symbols
       PROVE  b.positions[s] + SumOf(SharesIn(u), FilledOf(u, "sell", s))
                = SumOf(SharesIn(u), FilledOf(u, "buy", s))
  <2>1. a.positions[s] + SumOf(SharesIn(t), FilledOf(t, "sell", s))
          = SumOf(SharesIn(t), FilledOf(t, "buy", s))
    BY DEF Balanced
  <2>2. "buy" \in Sides /\ "sell" \in Sides
    BY DEF Sides
  <2> QED
    BY <1>8, <1>9, <1>10, <1>11, <2>1, <2>2
<1> QED
  BY <1>13, <1>14 DEF Balanced

\* What a filled or refused order says about the account.
LEMMA MatchedTells ==
  ASSUME NEW acct, NEW id, NEW qty, NEW row, NEW position, NEW slip, NEW fill,
         fill = Matched(acct, id, qty, row, position, slip)
  PROVE  /\ fill.reason # "CANCELED"
         /\ \/ fill.status # "filled" /\ fill.acct = acct
            \/ fill.status = "filled" /\ fill.acct = Filled(acct, id, qty, fill.price).acct
<1> DEFINE reason == MatchReason(id.side, qty, row, position)
           price == FillPrice(id.side, row, slip)
<1>1. fill = ApplyFill(acct, id, qty, reason, price)
  BY DEF Matched
<1>2. reason # "CANCELED"
  BY DEF MatchReason, SealedReason, OK
<1> HIDE DEF reason, price
<1>3. CASE fill = Filled(acct, id, qty, price)
  BY <1>3 DEF Filled, OK
<1>4. CASE \/ fill = Unfilled(acct, "pending", reason)
           \/ fill = Unfilled(acct, "rejected", "INSUFFICIENT_CASH")
  BY <1>2, <1>4 DEF Unfilled
<1> QED
  BY <1>1, <1>3, <1>4 DEF ApplyFill

-----------------------------------------------------------------------------
\* No row, and no pending row, has been cancelled.
Uncanceled(t) == \A id \in DOMAIN t : t[id].reason # "CANCELED"
PendingUncanceled(t) ==
    \A id \in DOMAIN t : t[id].status = "pending" => t[id].reason # "CANCELED"

\* The committed tables balance until a cancel has written, and so does the copy
\* of a batch; no pending row is a cancelled one, so that no retry hides a cancel.
BalanceInv ==
    /\ IsFiniteSet(DOMAIN orders)
    /\ PendingUncanceled(orders)
    /\ Uncanceled(orders) => Balanced(orders, account)
    /\ Locked => /\ PendingUncanceled(txn.orders)
                 /\ Uncanceled(txn.orders) => Balanced(txn.orders, txn.account)

\* Nothing is filled at the start.
LEMMA InitBalance ==
  ASSUME Init
  PROVE  BalanceInv
<1>1. /\ DOMAIN orders = {} /\ account.cash = InitialCash
      /\ \A s \in Symbols : account.positions[s] = 0
      /\ ~Locked
  BY DEF Init, LedgerInit, NoTxn, Locked
<1>2. IsFiniteSet({})
  BY FS_EmptySet
<1>3. \A side, s : FilledIn(orders, side) = {} /\ FilledOf(orders, side, s) = {}
  BY <1>1 DEF FilledIn, FilledOf
<1>4. \A f, S : S = {} => SumOf(f, S) = 0
  BY <1>2, SumStep
<1>5. Balanced(orders, account)
  BY <1>1, <1>3, <1>4, LedgerAssumption DEF Balanced
<1> QED
  BY <1>1, <1>2, <1>5 DEF BalanceInv, PendingUncanceled

\* A step that leaves the tables alone, and opens no batch but one on their copy.
LEMMA QuietBalance ==
  ASSUME BalanceInv, UNCHANGED <<orders, account>>,
         Locked' => \/ Locked /\ txn' = txn
                    \/ txn'.orders = orders /\ txn'.account = account
  PROVE  BalanceInv'
<1>1. /\ Uncanceled(orders)' = Uncanceled(orders)
      /\ PendingUncanceled(orders)' = PendingUncanceled(orders)
      /\ Balanced(orders, account)' = Balanced(orders, account)
  BY DEF Uncanceled, PendingUncanceled, Balanced, FilledIn, FilledOf,
         CostsIn, ProceedsIn, SharesIn
<1> QED
  BY <1>1 DEF BalanceInv

\* A new row: the table grows by it, and the account moves as it tells.
LEMMA InsertBalance ==
  ASSUME BrokerInv, BrokerInv', BalanceInv, ~Locked', NEW id \in OrderIds, ~AlreadyPlaced(id),
         NEW fill, fill.reason # "CANCELED", NEW qty, NEW decision,
         \/ fill.status # "filled" /\ fill.acct = account
         \/ fill.status = "filled" /\ fill.acct = Filled(account, id, qty, fill.price).acct,
         orders' = Insert(orders, id, OrderRowOf(fill, qty, decision, 0, today)),
         account' = fill.acct
  PROVE  BalanceInv'
<1> DEFINE new == OrderRowOf(fill, qty, decision, 0, today)
<1>1. /\ new.status = fill.status /\ new.reason = fill.reason
      /\ new.price = fill.price /\ new.qty = qty
  BY DEF OrderRowOf
<1>2. orders' = Insert(orders, id, new)
  OBVIOUS
<1> HIDE DEF new
<1>3. /\ DOMAIN orders' = DOMAIN orders \cup {id}
      /\ orders'[id] = new
      /\ \A k \in DOMAIN orders : k # id => orders'[k] = orders[k]
  BY <1>2 DEF Insert
<1>4. id \notin DOMAIN orders
  BY DEF AlreadyPlaced
<1>5. RowMoves(orders, orders', id, account, account')
  BY <1>1, <1>3, <1>4 DEF RowMoves
<1>6. /\ OrderTableOK(orders) /\ OrderTableOK(orders')
      /\ account \in Accounts /\ account' \in Accounts
  BY DEF BrokerInv, BrokerTypeOK, LedgerTypeOK, OrderTableOK
<1>7. IsFiniteSet(DOMAIN orders')
  BY <1>3, FS_AddElement DEF BalanceInv
<1>8. PendingUncanceled(orders') /\ (Uncanceled(orders') => Uncanceled(orders))
  BY <1>1, <1>3, <1>4 DEF BalanceInv, PendingUncanceled, Uncanceled
<1>9. Uncanceled(orders) => Balanced(orders', account')
  BY <1>5, <1>6, BalanceKept DEF BalanceInv
<1> QED
  BY <1>7, <1>8, <1>9 DEF BalanceInv

\* What each action does to the balance.
LEMMA PlaceBalance ==
  ASSUME BrokerInv, BrokerInv', BalanceInv, NEW id \in OrderIds, NEW qty \in Quantities,
         NEW decision \in Decisions, NEW row \in MarketRows, NEW position \in Contexts(id),
         Place(id, qty, decision, row, position)
  PROVE  BalanceInv'
<1> DEFINE fill == Matched(account, id, qty, row, position, row.slip)
<1>1. ~Locked /\ ~Locked' /\ txn' = txn
      /\ IF AlreadyPlaced(id) \/ Uncovered(fill)
         THEN UNCHANGED <<orders, account>>
         ELSE /\ orders' = Insert(orders, id, OrderRowOf(fill, qty, decision, 0, today))
              /\ account' = fill.acct
  BY DEF Place, PlaceOrder, Locked
<1>2. /\ fill.reason # "CANCELED"
      /\ \/ fill.status # "filled" /\ fill.acct = account
         \/ fill.status = "filled" /\ fill.acct = Filled(account, id, qty, fill.price).acct
  BY MatchedTells
<1> HIDE DEF fill
<1>3. CASE AlreadyPlaced(id) \/ Uncovered(fill)
  BY <1>1, <1>3, QuietBalance
<1>4. CASE ~(AlreadyPlaced(id) \/ Uncovered(fill))
  BY <1>1, <1>2, <1>4, InsertBalance
<1> QED
  BY <1>3, <1>4

LEMMA RejectBalance ==
  ASSUME BrokerInv, BrokerInv', BalanceInv, NEW id \in OrderIds, NEW qty \in Quantities,
         NEW decision \in Decisions, NEW row \in MarketRows, Reject(id, qty, decision, row)
  PROVE  BalanceInv'
<1> DEFINE reason == GateReason(id.side, qty, row, StoredContext(account, id.symbol), 0, 0, 0)
           fill == Unfilled(account, "rejected", reason)
<1>1. /\ ~Locked /\ ~Locked' /\ UNCHANGED <<account, txn>>
      /\ IF AlreadyPlaced(id) THEN UNCHANGED orders
         ELSE orders' = Insert(orders, id, OrderRowOf(fill, qty, decision, 0, today))
  BY DEF Reject, RecordRejection, Locked
<1>2. reason # "CANCELED"
  BY DEF GateReason, SealedReason, OK
<1>3. /\ fill.reason # "CANCELED" /\ fill.status # "filled" /\ fill.acct = account
  BY <1>2 DEF Unfilled
<1> HIDE DEF fill, reason
<1>4. CASE AlreadyPlaced(id)
  BY <1>1, <1>4, QuietBalance
<1>5. CASE ~AlreadyPlaced(id)
  BY <1>1, <1>3, <1>5, InsertBalance
<1> QED
  BY <1>4, <1>5

\* From the first cancel on nothing is claimed.
LEMMA CancelWriteBalance ==
  ASSUME BrokerInv, BalanceInv, NEW id \in OrderIds, CancelWrite(id)
  PROVE  BalanceInv'
<1>1. /\ ~Locked /\ ~Locked' /\ id \in DOMAIN cancelling
      /\ orders' = [orders EXCEPT ![id] = Canceled(cancelling[id])]
  BY DEF CancelWrite, Locked
<1>2. id \in DOMAIN orders /\ cancelling[id] \in OrderRow
  BY <1>1 DEF BrokerInv, BrokerTypeOK
<1>3. /\ DOMAIN orders' = DOMAIN orders
      /\ \A k \in DOMAIN orders : k # id => orders'[k] = orders[k]
      /\ orders'[id].status = "expired" /\ orders'[id].reason = "CANCELED"
  BY <1>1, <1>2 DEF Canceled, OrderRow
<1>4. PendingUncanceled(orders') /\ ~Uncanceled(orders')
  BY <1>2, <1>3 DEF BalanceInv, PendingUncanceled, Uncanceled
<1> QED
  BY <1>1, <1>3, <1>4 DEF BalanceInv

\* A retry moves the copy: the row that it fills was pending, thus not cancelled.
LEMMA RetryRowBalance ==
  ASSUME BrokerInv, BrokerInv', BalanceInv, NEW id \in OrderIds, RetryRow(id)
  PROVE  BalanceInv'
<1> DEFINE row == txn.orders[id]
           fill == Matched(txn.account, id, row.qty, txn.bars[id.symbol],
                           StoredContext(txn.account, id.symbol), MAX_SLIPPAGE)
           new == Retried(row, fill)
           after == [txn.orders EXCEPT ![id] = new]
<1>1. /\ Locked /\ id \in txn.todo /\ UNCHANGED <<orders, account>>
      /\ txn' = IF id.symbol \in DOMAIN txn.bars
                THEN Batch(txn.todo \ {id}, txn.bars, after, fill.acct)
                ELSE Batch(txn.todo \ {id}, txn.bars, txn.orders, txn.account)
  BY DEF RetryRow, Oldest, ledgerVars
<1>2. /\ OrderTableOK(txn.orders) /\ DOMAIN txn.orders = DOMAIN orders
      /\ id \in DOMAIN orders /\ row = orders[id] /\ row.status = "pending" /\ row \in OrderRow
      /\ txn.account \in Accounts
  <2>1. /\ OrderTableOK(txn.orders) /\ DOMAIN txn.orders = DOMAIN orders
        /\ txn.todo \subseteq {k \in PendingIds : txn.orders[k] = orders[k]}
        /\ txn.account \in Accounts
    <3>1. Locked
      BY <1>1
    <3>2. TxnOK
      BY DEF BrokerInv, BrokerTypeOK
    <3> QED
      BY <3>1, <3>2 DEF TxnOK, Locked, NoTxn
  <2> QED
    BY <1>1, <2>1 DEF PendingIds, OrderTableOK
<1>3. /\ PendingUncanceled(txn.orders)
      /\ Uncanceled(txn.orders) => Balanced(txn.orders, txn.account)
  BY <1>1 DEF BalanceInv
<1>4. Locked' /\ OrderTableOK(txn'.orders) /\ txn'.account \in Accounts
  <2>1. Locked'
    BY <1>1 DEF Batch, Locked
  <2> QED
    BY <2>1 DEF BrokerInv, BrokerTypeOK, TxnOK, Locked, NoTxn
<1>5. ASSUME PendingUncanceled(txn'.orders),
             Uncanceled(txn'.orders) => Balanced(txn'.orders, txn'.account)
      PROVE  BalanceInv'
  <2>1. Uncanceled(orders)' = Uncanceled(orders)
        /\ PendingUncanceled(orders)' = PendingUncanceled(orders)
        /\ Balanced(orders, account)' = Balanced(orders, account)
    BY <1>1 DEF Uncanceled, PendingUncanceled, Balanced, FilledIn, FilledOf,
                CostsIn, ProceedsIn, SharesIn
  <2> QED
    BY <1>1, <1>5, <2>1 DEF BalanceInv
<1>6. CASE id.symbol \notin DOMAIN txn.bars
  <2>1. txn'.orders = txn.orders /\ txn'.account = txn.account
    BY <1>1, <1>6 DEF Batch
  <2> QED
    BY <1>3, <1>5, <2>1
<1>7. CASE id.symbol \in DOMAIN txn.bars
  <2>1. txn'.orders = after /\ txn'.account = fill.acct
    BY <1>1, <1>7 DEF Batch
  <2>2. /\ fill.reason # "CANCELED"
        /\ \/ fill.status # "filled" /\ fill.acct = txn.account
           \/ /\ fill.status = "filled"
              /\ fill.acct = Filled(txn.account, id, row.qty, fill.price).acct
    BY MatchedTells
  <2> HIDE DEF fill
  <2>3. /\ new.reason = fill.reason /\ new.price = fill.price /\ new.qty = row.qty
        /\ (new.status = "filled") <=> (fill.status = "filled")
    <3> DEFINE s == StatusAfter(fill.status, row.attempts + 1)
    <3>1. (s = "filled") <=> (fill.status = "filled")
      BY DEF StatusAfter
    <3>2. new = [qty |-> row.qty, status |-> s, reason |-> fill.reason,
                 price |-> fill.price, fee |-> fill.fee, attempts |-> row.attempts + 1,
                 decision |-> row.decision, created |-> row.created]
      BY DEF Retried, OrderRowOf
    <3> HIDE DEF s, new, row
    <3> QED
      BY <3>1, <3>2
  <2> HIDE DEF new
  <2>4. /\ DOMAIN after = DOMAIN orders /\ after[id] = new
        /\ \A k \in DOMAIN orders : k # id => after[k] = txn.orders[k]
    BY <1>2
  <2> HIDE DEF after
  <2>5. RowMoves(txn.orders, after, id, txn.account, fill.acct)
    BY <1>2, <2>2, <2>3, <2>4 DEF RowMoves
  <2>6. PendingUncanceled(after) /\ (Uncanceled(after) => Uncanceled(txn.orders))
    BY <1>2, <1>3, <2>2, <2>3, <2>4 DEF PendingUncanceled, Uncanceled
  <2>7. IsFiniteSet(DOMAIN txn.orders)
    BY <1>2 DEF BalanceInv
  <2>8. Uncanceled(after) => Balanced(after, fill.acct)
    BY <1>2, <1>3, <1>4, <2>1, <2>5, <2>6, <2>7, BalanceKept
  <2> QED
    BY <1>5, <2>1, <2>6, <2>8
<1> QED
  BY <1>6, <1>7

LEMMA RetryCommitBalance ==
  ASSUME BrokerInv, BalanceInv, RetryCommit
  PROVE  BalanceInv'
<1>1. Locked /\ orders' = txn.orders /\ account' = txn.account /\ ~Locked'
  BY DEF RetryCommit, NoTxn, Locked
<1>2. DOMAIN txn.orders = DOMAIN orders
  BY <1>1 DEF BrokerInv, BrokerTypeOK, TxnOK, Locked, NoTxn
<1>3. /\ PendingUncanceled(txn.orders)
      /\ Uncanceled(txn.orders) => Balanced(txn.orders, txn.account)
  BY <1>1 DEF BalanceInv
<1>4. /\ PendingUncanceled(orders') /\ Uncanceled(orders') => Balanced(orders', account')
  BY <1>1, <1>3
<1> QED
  BY <1>1, <1>2, <1>3, <1>4 DEF BalanceInv

LEMMA BalanceStep ==
  ASSUME BrokerInv, BrokerInv', BalanceInv, [Next]_vars
  PROVE  BalanceInv'
<1>1. CASE \E id \in OrderIds, qty \in Quantities, decision \in Decisions, row \in MarketRows :
              \E position \in Contexts(id) : Place(id, qty, decision, row, position)
  BY <1>1, PlaceBalance
<1>2. CASE \E id \in OrderIds, qty \in Quantities, decision \in Decisions, row \in MarketRows :
              Reject(id, qty, decision, row)
  BY <1>2, RejectBalance
<1>3. CASE \E id \in OrderIds : CancelRead(id)
  BY <1>3, QuietBalance DEF CancelRead, ledgerVars, Locked
<1>4. CASE \E id \in OrderIds : CancelWrite(id)
  BY <1>4, CancelWriteBalance
<1>5. CASE \E id \in OrderIds : RetryRow(id)
  BY <1>5, RetryRowBalance
<1>6. CASE \E bars \in BarMaps : RetryBegin(bars)
  BY <1>6, QuietBalance DEF RetryBegin, ledgerVars, Batch
<1>7. CASE RetryCommit
  BY <1>7, RetryCommitBalance
<1>8. CASE RetryRollback
  BY <1>8, QuietBalance DEF RetryRollback, ledgerVars, NoTxn, Locked
<1>9. CASE NextDay
  BY <1>9, QuietBalance DEF NextDay, Locked
<1>10. CASE UNCHANGED vars
  BY <1>10, QuietBalance DEF vars, Locked
<1> QED
  BY <1>1, <1>2, <1>3, <1>4, <1>5, <1>6, <1>7, <1>8, <1>9, <1>10 DEF Next

(***************************************************************************)
(* Until an order is cancelled, the cash balance and every position are    *)
(* what the filled orders account for, in any interleaving of places,      *)
(* retries, rollbacks and reads of cancels (_apply_fill, retry_pending).   *)
(***************************************************************************)
THEOREM BalanceIsKept == Spec => []ConservedUntilCanceled
<1>1. Init => BalanceInv
  BY InitBalance
<1>2. BrokerInv /\ BrokerInv' /\ BalanceInv /\ [Next]_vars => BalanceInv'
  BY BalanceStep
<1>3. BalanceInv => ConservedUntilCanceled
  BY BalancedLedger DEF BalanceInv, Uncanceled, ConservedUntilCanceled
<1> QED
  BY <1>1, <1>2, <1>3, BrokerInvariant, PTL DEF Spec

-----------------------------------------------------------------------------
(***************************************************************************)
(* The daily batch on the same tables.  DayInv is the inductive invariant  *)
(* of DaySpec: every signal is backed by the decision it was made from,  *)
(* and what the batch still has to convert or to place agrees with the     *)
(* signals and orders of this moment, wherever the batch was killed.       *)
(***************************************************************************)

\* The predictions are numbered without gaps.
PredictionsOK ==
    /\ \E n \in Nat : DOMAIN predictions = 1 .. n
    /\ \A d \in DOMAIN predictions : predictions[d] \in Prediction

\* The row of the signal `k` says what an approved decision said that was taken
\* before the signal's day and inside the window.
Backed(k, row) ==
    /\ row.decision \in DOMAIN predictions
    /\ predictions[row.decision].approved
    /\ predictions[row.decision].symbol = k.symbol
    /\ row.direction = DirectionFor(predictions[row.decision].action)
    /\ row.created = predictions[row.decision].created
    /\ row.created < k.date
    /\ row.created + WINDOW >= k.date
    /\ k.date <= today

SignalsOK ==
    /\ DOMAIN signals \subseteq SignalIds
    /\ \A k \in DOMAIN signals : Backed(k, signals[k])

\* What the batch has still to convert was chosen today.
TodoOK ==
    /\ pc # "convert" => todo = {}
    /\ todo \subseteq {d \in DOMAIN predictions : Convertible(d)}

ItemOK(item) ==
    /\ item.id \in OrderIds
    /\ item.id.signal \in DOMAIN signals \ SignalIdsWithOrders
    /\ item.id.symbol = item.id.signal.symbol
    /\ item.id.side = "buy" <=> signals[item.id.signal].direction = "long"
    /\ item.decision = signals[item.id.signal].decision

PlannedOK ==
    /\ pc # "orders" => planned = {}
    /\ \A item \in planned : ItemOK(item)
    /\ \A item, other \in planned : item.id.signal = other.id.signal => item = other

OrdersOK == DOMAIN orders \subseteq OrderIds

DayInv ==
    /\ today \in Days
    /\ PredictionsOK
    /\ SignalsOK
    /\ TodoOK
    /\ PlannedOK
    /\ OrdersOK
    /\ OneOrderPerSignal
    /\ OrdersAreAuthorised

-----------------------------------------------------------------------------
(* Helpers of the model.                                                   *)

\* The number of the next decision is free, and the numbering stays without gaps.
LEMMA NextIsFree ==
  ASSUME NEW n \in Nat, DOMAIN predictions = 1 .. n
  PROVE  /\ NextDecision = n + 1
         /\ NextDecision \notin DOMAIN predictions
         /\ DOMAIN predictions \cup {NextDecision} = 1 .. (n + 1)
<1>1. Cardinality(1 .. n) = n
  BY FS_Interval
<1> QED
  BY <1>1 DEF NextDecision

\* The earliest signal of a symbol exists: it is one of the pending signals.
LEMMA FirstSignalExists ==
  ASSUME NEW ids \in SUBSET DOMAIN signals, NEW symbol, \E k \in ids : k.symbol = symbol,
         DOMAIN signals \subseteq SignalIds,
         \A k \in DOMAIN signals : signals[k].created \in Nat
  PROVE  FirstSignal(ids, symbol) \in ids /\ FirstSignal(ids, symbol).symbol = symbol
<1> DEFINE mine == {k \in ids : k.symbol = symbol}
           moments == {signals[k].created : k \in mine}
<1>1. moments \in SUBSET Nat /\ moments # {}
  OBVIOUS
<1>2. PICK first \in mine : \A k \in mine : signals[first].created <= signals[k].created
  <2>1. PICK m \in moments : \A x \in moments : m <= x
    BY <1>1, LeastNumber
  <2> QED
    BY <2>1
<1> DEFINE dates == {k.date : k \in {l \in mine : signals[l].created = signals[first].created}}
<1>3. dates \in SUBSET Nat /\ dates # {}
  BY DriverAssumption DEF Days
<1>4. PICK k \in mine : /\ signals[k].created = signals[first].created
                        /\ \A l \in mine : signals[l].created = signals[first].created
                                             => k.date <= l.date
  <2>1. PICK m \in dates : \A x \in dates : m <= x
    BY <1>3, LeastNumber
  <2> QED
    BY <2>1
<1>5. \A l \in mine : Earlier(k, l)
  BY <1>2, <1>4 DEF Earlier
<1>6. \E h \in ids : /\ h.symbol = symbol
                     /\ \A l \in ids : l.symbol = symbol => Earlier(h, l)
  BY <1>5
<1> QED
  BY <1>6 DEF FirstSignal

-----------------------------------------------------------------------------
(* The steps.                                                              *)

LEMMA InitDay ==
  ASSUME DayInit
  PROVE  DayInv
<1> USE DEF DayInit, DriverInit, LedgerInit
<1>1. today \in Days
  BY LedgerAssumption DEF Days
<1>2. PredictionsOK
  BY DEF PredictionsOK
<1>3. SignalsOK
  BY DEF SignalsOK
<1>4. TodoOK /\ PlannedOK /\ OrdersOK
  BY DEF TodoOK, PlannedOK, OrdersOK
<1>5. OneOrderPerSignal /\ OrdersAreAuthorised
  BY DEF OneOrderPerSignal, OrdersAreAuthorised
<1> QED
  BY <1>1, <1>2, <1>3, <1>4, <1>5 DEF DayInv

\* A new decision does not touch the old ones.
LEMMA DecideStep ==
  ASSUME DayInv,
         NEW symbol \in Symbols, NEW action \in Actions, NEW approved \in BOOLEAN,
         NEW date \in {today, today + 1}, Decide(symbol, action, approved, date)
  PROVE  DayInv'
<1> DEFINE row == [symbol |-> symbol, action |-> action, approved |-> approved,
                   created |-> date]
<1>1. /\ predictions' = Insert(predictions, NextDecision, row)
      /\ UNCHANGED <<today, orders, account, signals, pc, todo, planned>>
  BY DEF Decide, ledgerVars, batchVars
<1>2. PICK n \in Nat : DOMAIN predictions = 1 .. n
  BY DEF DayInv, PredictionsOK
<1>3. /\ NextDecision \notin DOMAIN predictions
      /\ DOMAIN predictions' = 1 .. (n + 1)
      /\ \A d \in DOMAIN predictions :
            d \in DOMAIN predictions' /\ predictions'[d] = predictions[d]
      /\ \A d \in DOMAIN predictions' :
            d \in DOMAIN predictions \/ predictions'[d] = row
  <2> HIDE DEF row
  <2>1. /\ NextDecision \notin DOMAIN predictions
        /\ DOMAIN predictions \cup {NextDecision} = 1 .. (n + 1)
    BY <1>2, NextIsFree
  <2> QED
    BY <1>1, <2>1 DEF Insert
<1>4. row \in Prediction
  BY DriverAssumption DEF DayInv, Days, Prediction
<1>5. PredictionsOK'
  <2>1. \A d \in DOMAIN predictions' : predictions'[d] \in Prediction
    BY <1>3, <1>4 DEF DayInv, PredictionsOK
  <2>2. n + 1 \in Nat
    OBVIOUS
  <2> QED
    BY <1>3, <2>1, <2>2 DEF PredictionsOK
<1>6. SignalsOK'
  BY <1>1, <1>3 DEF DayInv, SignalsOK, Backed
<1>7. TodoOK'
  BY <1>1, <1>3 DEF DayInv, TodoOK, Convertible
<1>8. PlannedOK'
  BY <1>1 DEF DayInv, PlannedOK, ItemOK, SignalIdsWithOrders
<1>9. OrdersOK' /\ OneOrderPerSignal' /\ today' \in Days
  BY <1>1 DEF DayInv, OrdersOK, OneOrderPerSignal, Days
<1>10. OrdersAreAuthorised'
  BY <1>1, <1>3 DEF DayInv, OrdersAreAuthorised
<1> QED
  BY <1>5, <1>6, <1>7, <1>8, <1>9, <1>10 DEF DayInv

LEMMA BeginStep ==
  ASSUME DayInv, Begin
  PROVE  DayInv'
<1>1. /\ pc = "idle" /\ pc' = "convert"
      /\ todo' \subseteq {d \in DOMAIN predictions : Convertible(d)}
      /\ UNCHANGED <<today, orders, account, predictions, signals, planned>>
  BY DEF Begin, ledgerVars
<1>2. TodoOK'
  BY <1>1 DEF TodoOK, Convertible
<1>3. PlannedOK'
  BY <1>1 DEF DayInv, PlannedOK
<1> QED
  BY <1>1, <1>2, <1>3 DEF DayInv, Days, PredictionsOK, SignalsOK, Backed, OrdersOK,
     OneOrderPerSignal, OrdersAreAuthorised

\* A converted decision backs the signal of its symbol and of the day, whatever
\* row it overwrites.
LEMMA ConvertStep ==
  ASSUME DayInv, NEW d \in Decisions, Convert(d)
  PROVE  DayInv'
<1> DEFINE k == SignalIdFor(d)
           row == SignalFor(d)
<1>1. /\ pc = "convert" /\ d \in todo
      /\ signals' = Insert(signals, k, row)
      /\ todo' = todo \ {d}
      /\ UNCHANGED <<today, orders, account, predictions, pc, planned>>
  BY DEF Convert, ledgerVars
<1>2. d \in DOMAIN predictions /\ Convertible(d) /\ predictions[d] \in Prediction
  BY <1>1 DEF DayInv, TodoOK, PredictionsOK
<1>3. k \in SignalIds /\ Backed(k, row)
  <2>1. today \in Nat /\ today \in Days /\ WINDOW \in Nat
    BY DriverAssumption DEF DayInv, Days
  <2>2. /\ predictions[d].symbol \in Symbols /\ predictions[d].created \in Nat
    BY <1>2 DEF Prediction
  <2> QED
    BY <1>2, <2>1, <2>2, DriverAssumption
    DEF SignalIdFor, SignalFor, Backed, Convertible
<1> HIDE DEF k, row
<1>4. SignalsOK'
  <2>1. /\ DOMAIN signals' = DOMAIN signals \cup {k}
        /\ signals'[k] = row
        /\ \A l \in DOMAIN signals \ {k} : signals'[l] = signals[l]
    BY <1>1 DEF Insert
  <2> QED
    BY <1>1, <1>3, <2>1 DEF DayInv, SignalsOK, Backed
<1>5. TodoOK'
  BY <1>1 DEF DayInv, TodoOK, Convertible
<1>6. PlannedOK'
  BY <1>1 DEF DayInv, PlannedOK
<1> QED
  BY <1>1, <1>4, <1>5, <1>6 DEF DayInv, Days, PredictionsOK, OrdersOK,
     OneOrderPerSignal, OrdersAreAuthorised

\* A plan takes every signal at most once, and only signals without an order.
LEMMA PlanStep ==
  ASSUME DayInv, Plan
  PROVE  DayInv'
<1>1. /\ todo = {} /\ pc = "convert"
      /\ \/ pc' = "idle" /\ planned' = {}
         \/ /\ pc' = "orders"
            /\ planned' = {ExitIntent(s) : s \in ExitSymbols}
                          \cup {EntryIntent(s) : s \in EntrySymbols}
      /\ UNCHANGED <<today, orders, account, predictions, signals, todo>>
  BY DEF Plan, ledgerVars
<1>2. /\ DOMAIN signals \subseteq SignalIds
      /\ \A k \in DOMAIN signals : signals[k].created \in Nat
  BY DEF DayInv, SignalsOK, Backed, PredictionsOK, Prediction
<1>3. ASSUME NEW side \in {"sell", "buy"}, NEW direction,
             direction = IF side = "sell" THEN "flat" ELSE "long",
             NEW s \in {k.symbol : k \in PendingOf(direction)},
             NEW qty, NEW target, NEW projected
      PROVE  LET item == Intent(FirstSignal(PendingOf(direction), s), side, qty,
                                    target, projected)
             IN  ItemOK(item) /\ item.id.signal.symbol = s /\ item.id.side = side
  <2> DEFINE k == FirstSignal(PendingOf(direction), s)
             item == Intent(k, side, qty, target, projected)
  <2>1. k \in PendingOf(direction) /\ k.symbol = s
    BY <1>2, FirstSignalExists DEF PendingOf, PendingSignals
  <2>2. k \in DOMAIN signals \ SignalIdsWithOrders /\ signals[k].direction = direction
    BY <2>1 DEF PendingOf, PendingSignals
  <2>3. k \in SignalIds /\ k.symbol \in Symbols
    BY <1>2, <2>2, DriverAssumption
  <2> HIDE DEF k
  <2>4. item.id = [signal |-> k, symbol |-> k.symbol, side |-> side]
        /\ item.decision = signals[k].decision
    BY DEF Intent
  <2>5. item.id \in OrderIds
    BY <2>3, <2>4 DEF OrderIds, Sides
  <2> HIDE DEF item
  <2>6. ItemOK(item)
    BY <1>3, <2>2, <2>4, <2>5 DEF ItemOK
  <2> QED
    BY <2>1, <2>4, <2>6 DEF k, item
<1>4. \A s \in ExitSymbols :
         /\ ItemOK(ExitIntent(s)) /\ ExitIntent(s).id.signal.symbol = s
         /\ ExitIntent(s).id.side = "sell"
  <2> TAKE s \in ExitSymbols
  <2>1. s \in {k.symbol : k \in PendingOf("flat")}
    BY DEF ExitSymbols
  <2> QED
    BY <1>3, <2>1 DEF ExitIntent
<1>5. \A s \in EntrySymbols :
         /\ ItemOK(EntryIntent(s)) /\ EntryIntent(s).id.signal.symbol = s
         /\ EntryIntent(s).id.side = "buy"
  <2> TAKE s \in EntrySymbols
  <2>1. s \in {k.symbol : k \in PendingOf("long")}
    BY DEF EntrySymbols, LongSymbols
  <2> QED
    BY <1>3, <2>1 DEF EntryIntent
<1>6. CASE pc' = "idle" /\ planned' = {}
  BY <1>1, <1>6 DEF DayInv, Days, PredictionsOK, SignalsOK, Backed, TodoOK,
     Convertible,
     PlannedOK, OrdersOK, OneOrderPerSignal, OrdersAreAuthorised
<1>7. CASE /\ pc' = "orders"
           /\ planned' = {ExitIntent(s) : s \in ExitSymbols}
                         \cup {EntryIntent(s) : s \in EntrySymbols}
  <2>1. \A item \in planned' : ItemOK(item)
    BY <1>4, <1>5, <1>7
  <2>2. ASSUME NEW item \in planned', NEW other \in planned',
               item.id.signal = other.id.signal
        PROVE  item = other
    <3>1. item.id.side = other.id.side
      BY <1>4, <1>5, <1>7, <2>1, <2>2 DEF ItemOK
    <3>2. CASE item.id.side = "sell"
      <4>1. PICK s \in ExitSymbols : item = ExitIntent(s)
        BY <1>5, <1>7, <3>2
      <4>2. PICK t \in ExitSymbols : other = ExitIntent(t)
        BY <1>5, <1>7, <3>1, <3>2
      <4> QED
        BY <1>4, <2>2, <4>1, <4>2
    <3>3. CASE item.id.side # "sell"
      BY <1>4, <1>5, <1>7, <2>2, <3>1, <3>3
    <3> QED
      BY <3>2, <3>3
  <2>3. PlannedOK'
    BY <1>1, <1>7, <2>1, <2>2 DEF PlannedOK, ItemOK, SignalIdsWithOrders
  <2>4. TodoOK'
    BY <1>1, <1>7 DEF TodoOK
  <2> QED
    BY <1>1, <2>3, <2>4 DEF DayInv, Days, PredictionsOK, SignalsOK, Backed, OrdersOK,
       OneOrderPerSignal, OrdersAreAuthorised
<1> QED
  BY <1>1, <1>6, <1>7

\* The order of a planned item, filled, pending or rejected, carries the item's
\* decision and the day.
LEMMA SubmitAddsARow ==
  ASSUME NEW item, Submit(item)
  PROVE  /\ today' = today
         /\ \/ orders' = orders
            \/ \E row : /\ orders' = Insert(orders, item.id, row)
                        /\ row.decision = item.decision
                        /\ row.created = today
BY DEF Submit, PlaceOrder, RecordRejection, OrderRowOf

LEMMA ExecuteStep ==
  ASSUME DayInv, NEW item \in planned, Execute(item)
  PROVE  DayInv'
<1>1. /\ pc = "orders" /\ Submit(item) /\ planned' = planned \ {item}
      /\ UNCHANGED <<predictions, signals, pc, todo>>
  BY DEF Execute
<1>2. today' = today
  BY <1>1, SubmitAddsARow
<1>3. ItemOK(item) /\ \A other \in planned' : ItemOK(other) /\ other.id.signal # item.id.signal
  BY <1>1 DEF DayInv, PlannedOK
<1>4. /\ DOMAIN orders' \subseteq DOMAIN orders \cup {item.id}
      /\ \A id \in DOMAIN orders :
            id # item.id => id \in DOMAIN orders' /\ orders'[id] = orders[id]
      /\ item.id \notin DOMAIN orders
      /\ item.id \in DOMAIN orders' => /\ orders'[item.id].decision = item.decision
                                       /\ orders'[item.id].created = today
  <2>1. item.id \notin DOMAIN orders
    BY <1>3 DEF ItemOK, SignalIdsWithOrders
  <2>2. CASE orders' = orders
    BY <2>1, <2>2
  <2>3. ASSUME NEW row, orders' = Insert(orders, item.id, row),
               row.decision = item.decision, row.created = today
        PROVE  <1>4!1 /\ <1>4!2 /\ <1>4!3 /\ <1>4!4
    BY <2>1, <2>3 DEF Insert
  <2> QED
    BY <1>1, <2>1, <2>2, <2>3, SubmitAddsARow
<1>5. PlannedOK'
  <2>1. ASSUME NEW other \in planned'
        PROVE  ItemOK(other)'
    BY <1>1, <1>3, <1>4 DEF ItemOK, SignalIdsWithOrders
  <2> QED
    BY <1>1, <2>1 DEF DayInv, PlannedOK
<1>6. OneOrderPerSignal'
  <2>1. \A id \in DOMAIN orders : id.signal # item.id.signal
    BY <1>3 DEF ItemOK, SignalIdsWithOrders
  <2> QED
    BY <1>4, <2>1 DEF DayInv, OneOrderPerSignal
<1>7. OrdersAreAuthorised'
  <2> DEFINE k == item.id.signal
  <2>1. /\ Backed(k, signals[k]) /\ item.decision = signals[k].decision
        /\ item.id.symbol = k.symbol
        /\ item.id.side = "buy" <=> signals[k].direction = "long"
    BY <1>3 DEF DayInv, SignalsOK, ItemOK
  <2> HIDE DEF k
  <2>2. item.id.side = "buy" <=> predictions[item.decision].action = "buy"
    BY <2>1 DEF Backed, DirectionFor
  <2> QED
    BY <1>1, <1>2, <1>4, <2>1, <2>2 DEF DayInv, OrdersAreAuthorised, Backed, k
<1>8. OrdersOK'
  BY <1>3, <1>4 DEF DayInv, OrdersOK, ItemOK
<1> QED
  BY <1>1, <1>2, <1>5, <1>6, <1>7, <1>8 DEF DayInv, Days, PredictionsOK, SignalsOK, Backed,
     TodoOK, Convertible

LEMMA FinishStep ==
  ASSUME DayInv, Finish \/ Crash
  PROVE  DayInv'
<1>1. /\ pc' = "idle" /\ todo' = {} /\ planned' = {}
      /\ UNCHANGED <<today, orders, account, predictions, signals>>
  BY DEF Finish, Crash, ledgerVars, DayInv, TodoOK
<1> QED
  BY <1>1 DEF DayInv, Days, PredictionsOK, SignalsOK, Backed, TodoOK, Convertible,
     PlannedOK, OrdersOK, OneOrderPerSignal, OrdersAreAuthorised

LEMMA DayEndsStep ==
  ASSUME DayInv, NextSnapshot
  PROVE  DayInv'
<1>1. /\ pc = "idle" /\ today < MaxDay /\ today' = today + 1
      /\ UNCHANGED <<orders, account, predictions, signals, pc, todo, planned>>
  BY DEF NextSnapshot, batchVars
<1>2. today \in Nat /\ today' \in Days
  BY <1>1, LedgerAssumption DEF DayInv, Days
<1>3. SignalsOK'
  <2>1. ASSUME NEW k \in DOMAIN signals, Backed(k, signals[k]), k.date \in Nat
        PROVE  Backed(k, signals[k])'
    BY <1>1, <1>2, <2>1 DEF Backed
  <2>2. \A k \in DOMAIN signals : k.date \in Nat
    BY DriverAssumption DEF DayInv, SignalsOK, Days
  <2> QED
    BY <1>1, <2>1, <2>2 DEF DayInv, SignalsOK
<1>4. TodoOK' /\ PlannedOK'
  BY <1>1 DEF DayInv, TodoOK, PlannedOK
<1> QED
  BY <1>1, <1>2, <1>3, <1>4 DEF DayInv, PredictionsOK, OrdersOK,
     OneOrderPerSignal, OrdersAreAuthorised

LEMMA DayStep ==
  ASSUME DayInv, [DayNext]_dayVars
  PROVE  DayInv'
<1>1. CASE \E symbol \in Symbols, action \in Actions, approved \in BOOLEAN,
              date \in {today, today + 1} : Decide(symbol, action, approved, date)
  BY <1>1, DecideStep
<1>2. CASE Begin
  BY <1>2, BeginStep
<1>3. CASE \E d \in Decisions : Convert(d)
  BY <1>3, ConvertStep
<1>4. CASE Plan
  BY <1>4, PlanStep
<1>5. CASE \E item \in planned : Execute(item)
  BY <1>5, ExecuteStep
<1>6. CASE Finish \/ Crash
  BY <1>6, FinishStep
<1>7. CASE NextSnapshot
  BY <1>7, DayEndsStep
<1>8. CASE Settle \/ UNCHANGED dayVars
  BY <1>8 DEF Settle, dayVars, driverVars, DayInv, Days, PredictionsOK, SignalsOK,
     Backed, TodoOK, Convertible, PlannedOK, ItemOK, SignalIdsWithOrders, OrdersOK,
     OneOrderPerSignal, OrdersAreAuthorised
<1> QED
  BY <1>1, <1>2, <1>3, <1>4, <1>5, <1>6, <1>7, <1>8 DEF DayNext, DriverNext, BatchStep

(***************************************************************************)
(* DayInv holds in every reachable state of the trading day.               *)
(***************************************************************************)
THEOREM DayInvariant == DaySpec => []DayInv
<1>1. DayInit => DayInv
  BY InitDay
<1>2. DayInv /\ [DayNext]_dayVars => DayInv'
  BY DayStep
<1> QED
  BY <1>1, <1>2, PTL DEF DaySpec

(***************************************************************************)
(* A signal never has two orders, whatever batches die and are run again   *)
(* and whatever decisions overwrite its row (driver.py, pending signals    *)
(* and order_id_for).                                                      *)
(***************************************************************************)
THEOREM SignalsAreOrderedOnce == DaySpec => []OneOrderPerSignal
<1>1. DayInv => OneOrderPerSignal
  BY DEF DayInv
<1> QED
  BY <1>1, DayInvariant, PTL

(***************************************************************************)
(* Every order, placed or rejected, was decided for its symbol and its     *)
(* direction by an approved decision of an earlier day inside the window   *)
(* (driver.py, _create_signals_from_decisions).                            *)
(***************************************************************************)
THEOREM OnlyAuthorisedOrders == DaySpec => []OrdersAreAuthorised
<1>1. DayInv => OrdersAreAuthorised
  BY DEF DayInv
<1> QED
  BY <1>1, DayInvariant, PTL

-----------------------------------------------------------------------------
(***************************************************************************)
(* The curve of a flat market.  FlatInv follows the money: cash and the    *)
(* worth of the holdings at the one price add up to the first cash.  Then  *)
(* no turnover can reach a divisor of the fees, so that a trade exchanges  *)
(* cash for the same worth.                                                *)
(***************************************************************************)

\* Every bar of a stock has one price, and no turnover that the cash can pay
\* costs a fee.
FlatMarket(price) ==
    /\ price \in [Symbols -> Nat]
    /\ MIN_COMMISSION = 0 /\ InitialCash < COMMISSION_DIV /\ InitialCash < STAMP_DIV
    /\ \A snap \in Snapshots : \A s \in DOMAIN snap :
          /\ snap[s].open = price[s] /\ snap[s].close = price[s]
          /\ snap[s].slip = 0

WorthIn(acct, price) == [s \in Symbols |-> acct.positions[s] * price[s]]
Worth(acct, price) == SumOf(WorthIn(acct, price), Held(acct))

\* The parts of the invariant: the account is a finite one, the plan can be bought
\* and sold on the day's snapshot.
AccountOK == account \in Accounts /\ IsFiniteSet(Held(account))

BatchOK ==
    /\ IsFiniteSet(DOMAIN signals)
    /\ snapshot \in Snapshots
    /\ multiplier \in Multipliers
    /\ \A item \in planned : item.qty \in Nat \ {0} /\ item.id.symbol \in DOMAIN snapshot

FlatInv(price) ==
    /\ DayInv
    /\ AccountOK
    /\ BatchOK
    /\ account.cash + Worth(account, price) = InitialCash
    /\ FlatMarketFlatCurve

\* The rows of a snapshot have prices of at least one tick.
LEMMA SnapshotRows ==
  ASSUME NEW snap \in Snapshots, NEW s \in DOMAIN snap
  PROVE  s \in Symbols /\ snap[s] \in MarketRows /\ snap[s].open \in Nat \ {0}
         /\ snap[s].close \in Nat /\ snap[s].slip \in Nat
<1>1. s \in Symbols /\ snap[s] \in MarketRows
  BY DriverAssumption
<1>2. snap[s] \in Rows /\ snap[s].open > MAX_SLIPPAGE
  BY <1>1, MarketAssumption
<1>3. MAX_SLIPPAGE \in Nat /\ SlippageTiers \subseteq Nat
  BY MatchingAssumption
<1>4. snap[s].open \in Nat /\ snap[s].close \in Nat /\ snap[s].slip \in SlippageTiers
  BY <1>2 DEF Rows
<1>5. snap[s].open \in Nat \ {0}
  BY <1>2, <1>3, <1>4
<1>6. snap[s].slip \in Nat
  BY <1>3, <1>4
<1> QED
  BY <1>1, <1>4, <1>5, <1>6

\* The worth of an account without the shares of one stock.
LEMMA WorthApart ==
  ASSUME NEW acct \in Accounts, IsFiniteSet(Held(acct)), NEW price \in [Symbols -> Nat],
         NEW s \in Symbols
  PROVE  /\ SumOf(WorthIn(acct, price), Held(acct) \ {s}) \in Nat
         /\ Worth(acct, price) = acct.positions[s] * price[s]
                                 + SumOf(WorthIn(acct, price), Held(acct) \ {s})
<1> DEFINE f == WorthIn(acct, price)
           H == Held(acct)
<1>1. /\ \A t \in Symbols : acct.positions[t] \in Nat /\ price[t] \in Nat
      /\ H \subseteq Symbols
  BY DEF Accounts, Held
<1>2. \A t \in Symbols : f[t] = acct.positions[t] * price[t] /\ f[t] \in Nat
  <2>1. \A p, q \in Nat : p * q \in Nat
    OBVIOUS
  <2> QED
    BY <1>1, <2>1 DEF WorthIn
<1>3. IsFiniteSet(H \ {s}) /\ IsFiniteSet(H)
  BY FS_RemoveElement
<1>4. s \in H <=> acct.positions[s] > 0
  BY DEF Held
<1> HIDE DEF f, H
<1>5. SumOf(f, H \ {s}) \in Nat
  BY <1>1, <1>2, <1>3, NatSum
<1>6. CASE s \in H
  <2>1. SumOf(f, H) = f[s] + SumOf(f, H \ {s})
    BY <1>1, <1>2, <1>3, <1>6, SumTakesAny
  <2> QED
    BY <1>2, <1>5, <2>1 DEF Worth, f, H
<1>7. CASE s \notin H
  <2>1. acct.positions[s] = 0
    BY <1>1, <1>4, <1>7
  <2>2. acct.positions[s] * price[s] = 0
    BY <1>1, <2>1
  <2>3. H \ {s} = H
    BY <1>7
  <2> QED
    BY <1>5, <2>2, <2>3 DEF Worth, f, H
<1> QED
  BY <1>6, <1>7

\* What shares are worth at the closing prices of a snapshot, and an account's.
ValueIn(S, qty, snap) == MapThenSumSet(LAMBDA s : qty[s] * snap[s].close, S)
MarkedIn(acct, snap) == ValueIn(Held(acct) \cap DOMAIN snap, acct.positions, snap)

\* A sum of the driver over some stocks is one of SetSums.
LEMMA ValuesAreSums ==
  ASSUME NEW S, IsFiniteSet(S), NEW f, NEW qty, NEW snap,
         \A s \in S : f[s] = qty[s] * snap[s].close
  PROVE  ValueIn(S, qty, snap) = SumOf(f, S)
<1> DEFINE Body(h) == h = [T \in SUBSET S |-> IF T = {} THEN 0 ELSE
             qty[CHOOSE x \in T : TRUE] * snap[CHOOSE x \in T : TRUE].close
                + h[T \ {CHOOSE x \in T : TRUE}]]
<1>1. \A T \in SUBSET S : T # {} => (CHOOSE x \in T : TRUE) \in S
  OBVIOUS
<1>2. ValueIn(S, qty, snap) = (CHOOSE h : Body(h))[S]
  BY DEF ValueIn, MapThenSumSet, MapThenFoldSet
<1>3. \A h : Body(h) <=> Adds(h, f, S)
  BY <1>1 DEF Adds, Picked
<1> HIDE DEF Body
<1> QED
  BY <1>2, <1>3, SumsExist, SumOfPart

LEMMA MarkedInIsSum ==
  ASSUME NEW acct \in Accounts, IsFiniteSet(Held(acct)), NEW snap \in Snapshots
  PROVE  /\ MarkedIn(acct, snap) = SumOf(WorthIn(acct, [s \in Symbols |-> snap[s].close]),
                                         Held(acct) \cap DOMAIN snap)
         /\ MarkedIn(acct, snap) \in Nat
<1> DEFINE S == Held(acct) \cap DOMAIN snap
           close == [s \in Symbols |-> snap[s].close]
           f == WorthIn(acct, close)
<1>1. /\ S \subseteq Symbols
      /\ \A s \in S : f[s] = acct.positions[s] * snap[s].close
  BY DEF Held, WorthIn
<1>2. IsFiniteSet(S)
  <2>1. S \in SUBSET Held(acct)
    OBVIOUS
  <2> QED
    BY <2>1, FS_Subset
<1>3. \A s \in S : f[s] \in Nat
  <2>1. \A s \in S : acct.positions[s] \in Nat /\ snap[s].close \in Nat
    BY <1>1, SnapshotRows DEF Accounts
  <2>2. \A p, q \in Nat : p * q \in Nat
    OBVIOUS
  <2> QED
    BY <1>1, <2>1, <2>2
<1>4. MarkedIn(acct, snap) = SumOf(f, S)
  <2>1. MarkedIn(acct, snap) = ValueIn(S, acct.positions, snap)
    BY DEF MarkedIn
  <2> HIDE DEF f, S
  <2> QED
    BY <1>1, <1>2, <2>1, ValuesAreSums
<1> HIDE DEF f, S
<1>5. SumOf(f, S) \in Nat
  BY <1>2, <1>3, NatSum
<1> QED
  BY <1>4, <1>5 DEF f, S

\* The market value of the driver is such a sum, now and after a step.
LEMMA MarkedValues ==
  /\ MarkedValue = MarkedIn(account, snapshot)
  /\ Exposure = MarkedIn(account, snapshot)
  /\ MarkedValue' = MarkedIn(account', snapshot')
  /\ Exposure' = MarkedIn(account', snapshot')
BY DEF MarkedValue, Exposure, ValueOf, Priced, MarkedIn, ValueIn, Held, MapThenSumSet, MapThenFoldSet

LEMMA MarkedIsSum ==
  ASSUME AccountOK, BatchOK
  PROVE  /\ MarkedValue = SumOf(WorthIn(account, [s \in Symbols |-> snapshot[s].close]),
                                    Held(account) \cap DOMAIN snapshot)
         /\ MarkedValue \in Nat
BY MarkedInIsSum, MarkedValues DEF AccountOK, BatchOK

\* The plan asks for whole numbers of shares.
LEMMA PlannedQuantities ==
  ASSUME DayInv, AccountOK, BatchOK
  PROVE  /\ \A s \in ExitSymbols : account.positions[s] \in Nat \ {0} /\ s \in DOMAIN snapshot
         /\ \A s \in EntrySymbols : Shortfall(s) \in Nat \ {0} /\ s \in DOMAIN snapshot
<1>1. \A s \in Symbols : account.positions[s] \in Nat
  BY DEF AccountOK, Accounts
<1>2. ASSUME NEW s \in ExitSymbols
      PROVE  account.positions[s] \in Nat \ {0} /\ s \in DOMAIN snapshot
  BY <1>1 DEF ExitSymbols, Held, Priced
<1>3. ASSUME NEW s \in EntrySymbols
      PROVE  Shortfall(s) \in Nat \ {0} /\ s \in DOMAIN snapshot
  <2>1. s \in LongSymbols /\ s \in DOMAIN snapshot /\ Shortfall(s) > 0
    BY DEF EntrySymbols, Priced
  <2>2. s \in Symbols /\ snapshot[s].open \in Nat \ {0}
    BY <2>1, SnapshotRows DEF BatchOK
  <2> DEFINE P == PendingOf("long")
  <2>3. IsFiniteSet(P) /\ P # {}
    <3>1. P \in SUBSET DOMAIN signals
      BY DEF PendingOf, PendingSignals
    <3>2. P # {}
      BY <2>1 DEF LongSymbols
    <3> QED
      BY <3>1, <3>2, FS_Subset DEF BatchOK
  <2>4. Cardinality(P) \in Nat \ {0}
    BY <2>3, FS_CardinalityType, FS_EmptySet
  <2>5. Cardinality(LongSymbols) \in Nat \ {0}
    <3> DEFINE g == [k \in P |-> k.symbol]
    <3>1. g \in Surjection(P, LongSymbols)
      BY DEF LongSymbols, Surjection
    <3>2. IsFiniteSet(LongSymbols)
      <4> HIDE DEF g, P
      <4> QED
        BY <2>3, <3>1, FS_Surjection
    <3> QED
      BY <2>1, <3>2, FS_CardinalityType, FS_EmptySet
  <2> DEFINE n == Cardinality(P)
             m == Cardinality(LongSymbols)
             share == MinOf(100 \div n, MAX_SINGLE_POSITION)
  <2>6. TargetWeight \in Int
    <3>1. 100 \div n \in Int /\ MAX_SINGLE_POSITION \in Int /\ MAX_TOTAL_POSITION \in Int
          /\ MAX_TOTAL_POSITION \div m \in Int /\ multiplier \in Int
      <4>1. n \in Nat \ {0} /\ m \in Nat \ {0}
        BY <2>4, <2>5
      <4> HIDE DEF n, m
      <4> QED
        BY <4>1, MatchingAssumption, DriverAssumption DEF BatchOK
    <3>2. share \in Int
      <4> HIDE DEF n
      <4> QED
        BY <3>1 DEF MinOf
    <3> DEFINE capped == IF share * m > MAX_TOTAL_POSITION
                         THEN MAX_TOTAL_POSITION \div m ELSE share
    <3>3. capped \in Int
      <4> HIDE DEF share, m
      <4> QED
        BY <3>1, <3>2
    <3>4. TargetWeight = (capped * multiplier) \div 100
      BY DEF TargetWeight
    <3> HIDE DEF capped
    <3>5. capped * multiplier \in Int
      BY <3>1, <3>3
    <3> QED
      BY <3>4, <3>5
  <2>7. Equity \in Int
    BY MarkedIsSum DEF Equity, AccountOK, Accounts
  <2>8. ASSUME NEW x \in Int
        PROVE  Lots(x) \in Int
    BY MatchingAssumption DEF Lots
  <2>9. TargetShares(s) \in Int
    <3>1. 100 * snapshot[s].open \in Nat \ {0}
      BY <2>2
    <3>2. TargetWeight * Equity \in Int
      BY <2>6, <2>7
    <3>3. (TargetWeight * Equity) \div (100 * snapshot[s].open) \in Int
      BY <3>1, <3>2
    <3> QED
      BY <2>8, <3>3 DEF TargetShares
  <2>10. QtyAfterExits(s) \in Int
    BY <1>1, <2>2 DEF QtyAfterExits
  <2>11. Shortfall(s) \in Int
    BY <2>8, <2>9, <2>10 DEF Shortfall
  <2> QED
    BY <2>1, <2>11
<1> QED
  BY <1>2, <1>3

\* A turnover below both divisors is free of fees.
LEMMA FreeTrade ==
  ASSUME NEW side \in Sides, NEW turnover \in Nat, MIN_COMMISSION = 0,
         turnover < COMMISSION_DIV, turnover < STAMP_DIV
  PROVE  Fee(side, turnover) = 0
<1>1. turnover \div COMMISSION_DIV = 0 /\ turnover \div STAMP_DIV = 0
  BY MatchingAssumption
<1> QED
  BY <1>1 DEF Fee

\* A trade of q shares at the price p, from h shares worth h * p.
LEMMA TradedWorth ==
  ASSUME NEW h \in Nat, NEW q \in Nat, NEW p \in Nat
  PROVE  /\ p * q \in Nat /\ h * p \in Nat /\ (h + q) * p = h * p + p * q
         /\ q <= h => h - q \in Nat /\ (h - q) * p = h * p - p * q /\ p * q <= h * p
<1>1. p * q \in Nat /\ h * p \in Nat
  OBVIOUS
<1>2. (h + q) * p = h * p + p * q
  OBVIOUS
<1>3. ASSUME q <= h
      PROVE  h - q \in Nat /\ (h - q) * p = h * p - p * q /\ p * q <= h * p
  <2>1. PICK r \in Nat : h = q + r
    <3>1. h - q \in Nat /\ h = q + (h - q)
      BY <1>3
    <3> QED
      BY <3>1
  <2>2. h * p = p * q + r * p
    BY <2>1
  <2>3. r * p \in Nat
    OBVIOUS
  <2>4. h - q = r
    BY <2>1
  <2>5. (h - q) * p = r * p
    BY <2>4
  <2> QED
    BY <1>1, <2>2, <2>3, <2>4, <2>5
<1> QED
  BY <1>1, <1>2, <1>3

\* An account in which only the holding of one stock has changed.
LEMMA MovedWorth ==
  ASSUME NEW acct \in Accounts, NEW after \in Accounts, IsFiniteSet(Held(acct)),
         NEW price \in [Symbols -> Nat], NEW s \in Symbols,
         \A t \in Symbols \ {s} : after.positions[t] = acct.positions[t]
  PROVE  /\ IsFiniteSet(Held(after))
         /\ Worth(after, price) + acct.positions[s] * price[s]
            = Worth(acct, price) + after.positions[s] * price[s]
<1>1. Held(after) \ {s} = Held(acct) \ {s}
  BY DEF Held
<1>2. IsFiniteSet(Held(acct) \ {s})
  BY FS_RemoveElement
<1>3. IsFiniteSet(Held(after))
  <2>1. IsFiniteSet((Held(acct) \ {s}) \cup {s})
    BY <1>2, FS_AddElement
  <2>2. Held(after) \in SUBSET ((Held(acct) \ {s}) \cup {s})
    BY <1>1
  <2> QED
    BY <2>1, <2>2, FS_Subset
<1>4. SumOf(WorthIn(after, price), Held(after) \ {s})
      = SumOf(WorthIn(acct, price), Held(acct) \ {s})
  <2>1. \A t \in Held(acct) \ {s} : WorthIn(after, price)[t] = WorthIn(acct, price)[t]
    BY DEF Held, WorthIn
  <2> QED
    BY <1>1, <1>2, <2>1, SumOfSame
<1>5. /\ acct.positions[s] \in Nat /\ after.positions[s] \in Nat /\ price[s] \in Nat
  BY DEF Accounts
<1>6. acct.positions[s] * price[s] \in Nat /\ after.positions[s] * price[s] \in Nat
  BY <1>5, TradedWorth
<1> DEFINE rest == SumOf(WorthIn(acct, price), Held(acct) \ {s})
<1>7. /\ rest \in Nat
      /\ Worth(acct, price) = acct.positions[s] * price[s] + rest
  BY WorthApart
<1>8. Worth(after, price) = after.positions[s] * price[s] + rest
  BY <1>3, <1>4, WorthApart
<1> HIDE DEF rest
<1> QED
  BY <1>3, <1>6, <1>7, <1>8

\* What an account may become by a fill that its book covers.
Trade(acct, after, id, qty, p) ==
    \/ /\ id.side = "buy" /\ Cost(p, qty) <= acct.cash
       /\ after = [cash |-> acct.cash - Cost(p, qty),
                   positions |-> [acct.positions EXCEPT ![id.symbol] = @ + qty]]
    \/ /\ id.side = "sell" /\ qty <= acct.positions[id.symbol]
       /\ after = [cash |-> acct.cash + Proceeds(p, qty),
                   positions |-> [acct.positions EXCEPT ![id.symbol] = @ - qty]]

\* An order that is matched at the opening price trades, or leaves the account alone.
LEMMA MatchedTrades ==
  ASSUME NEW acct \in Accounts, NEW id \in OrderIds, NEW qty \in Nat \ {0}, NEW row,
         row.open \in Nat, row.slip = 0, NEW position, NEW fill,
         fill = Matched(acct, id, qty, row, position, row.slip), ~Uncovered(fill)
  PROVE  fill.acct = acct \/ Trade(acct, fill.acct, id, qty, row.open)
<1> DEFINE reason == MatchReason(id.side, qty, row, position)
<1>1. FillPrice(id.side, row, row.slip) = row.open
  BY DEF FillPrice
<1>2. fill = ApplyFill(acct, id, qty, reason, row.open)
  BY <1>1 DEF Matched
<1> HIDE DEF reason
<1>3. CASE /\ fill = Filled(acct, id, qty, row.open)
           /\ ~(id.side = "buy" /\ Cost(row.open, qty) > acct.cash)
  <2>1. id.symbol \in Symbols /\ id.side \in {"buy", "sell"}
    BY DEF OrderIds, Sides
  <2>2. /\ acct.cash \in Nat /\ acct.positions \in [Symbols -> Nat]
        /\ acct.positions[id.symbol] \in Nat
    BY <2>1 DEF Accounts
  <2>3. CASE id.side = "buy"
    <3>1. Cost(row.open, qty) \in Nat
      <4>1. row.open * qty \in Nat
        BY TradedWorth
      <4>2. Fee("buy", row.open * qty) \in Nat
        BY <4>1, FeeInNat DEF Sides
      <4> QED
        BY <4>1, <4>2 DEF Cost
    <3> QED
      BY <1>3, <2>2, <2>3, <3>1 DEF Filled, Trade
  <2>4. CASE id.side = "sell"
    <3>1. fill.acct = [cash |-> acct.cash + Proceeds(row.open, qty),
                       positions |-> [acct.positions EXCEPT ![id.symbol] = @ - qty]]
      BY <1>3, <2>4 DEF Filled
    <3>2. fill.acct.positions[id.symbol] = acct.positions[id.symbol] - qty
      BY <2>1, <2>2, <3>1
    <3>3. ~(acct.positions[id.symbol] - qty < 0)
      BY <2>1, <3>2 DEF Uncovered
    <3>4. qty <= acct.positions[id.symbol]
      BY <2>2, <3>3
    <3> QED
      BY <2>4, <3>1, <3>4 DEF Trade
  <2> QED
    BY <2>1, <2>3, <2>4
<1>4. CASE fill.acct = acct
  BY <1>4
<1>5. fill.acct = acct \/ (fill = Filled(acct, id, qty, row.open)
                            /\ ~(id.side = "buy" /\ Cost(row.open, qty) > acct.cash))
  BY <1>2 DEF ApplyFill, Unfilled
<1> QED
  BY <1>3, <1>4, <1>5

\* A trade without fees turns cash into holdings of the same worth, and back.
LEMMA TradeKeepsWorth ==
  ASSUME NEW price, FlatMarket(price), NEW acct \in Accounts, IsFiniteSet(Held(acct)),
         acct.cash + Worth(acct, price) = InitialCash,
         NEW id \in OrderIds, NEW qty \in Nat \ {0}, NEW after,
         Trade(acct, after, id, qty, price[id.symbol])
  PROVE  /\ after \in Accounts /\ IsFiniteSet(Held(after))
         /\ after.cash + Worth(after, price) = InitialCash
<1> DEFINE s == id.symbol
           held == acct.positions[s]
           p == price[s]
           turnover == p * qty
           rest == SumOf(WorthIn(acct, price), Held(acct) \ {s})
<1>1. s \in Symbols /\ id.side \in Sides /\ price \in [Symbols -> Nat]
  BY DEF OrderIds, FlatMarket
<1>2. /\ acct.cash \in Nat /\ acct.positions \in [Symbols -> Nat]
      /\ held \in Nat /\ p \in Nat
  BY <1>1 DEF Accounts
<1>3. turnover \in Nat /\ held * p \in Nat /\ (held + qty) * p = held * p + turnover
      /\ (qty <= held => /\ held - qty \in Nat /\ (held - qty) * p = held * p - turnover
                         /\ turnover <= held * p)
  BY <1>2, TradedWorth
<1>4. rest \in Nat /\ Worth(acct, price) = held * p + rest
  BY <1>1, WorthApart
<1>5. InitialCash \in Nat /\ MIN_COMMISSION = 0
      /\ InitialCash < COMMISSION_DIV /\ InitialCash < STAMP_DIV
      /\ COMMISSION_DIV \in Nat /\ STAMP_DIV \in Nat
  BY LedgerAssumption, MatchingAssumption DEF FlatMarket
<1>6. turnover <= InitialCash => Fee(id.side, turnover) = 0
  BY <1>1, <1>3, <1>5, FreeTrade
<1>7. Fee("buy", turnover) \in Nat
  BY <1>3, FeeInNat DEF Sides
<1>8. /\ after \in Accounts
      /\ \A t \in Symbols \ {s} : after.positions[t] = acct.positions[t]
      /\ after.cash + after.positions[s] * p = acct.cash + held * p
      /\ after.positions[s] * p \in Nat
  <2>1. CASE id.side = "buy" /\ Cost(p, qty) <= acct.cash
             /\ after = [cash |-> acct.cash - Cost(p, qty),
                         positions |-> [acct.positions EXCEPT ![s] = @ + qty]]
    <3> HIDE DEF turnover, rest, held, p, s
    <3>1. turnover <= InitialCash
      <4>1. Cost(p, qty) = turnover + Fee("buy", turnover)
        BY DEF Cost, turnover
      <4>2. acct.cash <= InitialCash
        BY <1>2, <1>3, <1>4, <1>5
      <4> QED
        BY <1>2, <1>3, <1>5, <1>7, <2>1, <4>1, <4>2
    <3>2. Cost(p, qty) = turnover
      BY <1>3, <1>6, <2>1, <3>1 DEF Cost, turnover
    <3>3. after.cash = acct.cash - turnover /\ after.cash \in Nat
      BY <1>2, <1>3, <2>1, <3>2
    <3>4. /\ after.positions \in [Symbols -> Nat] /\ after.positions[s] = held + qty
          /\ \A t \in Symbols \ {s} : after.positions[t] = acct.positions[t]
      BY <1>1, <1>2, <2>1 DEF held
    <3>5. after \in Accounts
      BY <2>1, <3>3, <3>4 DEF Accounts
    <3>6. after.positions[s] * p = held * p + turnover
      BY <1>3, <3>4
    <3> QED
      BY <1>2, <1>3, <3>3, <3>4, <3>5, <3>6
  <2>2. CASE id.side = "sell" /\ qty <= held
             /\ after = [cash |-> acct.cash + Proceeds(p, qty),
                         positions |-> [acct.positions EXCEPT ![s] = @ - qty]]
    <3> HIDE DEF turnover, rest, held, p, s
    <3>1. turnover <= InitialCash
      BY <1>2, <1>3, <1>4, <1>5, <2>2
    <3>2. Proceeds(p, qty) = turnover
      BY <1>3, <1>6, <2>2, <3>1 DEF Proceeds, turnover
    <3>3. after.cash = acct.cash + turnover /\ after.cash \in Nat
      BY <1>2, <1>3, <2>2, <3>2
    <3>4. /\ after.positions \in [Symbols -> Nat] /\ after.positions[s] = held - qty
          /\ \A t \in Symbols \ {s} : after.positions[t] = acct.positions[t]
      BY <1>1, <1>2, <1>3, <2>2 DEF held
    <3>5. after \in Accounts
      BY <2>2, <3>3, <3>4 DEF Accounts
    <3>6. after.positions[s] * p = held * p - turnover
      BY <1>3, <2>2, <3>4
    <3> QED
      BY <1>2, <1>3, <2>2, <3>3, <3>4, <3>5, <3>6
  <2> QED
    BY <2>1, <2>2 DEF Trade
<1>9. IsFiniteSet(Held(after))
      /\ Worth(after, price) + held * p = Worth(acct, price) + after.positions[s] * p
  BY <1>1, <1>8, MovedWorth
<1>10. after.cash \in Nat /\ Worth(after, price) \in Nat
  <2>1. Worth(after, price) \in Nat
    <3> DEFINE part == SumOf(WorthIn(after, price), Held(after) \ {s})
    <3>1. part \in Nat /\ Worth(after, price) = after.positions[s] * p + part
      BY <1>1, <1>8, <1>9, WorthApart
    <3> HIDE DEF part, s, p
    <3> QED
      BY <1>8, <3>1
  <2> QED
    BY <1>8, <2>1 DEF Accounts
<1> HIDE DEF turnover, rest, held, p, s
<1> QED
  BY <1>2, <1>3, <1>4, <1>5, <1>8, <1>9, <1>10

\* The first cash is all there is.
LEMMA InitFlat ==
  ASSUME NEW price, FlatMarket(price), DayInit
  PROVE  FlatInv(price)
<1>1. DayInv
  BY InitDay
<1>2. /\ account = [cash |-> InitialCash, positions |-> [s \in Symbols |-> 0]]
      /\ DOMAIN signals = {} /\ snapshot \in Snapshots /\ multiplier \in Multipliers
      /\ planned = {} /\ DOMAIN equity = {}
  BY DEF DayInit, DriverInit, LedgerInit
<1>3. Held(account) = {} /\ IsFiniteSet({})
  BY <1>2, FS_EmptySet DEF Held
<1>4. AccountOK
  BY <1>2, <1>3, LedgerAssumption DEF AccountOK, Accounts
<1>5. BatchOK
  BY <1>2, <1>3 DEF BatchOK
<1>6. Worth(account, price) = 0
  BY <1>3, SumStep DEF Worth
<1>7. account.cash + Worth(account, price) = InitialCash
  BY <1>2, <1>6, LedgerAssumption
<1>8. FlatMarketFlatCurve
  BY <1>2 DEF FlatMarketFlatCurve
<1> QED
  BY <1>1, <1>4, <1>5, <1>7, <1>8 DEF FlatInv

\* A step that leaves account and curve alone.
LEMMA QuietFlat ==
  ASSUME NEW price, FlatInv(price), UNCHANGED <<account, equity>>, BatchOK'
  PROVE  /\ AccountOK' /\ FlatMarketFlatCurve'
         /\ account'.cash + Worth(account', price) = InitialCash
BY DEF FlatInv, AccountOK, FlatMarketFlatCurve, Worth, WorthIn, Held

\* A plan may shrink.
LEMMA BatchStays ==
  ASSUME BatchOK, UNCHANGED <<signals, snapshot, multiplier>>, planned' \subseteq planned
  PROVE  BatchOK'
BY DEF BatchOK

\* A plan is made of holdings and of shortfalls, on priced stocks.
LEMMA PlanFlat ==
  ASSUME DayInv, AccountOK, BatchOK, Plan
  PROVE  BatchOK'
<1>1. UNCHANGED <<signals, snapshot, multiplier>>
  BY DEF Plan, marketVars
<1>2. ASSUME NEW item \in planned'
      PROVE  item.qty \in Nat \ {0} /\ item.id.symbol \in DOMAIN snapshot
  <2> DEFINE exitIds == PendingOf("flat")
             entryIds == PendingOf("long")
  <2>1. \/ \E s \in ExitSymbols : item = ExitIntent(s)
        \/ \E s \in EntrySymbols : item = EntryIntent(s)
    BY DEF Plan
  <2>2. /\ \A k \in DOMAIN signals : signals[k].created \in Nat
        /\ DOMAIN signals \subseteq SignalIds
    <3>1. \A k \in DOMAIN signals : signals[k].decision \in DOMAIN predictions
            /\ signals[k].created = predictions[signals[k].decision].created
      BY DEF DayInv, SignalsOK, Backed
    <3>2. \A d \in DOMAIN predictions : predictions[d].created \in Nat
      BY DEF DayInv, PredictionsOK, Prediction
    <3> QED
      BY <3>1, <3>2 DEF DayInv, SignalsOK
  <2>3. ASSUME NEW s \in ExitSymbols, item = ExitIntent(s)
        PROVE  item.qty \in Nat \ {0} /\ item.id.symbol \in DOMAIN snapshot
    <3>1. exitIds \in SUBSET DOMAIN signals /\ \E k \in exitIds : k.symbol = s
      BY DEF PendingOf, PendingSignals, ExitSymbols
    <3>2. FirstSignal(exitIds, s).symbol = s
      BY <2>2, <3>1, FirstSignalExists
    <3>3. item.qty = account.positions[s] /\ item.id.symbol = s
      BY <2>3, <3>2 DEF ExitIntent, Intent
    <3> QED
      BY <3>3, PlannedQuantities
  <2>4. ASSUME NEW s \in EntrySymbols, item = EntryIntent(s)
        PROVE  item.qty \in Nat \ {0} /\ item.id.symbol \in DOMAIN snapshot
    <3>1. entryIds \in SUBSET DOMAIN signals /\ \E k \in entryIds : k.symbol = s
      BY DEF PendingOf, PendingSignals, EntrySymbols, LongSymbols
    <3>2. FirstSignal(entryIds, s).symbol = s
      BY <2>2, <3>1, FirstSignalExists
    <3>3. item.qty = Shortfall(s) /\ item.id.symbol = s
      BY <2>4, <3>2 DEF EntryIntent, Intent
    <3> QED
      BY <3>3, PlannedQuantities
  <2> QED
    BY <2>1, <2>3, <2>4
<1> QED
  BY <1>1, <1>2 DEF BatchOK

\* An order of the plan is filled without fees, or leaves the account alone.
LEMMA ExecuteFlat ==
  ASSUME NEW price, FlatMarket(price), FlatInv(price), NEW item \in planned, Execute(item)
  PROVE  /\ AccountOK'
         /\ account'.cash + Worth(account', price) = InitialCash
<1> DEFINE row == snapshot[item.id.symbol]
           fill == Matched(account, item.id, item.qty, row, PlannedContext(item), row.slip)
<1>1. /\ account \in Accounts /\ IsFiniteSet(Held(account))
      /\ account.cash + Worth(account, price) = InitialCash
  BY DEF FlatInv, AccountOK
<1>2. item.id \in OrderIds /\ item.qty \in Nat \ {0}
      /\ snapshot \in Snapshots /\ item.id.symbol \in DOMAIN snapshot
  BY DEF FlatInv, DayInv, PlannedOK, ItemOK, BatchOK
<1>3. row.open \in Nat /\ row.slip = 0 /\ row.open = price[item.id.symbol]
  BY <1>2, SnapshotRows DEF FlatMarket
<1>4. account' = account \/ (account' = fill.acct /\ ~Uncovered(fill))
  BY DEF Execute, Submit, PlaceOrder, RecordRejection
<1> HIDE DEF row
<1>5. ~Uncovered(fill) => fill.acct = account
                          \/ Trade(account, fill.acct, item.id, item.qty, row.open)
  BY <1>1, <1>2, <1>3, MatchedTrades
<1> HIDE DEF fill
<1>6. CASE account' = account
  BY <1>1, <1>6 DEF AccountOK, Worth, WorthIn, Held
<1>7. CASE Trade(account, account', item.id, item.qty, price[item.id.symbol])
  <2>1. /\ account' \in Accounts /\ IsFiniteSet(Held(account'))
        /\ account'.cash + Worth(account', price) = InitialCash
    BY <1>1, <1>2, <1>7, TradeKeepsWorth
  <2> QED
    BY <2>1 DEF AccountOK, Held
<1> QED
  BY <1>3, <1>4, <1>5, <1>6, <1>7

\* A mark adds up to the worth of the account.
LEMMA SettleFlat ==
  ASSUME NEW price, FlatMarket(price), FlatInv(price), Settle
  PROVE  FlatMarketFlatCurve'
<1> DEFINE close == [s \in Symbols |-> snapshot[s].close]
<1>1. AccountOK /\ BatchOK /\ Held(account) \subseteq DOMAIN snapshot
      /\ account.cash + Worth(account, price) = InitialCash
  BY DEF FlatInv, Settle, Priced
<1>2. MarkedValue = SumOf(WorthIn(account, close), Held(account))
  <2>1. Held(account) \cap DOMAIN snapshot = Held(account)
    BY <1>1
  <2> QED
    BY <1>1, <2>1, MarkedIsSum
<1>3. SumOf(WorthIn(account, close), Held(account)) = Worth(account, price)
  <2>1. \A s \in Held(account) : WorthIn(account, close)[s] = WorthIn(account, price)[s]
    BY <1>1 DEF FlatMarket, BatchOK, WorthIn, Held
  <2> HIDE DEF close
  <2> QED
    BY <1>1, <2>1, SumOfSame DEF AccountOK, Worth
<1>4. Total(Mark) = InitialCash
  BY <1>1, <1>2, <1>3 DEF Total, Mark
<1>5. equity' = Insert(equity, today, Mark)
  BY DEF Settle
<1>6. \A d \in DOMAIN equity : Total(equity[d]) = InitialCash
  BY DEF FlatInv, FlatMarketFlatCurve
<1>7. \A d \in DOMAIN equity' : equity'[d] = Mark \/ (d \in DOMAIN equity /\ equity'[d] = equity[d])
  BY <1>5 DEF Insert
<1> QED
  BY <1>4, <1>6, <1>7 DEF FlatMarketFlatCurve, Total

\* Every step keeps the invariant.
LEMMA FlatStep ==
  ASSUME NEW price, FlatMarket(price), FlatInv(price), [DayNext]_dayVars
  PROVE  FlatInv(price)'
<1>1. DayInv'
  BY DayStep DEF FlatInv
<1>2. DayInv /\ AccountOK /\ BatchOK
  BY DEF FlatInv
<1> USE DEF marketVars, ledgerVars, batchVars
<1>3. CASE Settle \/ UNCHANGED dayVars
  <2>1. BatchOK' /\ UNCHANGED account
    BY <1>2, <1>3, BatchStays DEF Settle, dayVars, driverVars
  <2>2. CASE Settle
    <3>1. FlatMarketFlatCurve'
      BY <2>2, SettleFlat
    <3>2. AccountOK' /\ account'.cash + Worth(account', price) = InitialCash
      BY <2>1 DEF FlatInv, AccountOK, Worth, WorthIn, Held
    <3> QED
      BY <1>1, <2>1, <3>1, <3>2 DEF FlatInv
  <2>3. CASE UNCHANGED dayVars
    BY <1>1, <2>1, <2>3, QuietFlat DEF FlatInv, dayVars
  <2> QED
    BY <1>3, <2>2, <2>3
<1>4. CASE UNCHANGED equity /\ \E item \in planned : Execute(item)
  <2>1. PICK item \in planned : Execute(item)
    BY <1>4
  <2>2. AccountOK' /\ account'.cash + Worth(account', price) = InitialCash
    BY <2>1, ExecuteFlat
  <2>3. BatchOK'
    BY <1>2, <2>1, BatchStays DEF Execute
  <2>4. FlatMarketFlatCurve'
    BY <1>4 DEF FlatInv, FlatMarketFlatCurve
  <2> QED
    BY <1>1, <2>2, <2>3, <2>4 DEF FlatInv
<1>5. CASE UNCHANGED <<account, equity>> /\ BatchOK'
  BY <1>1, <1>5, QuietFlat DEF FlatInv
<1>6. ASSUME NEW symbol, NEW action, NEW approved, NEW date,
             Decide(symbol, action, approved, date)
      PROVE  UNCHANGED account /\ BatchOK'
  BY <1>2, <1>6, BatchStays DEF Decide
<1>7. ASSUME Begin \/ Finish \/ Crash
      PROVE  UNCHANGED account /\ BatchOK'
  <2>1. UNCHANGED account /\ UNCHANGED <<signals, snapshot, multiplier>>
        /\ planned' \subseteq planned
    BY <1>7 DEF Begin, Finish, Crash
  <2> QED
    BY <1>2, <2>1, BatchStays
<1>8. ASSUME NEW d, Convert(d)
      PROVE  UNCHANGED account /\ BatchOK'
  <2>1. /\ UNCHANGED <<account, snapshot, multiplier, planned>>
        /\ signals' = Insert(signals, SignalIdFor(d), SignalFor(d))
    BY <1>8 DEF Convert
  <2>2. DOMAIN signals' = DOMAIN signals \cup {SignalIdFor(d)}
    BY <2>1 DEF Insert
  <2>3. IsFiniteSet(DOMAIN signals')
    BY <1>2, <2>2, FS_AddElement DEF BatchOK
  <2> QED
    BY <1>2, <2>1, <2>3 DEF BatchOK
<1>9. ASSUME Plan
      PROVE  UNCHANGED account /\ BatchOK'
  BY <1>2, <1>9, PlanFlat DEF Plan
<1>10. ASSUME NextSnapshot
       PROVE  UNCHANGED account /\ BatchOK'
  <2>1. planned = {} /\ UNCHANGED <<account, signals, planned>>
        /\ snapshot' \in Snapshots /\ multiplier' \in Multipliers
    BY <1>2, <1>10 DEF NextSnapshot, DayInv, PlannedOK
  <2> QED
    BY <1>2, <2>1 DEF BatchOK
<1> QED
  BY <1>3, <1>4, <1>5, <1>6, <1>7, <1>8, <1>9, <1>10 DEF DayNext, DriverNext, BatchStep

(***************************************************************************)
(* Where no price moves and trading is free, every mark of the equity      *)
(* curve is the first cash balance, whatever the decisions are and however *)
(* settlements fall between the orders of a batch (settle_daily).          *)
(***************************************************************************)
THEOREM FlatCurve ==
  ASSUME NEW price, FlatMarket(price)
  PROVE  DaySpec => []FlatMarketFlatCurve
<1>1. DayInit => FlatInv(price)
  BY InitFlat
<1>2. FlatInv(price) /\ [DayNext]_dayVars => FlatInv(price)'
  BY FlatStep
<1>3. FlatInv(price) => FlatMarketFlatCurve
  BY DEF FlatInv
<1> QED
  BY <1>1, <1>2, <1>3, PTL DEF DaySpec
-----------------------------------------------------------------------------
(***************************************************************************)
(* The cap of a flat market.  CapInv follows the plan from one order to    *)
(* the next: each projection of the exposure is the one before it and what *)
(* the order adds, and the first is what the account has now, as long as   *)
(* no sale was refused.                                                    *)
(***************************************************************************)

\* What a planned order adds to the market value of the holdings.
Added(item) ==
    LET value == item.qty * snapshot[item.id.symbol].close
    IN  IF item.id.side = "sell" THEN 0 - value ELSE value

\* The order that comes first, and one that comes right after another.
ComesFirst(a) == \A c \in planned : PlannedBefore(a, c)
ComesNext(a, b) ==
    /\ a # b /\ PlannedBefore(a, b)
    /\ \A c \in planned \ {a, b} : PlannedBefore(c, a) \/ PlannedBefore(b, c)

\* The parts of the invariant: one order of a side per stock, what it knows of the
\* account, and the chain of the projections.
ItemsOK ==
    /\ \A a, b \in planned : a.id.side = b.id.side /\ a.id.symbol = b.id.symbol => a = b
    /\ \A a \in planned : a.total = Equity /\ a.projected \in Int
    /\ \A a \in planned : a.id.side = "sell" => a.qty <= account.positions[a.id.symbol]

ChainOK ==
    /\ \A a, b \in planned : ComesNext(a, b) => a.projected + Added(b) <= b.projected
    /\ ~SaleRefusedToday => \A a \in planned : ComesFirst(a) => Exposure + Added(a) <= a.projected

CapInv(price) == FlatInv(price) /\ ItemsOK /\ ChainOK

\* The sum of the values up to a member of a set of numbers.
LEMMA RunningSum ==
  ASSUME NEW S \in SUBSET Nat, IsFiniteSet(S), NEW f, \A y \in S : f[y] \in Int, NEW x \in S
  PROVE  /\ SumOf(f, S) \in Int
         /\ SumOf(f, {t \in S : t <= x}) \in Int
         /\ (\A y \in S : x <= y) => SumOf(f, {t \in S : t <= x}) = f[x]
         /\ (\A y \in S : y <= x) => SumOf(f, {t \in S : t <= x}) = SumOf(f, S)
         /\ \A w \in S : w < x /\ (\A y \in S : y <= w \/ x <= y) =>
               SumOf(f, {t \in S : t <= x}) = SumOf(f, {t \in S : t <= w}) + f[x]
<1> DEFINE Below(n) == {t \in S : t <= n}
<1>1. \A n : Below(n) \in SUBSET S /\ IsFiniteSet(Below(n)) /\ \A y \in Below(n) : f[y] \in Int
  <2>1. \A n : Below(n) \in SUBSET S
    OBVIOUS
  <2> HIDE DEF Below
  <2> QED
    BY <2>1, FS_Subset
<1>2. x \in Below(x) /\ f[x] \in Int
  OBVIOUS
<1>3. ASSUME \A y \in S : x <= y
      PROVE  Below(x) \ {x} = {}
  <2>1. \A y \in S : y <= x => y = x
    BY <1>3
  <2> QED
    BY <2>1
<1>4. ASSUME \A y \in S : y <= x
      PROVE  Below(x) = S
  BY <1>4
<1>5. ASSUME NEW w \in S, w < x, \A y \in S : y <= w \/ x <= y
      PROVE  Below(x) \ {x} = Below(w)
  <2>1. \A y \in S : y <= x /\ y # x <=> y <= w
    BY <1>5
  <2> QED
    BY <2>1
<1> HIDE DEF Below
<1>6. SumOf(f, S) \in Int /\ \A n : SumOf(f, Below(n)) \in Int
  BY <1>1, SumType
<1>7. SumOf(f, Below(x)) = f[x] + SumOf(f, Below(x) \ {x})
  BY <1>1, <1>2, SumTakesAny
<1>8. SumOf(f, {}) = 0
  BY FS_EmptySet, SumStep
<1>9. ASSUME \A y \in S : x <= y
      PROVE  SumOf(f, Below(x)) = f[x]
  BY <1>2, <1>3, <1>7, <1>8, <1>9
<1>10. ASSUME NEW w \in S, w < x, \A y \in S : y <= w \/ x <= y
       PROVE  SumOf(f, Below(x)) = SumOf(f, Below(w)) + f[x]
  <2>1. Below(x) \ {x} = Below(w)
    BY <1>5, <1>10
  <2>2. SumOf(f, Below(x)) = f[x] + SumOf(f, Below(w))
    BY <1>7, <2>1
  <2>3. SumOf(f, Below(w)) \in Int
    BY <1>6
  <2> QED
    BY <1>2, <2>2, <2>3
<1> QED
  BY <1>4, <1>6, <1>9, <1>10 DEF Below

\* What is planned is finite, on priced stocks.
LEMMA PlanIsFinite ==
  ASSUME AccountOK, BatchOK
  PROVE  /\ IsFiniteSet(ExitSymbols) /\ IsFiniteSet(EntrySymbols)
         /\ ExitSymbols \subseteq Symbols \cap DOMAIN snapshot
         /\ EntrySymbols \subseteq Symbols \cap DOMAIN snapshot
<1>1. IsFiniteSet(ExitSymbols)
  <2>1. ExitSymbols \in SUBSET Held(account)
    BY DEF ExitSymbols
  <2> QED
    BY <2>1, FS_Subset DEF AccountOK
<1>2. IsFiniteSet(LongSymbols)
  <2> DEFINE P == PendingOf("long")
             g == [k \in P |-> k.symbol]
  <2>1. P \in SUBSET DOMAIN signals
    BY DEF PendingOf, PendingSignals
  <2>2. IsFiniteSet(P)
    BY <2>1, FS_Subset DEF BatchOK
  <2>3. g \in Surjection(P, LongSymbols)
    BY DEF LongSymbols, Surjection
  <2> HIDE DEF g, P
  <2> QED
    BY <2>2, <2>3, FS_Surjection
<1>3. IsFiniteSet(EntrySymbols)
  <2>1. EntrySymbols \in SUBSET LongSymbols
    BY DEF EntrySymbols
  <2> QED
    BY <1>2, <2>1, FS_Subset
<1>4. DOMAIN snapshot \subseteq Symbols
  BY SnapshotRows DEF BatchOK
<1> QED
  BY <1>1, <1>3, <1>4 DEF ExitSymbols, EntrySymbols, Priced, Held

\* The projections are sums of values of shares.
LEMMA ProjectionsAreSums ==
  ASSUME AccountOK, BatchOK, NEW f, NEW g,
         \A s \in ExitSymbols : f[s] = account.positions[s] * snapshot[s].close,
         \A s \in EntrySymbols : g[s] = Shortfall(s) * snapshot[s].close
  PROVE  /\ \A s : ProjectedAfterExit(s) = MarkedValue - SumOf(f, {t \in ExitSymbols : t <= s})
         /\ \A s : ProjectedAfterEntry(s) = MarkedValue - SumOf(f, ExitSymbols)
                                            + SumOf(g, {t \in EntrySymbols : t <= s})
<1>1. ASSUME NEW S \in SUBSET ExitSymbols
      PROVE  ValueIn(S, account.positions, snapshot) = SumOf(f, S)
  <2>1. IsFiniteSet(S)
    BY PlanIsFinite, FS_Subset
  <2> QED
    BY <2>1, ValuesAreSums
<1>2. ASSUME NEW S \in SUBSET EntrySymbols
      PROVE  ValueOf(S, Shortfall) = SumOf(g, S)
  <2> DEFINE value == ValueOf(S, Shortfall)
             Body(h) == h = [T \in SUBSET S |-> IF T = {} THEN 0 ELSE
               Shortfall(CHOOSE x \in T : TRUE) * snapshot[CHOOSE x \in T : TRUE].close
                  + h[T \ {CHOOSE x \in T : TRUE}]]
  <2>1. IsFiniteSet(S)
    BY PlanIsFinite, FS_Subset
  <2>2. \A T \in SUBSET S : T # {} => (CHOOSE x \in T : TRUE) \in S
    OBVIOUS
  <2>3. value = (CHOOSE h : Body(h))[S]
    BY DEF ValueOf, MapThenSumSet, MapThenFoldSet
  <2>4. \A h : Body(h) <=> Adds(h, g, S)
    BY <2>2 DEF Adds, Picked
  <2> HIDE DEF Body, value
  <2>5. value = SumOf(g, S)
    BY <2>1, <2>3, <2>4, SumsExist, SumOfPart
  <2> QED
    BY <2>5 DEF value
<1>3. \A s : ProjectedAfterExit(s)
             = MarkedValue - ValueIn({t \in ExitSymbols : t <= s}, account.positions, snapshot)
  BY DEF ProjectedAfterExit, ValueOf, ValueIn, MapThenSumSet, MapThenFoldSet
<1>4. \A s : ProjectedAfterEntry(s)
             = MarkedValue - ValueIn(ExitSymbols, account.positions, snapshot)
               + ValueOf({t \in EntrySymbols : t <= s}, Shortfall)
  BY DEF ProjectedAfterEntry, ValueOf, ValueIn, MapThenSumSet, MapThenFoldSet
<1>5. ASSUME NEW s
      PROVE  /\ ProjectedAfterExit(s) = MarkedValue - SumOf(f, {t \in ExitSymbols : t <= s})
             /\ ProjectedAfterEntry(s) = MarkedValue - SumOf(f, ExitSymbols)
                                         + SumOf(g, {t \in EntrySymbols : t <= s})
  <2>1. /\ {t \in ExitSymbols : t <= s} \in SUBSET ExitSymbols
        /\ ExitSymbols \in SUBSET ExitSymbols
        /\ {t \in EntrySymbols : t <= s} \in SUBSET EntrySymbols
    OBVIOUS
  <2> QED
    BY <1>1, <1>2, <1>3, <1>4, <2>1
<1> QED
  BY <1>5

\* What the items of a plan are.
ExitOf(item, s) ==
    /\ item.id.symbol = s /\ item.id.side = "sell" /\ item.qty = account.positions[s]
    /\ item.projected = ProjectedAfterExit(s) /\ item.total = Equity

EntryOf(item, s) ==
    /\ item.id.symbol = s /\ item.id.side = "buy" /\ item.qty = Shortfall(s)
    /\ item.projected = ProjectedAfterEntry(s) /\ item.total = Equity

LEMMA IntentsAreOf ==
  ASSUME DayInv
  PROVE  /\ \A s \in ExitSymbols : ExitOf(ExitIntent(s), s)
         /\ \A s \in EntrySymbols : EntryOf(EntryIntent(s), s)
<1>1. /\ \A k \in DOMAIN signals : signals[k].created \in Nat
      /\ DOMAIN signals \subseteq SignalIds
  <2>1. \A k \in DOMAIN signals : signals[k].decision \in DOMAIN predictions
          /\ signals[k].created = predictions[signals[k].decision].created
    BY DEF DayInv, SignalsOK, Backed
  <2>2. \A d \in DOMAIN predictions : predictions[d].created \in Nat
    BY DEF DayInv, PredictionsOK, Prediction
  <2> QED
    BY <2>1, <2>2 DEF DayInv, SignalsOK
<1>2. ASSUME NEW s \in ExitSymbols
      PROVE  ExitOf(ExitIntent(s), s)
  <2> DEFINE ids == PendingOf("flat")
  <2>1. ids \in SUBSET DOMAIN signals /\ \E k \in ids : k.symbol = s
    BY DEF PendingOf, PendingSignals, ExitSymbols
  <2>2. FirstSignal(ids, s).symbol = s
    BY <1>1, <2>1, FirstSignalExists
  <2> QED
    BY <2>2 DEF ExitIntent, Intent, ExitOf
<1>3. ASSUME NEW s \in EntrySymbols
      PROVE  EntryOf(EntryIntent(s), s)
  <2> DEFINE ids == PendingOf("long")
  <2>1. ids \in SUBSET DOMAIN signals /\ \E k \in ids : k.symbol = s
    BY DEF PendingOf, PendingSignals, EntrySymbols, LongSymbols
  <2>2. FirstSignal(ids, s).symbol = s
    BY <1>1, <2>1, FirstSignalExists
  <2> QED
    BY <2>2 DEF EntryIntent, Intent, EntryOf
<1> QED
  BY <1>2, <1>3

\* A plan is such a chain.
LEMMA PlanChain ==
  ASSUME DayInv, AccountOK, BatchOK, Plan
  PROVE  ItemsOK' /\ ChainOK'
<1> DEFINE X == ExitSymbols
           N == EntrySymbols
           f == [s \in Symbols |-> account.positions[s] * snapshot[s].close]
           g == [s \in Symbols |-> Shortfall(s) * snapshot[s].close]
           XS(s) == SumOf(f, {t \in X : t <= s})
           NS(s) == SumOf(g, {t \in N : t <= s})
           all == SumOf(f, X)
<1>1. UNCHANGED <<account, snapshot, orders, today>>
  BY DEF Plan, ledgerVars, marketVars
<1>2. /\ Equity' = Equity /\ Exposure' = Exposure /\ Exposure = MarkedValue
      /\ MarkedValue \in Int /\ \A item : Added(item)' = Added(item)
  BY <1>1, MarkedValues, MarkedIsSum DEF Equity, Added
<1>3. /\ IsFiniteSet(X) /\ IsFiniteSet(N)
      /\ X \subseteq Symbols /\ N \subseteq Symbols /\ X \in SUBSET Nat /\ N \in SUBSET Nat
  BY PlanIsFinite, DriverAssumption
<1>4. /\ \A s \in X : /\ f[s] \in Int /\ f[s] = account.positions[s] * snapshot[s].close
                      /\ account.positions[s] \in Nat
      /\ \A s \in N : g[s] \in Int /\ g[s] = Shortfall(s) * snapshot[s].close
  <2>1. \A s \in X : account.positions[s] \in Nat /\ snapshot[s].close \in Nat
    BY PlannedQuantities, SnapshotRows DEF BatchOK
  <2>2. \A s \in N : Shortfall(s) \in Nat /\ snapshot[s].close \in Nat
    BY PlannedQuantities, SnapshotRows DEF BatchOK
  <2>3. \A p, q \in Nat : p * q \in Int
    OBVIOUS
  <2> QED
    BY <1>3, <2>1, <2>2, <2>3
<1>5. ASSUME NEW item \in planned'
      PROVE  \/ \E s \in X : ExitOf(item, s)
             \/ \E s \in N : EntryOf(item, s)
  BY IntentsAreOf DEF Plan
<1>6. ASSUME planned' # {}
      PROVE  /\ \A s \in X : ExitIntent(s) \in planned' /\ ExitOf(ExitIntent(s), s)
             /\ \A s \in N : EntryIntent(s) \in planned' /\ EntryOf(EntryIntent(s), s)
  BY <1>6, IntentsAreOf DEF Plan
<1>7. ASSUME NEW a \in planned', NEW b \in planned',
             a.id.side = b.id.side, a.id.symbol = b.id.symbol
      PROVE  a = b
  <2>1. \A item \in planned' : \/ \E s \in X : item = ExitIntent(s) /\ ExitOf(item, s)
                               \/ \E s \in N : item = EntryIntent(s) /\ EntryOf(item, s)
    BY IntentsAreOf DEF Plan
  <2> QED
    BY <1>7, <2>1 DEF ExitOf, EntryOf
<1>8. /\ \A s : ProjectedAfterExit(s) = MarkedValue - XS(s)
      /\ \A s : ProjectedAfterEntry(s) = MarkedValue - all + NS(s)
  <2> HIDE DEF f, g
  <2> QED
    BY <1>4, ProjectionsAreSums
<1> HIDE DEF X, N, f, g
<1>9. \A s \in X : /\ XS(s) \in Int /\ all \in Int
                   /\ (\A y \in X : s <= y) => XS(s) = f[s]
                   /\ (\A y \in X : y <= s) => XS(s) = all
                   /\ \A w \in X : w < s /\ (\A y \in X : y <= w \/ s <= y) => XS(s) = XS(w) + f[s]
  <2>1. X \in SUBSET Nat /\ IsFiniteSet(X) /\ \A y \in X : f[y] \in Int
    BY <1>3, <1>4
  <2>2. ASSUME NEW s \in X
        PROVE  /\ XS(s) \in Int /\ all \in Int
               /\ (\A y \in X : s <= y) => XS(s) = f[s]
               /\ (\A y \in X : y <= s) => XS(s) = all
               /\ \A w \in X : w < s /\ (\A y \in X : y <= w \/ s <= y) => XS(s) = XS(w) + f[s]
    BY <2>1, RunningSum
  <2> QED
    BY <2>2
<1>10. \A s \in N : /\ NS(s) \in Int
                    /\ (\A y \in N : s <= y) => NS(s) = g[s]
                    /\ \A w \in N : w < s /\ (\A y \in N : y <= w \/ s <= y) => NS(s) = NS(w) + g[s]
  BY <1>3, <1>4, RunningSum
<1>11. all \in Int /\ (X = {} => all = 0)
  BY <1>3, <1>4, SumType, SumStep
<1> HIDE DEF XS, NS, all
<1>12. ASSUME NEW item, NEW s \in X, ExitOf(item, s)
       PROVE  /\ item.id.symbol = s /\ item.id.side = "sell"
              /\ item.projected = MarkedValue - XS(s) /\ item.projected \in Int
              /\ Added(item) = 0 - f[s] /\ f[s] \in Int /\ s \in Nat
  <2>1. item.id.symbol = s /\ item.id.side = "sell" /\ item.qty = account.positions[s]
        /\ item.projected = MarkedValue - XS(s)
    BY <1>8, <1>12 DEF ExitOf
  <2> QED
    BY <1>2, <1>3, <1>4, <1>9, <2>1 DEF Added
<1>13. ASSUME NEW item, NEW s \in N, EntryOf(item, s)
       PROVE  /\ item.id.symbol = s /\ item.id.side = "buy"
              /\ item.projected = MarkedValue - all + NS(s) /\ item.projected \in Int
              /\ Added(item) = g[s] /\ g[s] \in Int /\ s \in Nat
  <2>1. item.id.symbol = s /\ item.id.side = "buy" /\ item.qty = Shortfall(s)
        /\ item.projected = MarkedValue - all + NS(s)
    BY <1>8, <1>13 DEF EntryOf
  <2> QED
    BY <1>2, <1>3, <1>4, <1>10, <1>11, <2>1 DEF Added
<1>14. ItemsOK'
  <2>1. ASSUME NEW a \in planned'
        PROVE  /\ a.total = Equity /\ a.projected \in Int
               /\ a.id.side = "sell" => a.qty <= account.positions[a.id.symbol]
    <3>1. CASE \E s \in X : ExitOf(a, s)
      <4>1. PICK s \in X : ExitOf(a, s)
        BY <3>1
      <4> QED
        BY <1>4, <1>12, <4>1 DEF ExitOf
    <3>2. CASE \E s \in N : EntryOf(a, s)
      BY <1>13, <3>2 DEF EntryOf
    <3> QED
      BY <1>5, <3>1, <3>2
  <2> QED
    BY <1>1, <1>2, <1>7, <2>1 DEF ItemsOK
<1>15. ASSUME NEW a \in planned', \A c \in planned' : PlannedBefore(a, c)
       PROVE  MarkedValue + Added(a) <= a.projected
  <2>1. CASE \E s \in X : ExitOf(a, s)
    <3>1. PICK s \in X : ExitOf(a, s)
      BY <2>1
    <3>2. \A y \in X : s <= y
      BY <1>6, <1>12, <1>15, <3>1 DEF PlannedBefore
    <3> QED
      BY <1>2, <1>9, <1>12, <3>1, <3>2
  <2>2. CASE \E s \in N : EntryOf(a, s)
    <3>1. PICK s \in N : EntryOf(a, s)
      BY <2>2
    <3>2. X = {}
      BY <1>6, <1>12, <1>13, <1>15, <3>1 DEF PlannedBefore
    <3>3. \A y \in N : s <= y
      BY <1>6, <1>13, <1>15, <3>1 DEF PlannedBefore
    <3> QED
      BY <1>2, <1>10, <1>11, <1>13, <3>1, <3>2, <3>3
  <2> QED
    BY <1>5, <2>1, <2>2
<1>16. ASSUME NEW a \in planned', NEW b \in planned', a # b, PlannedBefore(a, b),
              \A c \in planned' \ {a, b} : PlannedBefore(c, a) \/ PlannedBefore(b, c)
       PROVE  a.projected + Added(b) <= b.projected
  <2>1. ASSUME NEW v \in X, ExitOf(a, v), NEW w \in X, ExitOf(b, w)
        PROVE  a.projected + Added(b) <= b.projected
    <3>1. v < w
      BY <1>7, <1>12, <1>16, <2>1 DEF PlannedBefore
    <3>2. \A y \in X : y <= v \/ w <= y
      BY <1>6, <1>12, <1>16, <2>1 DEF PlannedBefore
    <3> QED
      BY <1>2, <1>9, <1>12, <2>1, <3>1, <3>2
  <2>2. ASSUME NEW v \in X, ExitOf(a, v), NEW w \in N, EntryOf(b, w)
        PROVE  a.projected + Added(b) <= b.projected
    <3>1. \A y \in X : y <= v
      BY <1>6, <1>12, <1>13, <1>16, <2>2 DEF PlannedBefore
    <3>2. \A y \in N : w <= y
      BY <1>6, <1>12, <1>13, <1>16, <2>2 DEF PlannedBefore
    <3> QED
      BY <1>2, <1>9, <1>10, <1>12, <1>13, <2>2, <3>1, <3>2
  <2>3. ASSUME NEW v \in N, EntryOf(a, v), NEW w \in N, EntryOf(b, w)
        PROVE  a.projected + Added(b) <= b.projected
    <3>1. v < w
      BY <1>7, <1>13, <1>16, <2>3 DEF PlannedBefore
    <3>2. \A y \in N : y <= v \/ w <= y
      BY <1>6, <1>13, <1>16, <2>3 DEF PlannedBefore
    <3> QED
      BY <1>2, <1>10, <1>11, <1>13, <2>3, <3>1, <3>2
  <2>4. ASSUME NEW v \in N, EntryOf(a, v), NEW w \in X, ExitOf(b, w)
        PROVE  FALSE
    BY <1>12, <1>13, <1>16, <2>4 DEF PlannedBefore
  <2> QED
    BY <1>5, <2>1, <2>2, <2>3, <2>4
<1>17. ChainOK'
  BY <1>2, <1>15, <1>16 DEF ChainOK, ComesFirst, ComesNext
<1> QED
  BY <1>14, <1>17

\* A chain stays one while account, prices and orders do.
LEMMA QuietChain ==
  ASSUME ItemsOK, ChainOK, UNCHANGED <<account, snapshot, orders, today, planned>>
  PROVE  ItemsOK' /\ ChainOK'
<1>1. Equity' = Equity /\ Exposure' = Exposure /\ \A item : Added(item)' = Added(item)
  BY MarkedValues DEF Equity, Added
<1>2. SaleRefusedToday' = SaleRefusedToday
  BY DEF SaleRefusedToday
<1> QED
  BY <1>1, <1>2 DEF ItemsOK, ChainOK, ComesFirst, ComesNext

\* A plan without items is a chain.
LEMMA NoChain ==
  ASSUME planned' = {}
  PROVE  ItemsOK' /\ ChainOK'
BY DEF ItemsOK, ChainOK

\* What an order of the plan does: it is filled, after the gate has let it through,
\* or the account stays; a sale that is not filled is on record.
LEMMA ExecuteOutcome ==
  ASSUME NEW price, FlatMarket(price), FlatInv(price), ItemsOK, NEW item \in planned, Execute(item)
  PROVE  \/ account' = account /\ (item.id.side = "sell" => SaleRefusedToday')
         \/ /\ GateVerdict(item) = OK
            /\ Trade(account, account', item.id, item.qty, price[item.id.symbol])
<1> DEFINE row == snapshot[item.id.symbol]
           fill == Matched(account, item.id, item.qty, row, PlannedContext(item), row.slip)
           reason == MatchReason(item.id.side, item.qty, row, PlannedContext(item))
           s == item.id.symbol
<1>1. /\ item.id \in OrderIds /\ item.qty \in Nat \ {0} /\ account \in Accounts
      /\ snapshot \in Snapshots /\ s \in DOMAIN snapshot
      /\ ~AlreadyPlaced(item.id)
  BY DEF FlatInv, DayInv, PlannedOK, ItemOK, BatchOK, AccountOK, AlreadyPlaced, SignalIdsWithOrders
<1>2. row.open \in Nat /\ row.slip = 0 /\ row.open = price[s]
  BY <1>1, SnapshotRows DEF FlatMarket
<1>3. Submit(item) /\ s \in Symbols /\ item.id.side \in Sides
  BY <1>1 DEF Execute, OrderIds
<1>4. ASSUME NEW order, order.status # "filled", order.created = today,
             orders' = Insert(orders, item.id, order), today' = today, item.id.side = "sell"
      PROVE  SaleRefusedToday'
  <2>1. item.id \in DOMAIN orders' /\ orders'[item.id] = order
    BY <1>4 DEF Insert
  <2> QED
    BY <1>4, <2>1 DEF SaleRefusedToday
<1>5. CASE GateVerdict(item) # OK
  <2> DEFINE order == OrderRowOf(Unfilled(account, "rejected", GateVerdict(item)), item.qty,
                                 item.decision, 0, today)
  <2>1. account' = account /\ today' = today /\ orders' = Insert(orders, item.id, order)
    BY <1>1, <1>3, <1>5 DEF Submit, RecordRejection
  <2>2. order.status # "filled" /\ order.created = today
    BY DEF OrderRowOf, Unfilled
  <2> HIDE DEF order
  <2> QED
    BY <1>4, <2>1, <2>2
<1>6. CASE GateVerdict(item) = OK /\ item.id.side = "buy"
  <2>1. account' = account \/ (account' = fill.acct /\ ~Uncovered(fill))
    BY <1>3, <1>6 DEF Submit, PlaceOrder
  <2> HIDE DEF row
  <2>2. ~Uncovered(fill) => fill.acct = account
                            \/ Trade(account, fill.acct, item.id, item.qty, row.open)
    BY <1>1, <1>2, MatchedTrades
  <2> HIDE DEF fill
  <2> QED
    BY <1>2, <1>6, <2>1, <2>2
<1>7. CASE GateVerdict(item) = OK /\ item.id.side = "sell"
  <2> DEFINE order == OrderRowOf(fill, item.qty, item.decision, 0, today)
  <2>1. fill = ApplyFill(account, item.id, item.qty, reason, row.open)
    <3>1. FillPrice(item.id.side, row, row.slip) = row.open
      BY <1>2 DEF FillPrice
    <3> QED
      BY <3>1 DEF Matched
  <2>2. item.qty <= account.positions[s]
    BY <1>7 DEF ItemsOK
  <2>3. /\ today' = today
        /\ ~Uncovered(fill) => account' = fill.acct /\ orders' = Insert(orders, item.id, order)
    BY <1>1, <1>3, <1>7 DEF Submit, PlaceOrder
  <2>4. order.status = fill.status /\ order.created = today
    BY DEF OrderRowOf
  <2> HIDE DEF fill, order, reason, row
  <2>5. CASE reason # OK
    <3>1. fill.acct = account /\ fill.status = "pending"
      BY <2>1, <2>5 DEF ApplyFill, Unfilled
    <3>2. ~Uncovered(fill)
      <4>1. \A t \in Symbols : account.positions[t] \in Nat
        BY <1>1 DEF Accounts
      <4> QED
        BY <3>1, <4>1 DEF Uncovered
    <3> QED
      BY <1>4, <1>7, <2>3, <2>4, <3>1, <3>2
  <2>6. CASE reason = OK
    <3>1. fill.acct = [cash |-> account.cash + Proceeds(row.open, item.qty),
                       positions |-> [account.positions EXCEPT ![s] = @ - item.qty]]
      BY <1>7, <2>1, <2>6 DEF ApplyFill, Filled
    <3>2. account.positions \in [Symbols -> Nat]
      BY <1>1 DEF Accounts
    <3>3. \A t \in Symbols : fill.acct.positions[t]
                             = IF t = s THEN account.positions[s] - item.qty ELSE account.positions[t]
      BY <3>1, <3>2
    <3>4. ~Uncovered(fill)
      BY <1>1, <1>3, <2>2, <3>2, <3>3 DEF Uncovered
    <3> QED
      BY <1>2, <1>7, <2>2, <2>3, <3>1, <3>4 DEF Trade
  <2> QED
    BY <2>5, <2>6
<1> QED
  BY <1>3, <1>5, <1>6, <1>7 DEF Sides

\* The holdings of an account that have a price.
PricedPart(acct, snap) ==
    [acct EXCEPT !.positions = [t \in Symbols |-> IF t \in DOMAIN snap THEN acct.positions[t] ELSE 0]]

\* The market value is what they are worth.
LEMMA MarkedIsWorth ==
  ASSUME NEW price, FlatMarket(price), NEW snap \in Snapshots,
         NEW acct \in Accounts, IsFiniteSet(Held(acct))
  PROVE  /\ PricedPart(acct, snap) \in Accounts
         /\ IsFiniteSet(Held(PricedPart(acct, snap)))
         /\ MarkedIn(acct, snap) = Worth(PricedPart(acct, snap), price)
         /\ MarkedIn(acct, snap) \in Nat
<1> DEFINE part == PricedPart(acct, snap)
           close == [s \in Symbols |-> snap[s].close]
           S == Held(acct) \cap DOMAIN snap
<1>1. /\ part \in Accounts
      /\ \A t \in Symbols : part.positions[t] = IF t \in DOMAIN snap THEN acct.positions[t] ELSE 0
  BY DEF PricedPart, Accounts
<1>2. Held(part) = S
  BY <1>1 DEF Held
<1>3. IsFiniteSet(S)
  <2>1. S \in SUBSET Held(acct)
    OBVIOUS
  <2> QED
    BY <2>1, FS_Subset
<1>4. \A t \in S : WorthIn(acct, close)[t] = WorthIn(part, price)[t]
  <2>1. \A t \in S : t \in Symbols /\ part.positions[t] = acct.positions[t]
                     /\ snap[t].close = price[t]
    BY <1>1 DEF Held, FlatMarket
  <2> HIDE DEF part
  <2> QED
    BY <2>1 DEF WorthIn
<1>5. MarkedIn(acct, snap) = SumOf(WorthIn(acct, close), S) /\ MarkedIn(acct, snap) \in Nat
  BY MarkedInIsSum
<1> HIDE DEF part, close, S
<1>6. SumOf(WorthIn(acct, close), S) = SumOf(WorthIn(part, price), S)
  BY <1>3, <1>4, SumOfSame
<1> QED
  BY <1>1, <1>2, <1>3, <1>5, <1>6 DEF Worth, part

\* A trade at the closing price moves the exposure by its value and keeps the equity.
LEMMA TradeMoves ==
  ASSUME NEW price, FlatMarket(price), FlatInv(price), snapshot' = snapshot,
         NEW item \in planned, Trade(account, account', item.id, item.qty, price[item.id.symbol])
  PROVE  /\ Exposure \in Int /\ Added(item) \in Int /\ Exposure' = Exposure + Added(item)
         /\ Equity' = Equity
<1> DEFINE s == item.id.symbol
           p == price[s]
           held == account.positions[s]
           after == account'.positions[s]
           before == PricedPart(account, snapshot)
           behind == PricedPart(account', snapshot)
<1>1. /\ item.id \in OrderIds /\ item.qty \in Nat \ {0} /\ account \in Accounts
      /\ snapshot \in Snapshots /\ s \in DOMAIN snapshot /\ s \in Symbols /\ item.id.side \in Sides
      /\ IsFiniteSet(Held(account)) /\ account.cash + Worth(account, price) = InitialCash
      /\ price \in [Symbols -> Nat] /\ snapshot[s].close = p
  BY DEF FlatInv, DayInv, PlannedOK, ItemOK, BatchOK, AccountOK, OrderIds, FlatMarket
<1>2. /\ account' \in Accounts /\ IsFiniteSet(Held(account'))
      /\ account'.cash + Worth(account', price) = InitialCash
  BY <1>1, TradeKeepsWorth
<1>3. /\ account.cash \in Nat /\ account.positions \in [Symbols -> Nat] /\ held \in Nat
      /\ account'.cash \in Nat /\ account'.positions \in [Symbols -> Nat] /\ after \in Nat
      /\ p \in Nat
  BY <1>1, <1>2 DEF Accounts
<1>4. /\ \A t \in Symbols \ {s} : account'.positions[t] = account.positions[t]
      /\ IF item.id.side = "sell" THEN item.qty <= held /\ after = held - item.qty
                                  ELSE after = held + item.qty
  BY <1>1, <1>3 DEF Trade, Sides
<1>5. Worth(account', price) + held * p = Worth(account, price) + after * p
  BY <1>1, <1>2, <1>4, MovedWorth
<1>6. /\ before \in Accounts /\ behind \in Accounts /\ IsFiniteSet(Held(before))
      /\ MarkedIn(account, snapshot) = Worth(before, price) /\ MarkedIn(account, snapshot) \in Nat
      /\ MarkedIn(account', snapshot) = Worth(behind, price) /\ MarkedIn(account', snapshot) \in Nat
  BY <1>1, <1>2, MarkedIsWorth
<1>7. /\ before.positions[s] = held /\ behind.positions[s] = after
      /\ \A t \in Symbols \ {s} : behind.positions[t] = before.positions[t]
  BY <1>1, <1>3, <1>4 DEF PricedPart, Accounts
<1>8. Worth(behind, price) + held * p = Worth(before, price) + after * p
  <2> HIDE DEF before, behind, s
  <2>1. s \in Symbols
    BY <1>1 DEF s
  <2> QED
    BY <1>1, <1>6, <1>7, <2>1, MovedWorth
<1>9. /\ held * p \in Nat /\ p * item.qty \in Nat
      /\ after * p = IF item.id.side = "sell" THEN held * p - p * item.qty
                                              ELSE held * p + p * item.qty
  <2> DEFINE q == item.qty
  <2>1. q \in Nat /\ held \in Nat /\ p \in Nat
        /\ IF item.id.side = "sell" THEN q <= held /\ after = held - q ELSE after = held + q
    BY <1>1, <1>3, <1>4
  <2> HIDE DEF p, held, after, q
  <2>2. /\ p * q \in Nat /\ held * p \in Nat /\ (held + q) * p = held * p + p * q
        /\ q <= held => (held - q) * p = held * p - p * q
    BY <2>1, TradedWorth
  <2>3. after * p = IF item.id.side = "sell" THEN held * p - p * q ELSE held * p + p * q
    BY <2>1, <2>2
  <2> QED
    BY <2>2, <2>3 DEF q
<1>10. Added(item) = IF item.id.side = "sell" THEN 0 - p * item.qty ELSE p * item.qty
  <2>1. item.qty * p = p * item.qty
    BY <1>1, <1>3
  <2> QED
    BY <1>1, <2>1 DEF Added
<1>11. /\ Exposure = MarkedIn(account, snapshot) /\ Exposure' = MarkedIn(account', snapshot)
       /\ Equity = account.cash + MarkedIn(account, snapshot)
       /\ Equity' = account'.cash + MarkedIn(account', snapshot)
  BY MarkedValues DEF Equity
<1>12. Worth(account, price) \in Int /\ Worth(account', price) \in Int
  <2>1. ASSUME NEW acct \in Accounts, IsFiniteSet(Held(acct))
        PROVE  Worth(acct, price) \in Int
    <3>1. WorthIn(acct, price) \in [Symbols -> Int]
      <4>1. \A a, b \in Nat : a * b \in Int
        OBVIOUS
      <4> QED
        BY <1>1, <4>1 DEF WorthIn, Accounts
    <3>2. \A t \in Held(acct) : WorthIn(acct, price)[t] \in Int
      BY <3>1 DEF Held
    <3> QED
      BY <2>1, <3>2, SumType DEF Worth
  <2> QED
    BY <1>1, <1>2, <2>1
<1> HIDE DEF s, p, held, after, before, behind
<1> QED
  <2> DEFINE hp == held * p
             ap == after * p
             pq == p * item.qty
             cash == account.cash
             cash2 == account'.cash
             marked == MarkedIn(account, snapshot)
             marked2 == MarkedIn(account', snapshot)
             worth == Worth(account, price)
             worth2 == Worth(account', price)
  <2>1. /\ hp \in Int /\ pq \in Int /\ cash \in Int /\ cash2 \in Int /\ marked \in Int
        /\ marked2 \in Int /\ worth \in Int /\ worth2 \in Int /\ InitialCash \in Int
        /\ ap = IF item.id.side = "sell" THEN hp - pq ELSE hp + pq
    BY <1>3, <1>6, <1>9, <1>12, LedgerAssumption
  <2>2. /\ cash + worth = InitialCash /\ cash2 + worth2 = InitialCash
        /\ worth2 + hp = worth + ap /\ marked2 + hp = marked + ap
    BY <1>1, <1>2, <1>5, <1>6, <1>8
  <2>3. /\ Exposure = marked /\ Exposure' = marked2
        /\ Equity = cash + marked /\ Equity' = cash2 + marked2
        /\ Added(item) = IF item.id.side = "sell" THEN 0 - pq ELSE pq
    BY <1>10, <1>11
  <2> HIDE DEF hp, ap, pq, cash, cash2, marked, marked2, worth, worth2
  <2>4. marked2 = marked + Added(item) /\ Added(item) \in Int
    BY <2>1, <2>2, <2>3
  <2>5. cash2 + marked2 = cash + marked
    BY <2>1, <2>2
  <2> QED
    BY <2>1, <2>3, <2>4, <2>5

\* What is left of the plan is still a chain.
LEMMA ExecuteChain ==
  ASSUME NEW price, FlatMarket(price), CapInv(price), NEW item \in planned, Execute(item)
  PROVE  ItemsOK' /\ ChainOK'
<1>1. /\ planned' = planned \ {item} /\ \A c \in planned : PlannedBefore(item, c)
      /\ snapshot' = snapshot /\ Submit(item)
  BY DEF Execute, marketVars
<1>2. FlatInv(price) /\ ItemsOK /\ ChainOK
  BY DEF CapInv
<1>3. today' = today /\ \A id \in DOMAIN orders : id \in DOMAIN orders' /\ orders'[id] = orders[id]
  <2>1. item.id \notin DOMAIN orders
    BY <1>2 DEF FlatInv, DayInv, PlannedOK, ItemOK, SignalIdsWithOrders
  <2>2. ASSUME NEW row, orders' = Insert(orders, item.id, row)
        PROVE  \A id \in DOMAIN orders : id \in DOMAIN orders' /\ orders'[id] = orders[id]
    BY <2>1, <2>2 DEF Insert
  <2> QED
    BY <1>1, <2>2, SubmitAddsARow
<1>4. SaleRefusedToday => SaleRefusedToday'
  BY <1>3 DEF SaleRefusedToday
<1>5. /\ Equity' = Equity /\ Exposure \in Int /\ Added(item) \in Int
      /\ ~SaleRefusedToday' => Exposure' = Exposure + Added(item)
                               \/ (Exposure' = Exposure /\ item.id.side # "sell")
  <2>1. CASE Trade(account, account', item.id, item.qty, price[item.id.symbol])
    BY <1>1, <1>2, <2>1, TradeMoves
  <2>2. CASE account' = account /\ (item.id.side = "sell" => SaleRefusedToday')
    <3>1. MarkedValue' = MarkedValue /\ Exposure' = Exposure /\ Exposure \in Int
      BY <1>1, <1>2, <2>2, MarkedValues, MarkedIsSum DEF FlatInv
    <3>2. Added(item) \in Int
      <4>1. item.qty \in Nat /\ snapshot[item.id.symbol].close \in Nat
        BY <1>2, SnapshotRows DEF FlatInv, BatchOK
      <4>2. item.qty * snapshot[item.id.symbol].close \in Int
        BY <4>1
      <4> QED
        BY <4>2 DEF Added
    <3> QED
      BY <2>2, <3>1, <3>2 DEF Equity
  <2> QED
    BY <1>2, <2>1, <2>2, ExecuteOutcome
<1>6. item.id.side # "sell" => Added(item) >= 0
  <2>1. item.qty \in Nat /\ snapshot[item.id.symbol].close \in Nat
    BY <1>2, SnapshotRows DEF FlatInv, BatchOK
  <2>2. item.qty * snapshot[item.id.symbol].close >= 0
    BY <2>1
  <2> QED
    BY <2>2 DEF Added
<1>7. ItemsOK'
  <2>1. ASSUME NEW a \in planned', a.id.side = "sell"
        PROVE  a.qty <= account'.positions[a.id.symbol]
    <3>1. item.id.side = "sell" /\ a.id.symbol # item.id.symbol
          /\ a.qty <= account.positions[a.id.symbol]
      BY <1>1, <1>2, <2>1 DEF PlannedBefore, ItemsOK
    <3>2. CASE account' = account
      BY <3>1, <3>2
    <3>3. CASE Trade(account, account', item.id, item.qty, price[item.id.symbol])
      <4>1. account.positions \in [Symbols -> Nat]
        BY <1>2 DEF FlatInv, AccountOK, Accounts
      <4>2. a.id.symbol \in Symbols
        BY <1>1, <1>2, <2>1 DEF FlatInv, DayInv, PlannedOK, ItemOK, OrderIds
      <4> QED
        BY <3>1, <3>3, <4>1, <4>2 DEF Trade
    <3> QED
      BY <1>2, <3>2, <3>3, ExecuteOutcome
  <2> QED
    BY <1>1, <1>2, <1>5, <2>1 DEF ItemsOK
<1>8. \A a : Added(a)' = Added(a)
  BY <1>1 DEF Added
<1>9. ASSUME NEW a \in planned', NEW b \in planned', ComesNext(a, b)'
      PROVE  a.projected + Added(b) <= b.projected
  <2>1. ComesNext(a, b)
    BY <1>1, <1>9 DEF ComesNext
  <2> QED
    BY <1>1, <1>2, <2>1 DEF ChainOK
<1>10. ASSUME NEW a \in planned', ComesFirst(a)', ~SaleRefusedToday'
       PROVE  Exposure' + Added(a) <= a.projected
  <2>1. ComesNext(item, a) /\ ComesFirst(item)
    BY <1>1, <1>10 DEF ComesFirst, ComesNext
  <2>2. item.projected + Added(a) <= a.projected /\ Exposure + Added(item) <= item.projected
    BY <1>1, <1>2, <1>4, <1>10, <2>1 DEF ChainOK
  <2>3. Added(a) \in Int /\ item.projected \in Int /\ a.projected \in Int
    <3>1. a.qty \in Nat /\ snapshot[a.id.symbol].close \in Nat
      BY <1>1, <1>2, SnapshotRows DEF FlatInv, BatchOK
    <3>2. a.qty * snapshot[a.id.symbol].close \in Int
      BY <3>1
    <3> QED
      BY <1>1, <1>2, <3>2 DEF Added, ItemsOK
  <2> QED
    BY <1>5, <1>6, <1>10, <2>2, <2>3
<1>11. ChainOK'
  BY <1>8, <1>9, <1>10 DEF ChainOK
<1> QED
  BY <1>7, <1>11

\* Every step keeps the invariant.
LEMMA CapStep ==
  ASSUME NEW price, FlatMarket(price), CapInv(price), [DayNext]_dayVars
  PROVE  CapInv(price)'
<1>1. FlatInv(price) /\ FlatInv(price)' /\ ItemsOK /\ ChainOK /\ DayInv
  BY FlatStep DEF CapInv, FlatInv
<1> USE DEF marketVars, ledgerVars, batchVars
<1>2. ASSUME UNCHANGED <<account, snapshot, orders, today, planned>>
      PROVE  ItemsOK' /\ ChainOK'
  BY <1>1, <1>2, QuietChain
<1>3. CASE \/ \E symbol \in Symbols, action \in Actions, approved \in BOOLEAN,
                date \in {today, today + 1} : Decide(symbol, action, approved, date)
           \/ Begin \/ Finish \/ Settle \/ UNCHANGED dayVars
           \/ \E d \in Decisions : Convert(d)
  <2>1. UNCHANGED <<account, snapshot, orders, today, planned>>
    <3>1. CASE \E symbol \in Symbols, action \in Actions, approved \in BOOLEAN,
                 date \in {today, today + 1} : Decide(symbol, action, approved, date)
      BY <3>1 DEF Decide
    <3>2. CASE Begin \/ Finish
      BY <3>2 DEF Begin, Finish
    <3>3. CASE Settle \/ UNCHANGED dayVars
      BY <3>3 DEF Settle, dayVars, driverVars
    <3>4. CASE \E d \in Decisions : Convert(d)
      BY <3>4 DEF Convert
    <3> QED
      BY <1>3, <3>1, <3>2, <3>3, <3>4
  <2> QED
    BY <1>1, <1>2, <2>1 DEF CapInv
<1>4. CASE Crash \/ NextSnapshot
  <2>1. planned' = {}
    BY <1>1, <1>4 DEF Crash, NextSnapshot, DayInv, PlannedOK
  <2> QED
    BY <1>1, <2>1, NoChain DEF CapInv
<1>5. CASE Plan
  BY <1>1, <1>5, PlanChain DEF CapInv, FlatInv
<1>6. CASE \E item \in planned : Execute(item)
  BY <1>1, <1>6, ExecuteChain DEF CapInv
<1> QED
  <2>1. ItemsOK' /\ ChainOK' => CapInv(price)'
    BY <1>1 DEF CapInv
  <2> QED
    BY <1>2, <1>3, <1>4, <1>5, <1>6, <2>1, <1>1 DEF DayNext, DriverNext, BatchStep, CapInv

(***************************************************************************)
(* Where no price moves and trading is free, no purchase takes the         *)
(* exposure over the total cap on a day on which every sale was filled:    *)
(* the gate looks at a projection made before the first order, which is    *)
(* still an upper bound when the order is placed (driver.py,               *)
(* run_execution_daily; risk_gate.py, check_order).                        *)
(***************************************************************************)
THEOREM EntriesKeepTheCap ==
  ASSUME NEW price, FlatMarket(price)
  PROVE  DaySpec => EntriesRespectProjectedCap
<1>1. DayInit => CapInv(price)
  <2> SUFFICES ASSUME DayInit
               PROVE  CapInv(price)
    OBVIOUS
  <2>1. planned = {}
    BY DEF DayInit, DriverInit
  <2> QED
    BY <2>1, InitFlat DEF CapInv, ItemsOK, ChainOK
<1>2. CapInv(price) /\ [DayNext]_dayVars => CapInv(price)'
  BY CapStep
<1>3. ASSUME CapInv(price), [DayNext]_dayVars, NEW s \in Symbols, Bought(s), ~SaleRefusedToday
      PROVE  CapRespected'
  <2>1. /\ FlatInv(price) /\ ItemsOK /\ ChainOK /\ account \in Accounts
    BY <1>3 DEF CapInv, FlatInv, AccountOK
  <2>2. account.positions \in [Symbols -> Nat]
    BY <2>1 DEF Accounts
  <2>3. PICK item \in planned : Execute(item)
    <3>1. account' # account
      BY <1>3, <2>2 DEF Bought
    <3>2. ASSUME NEW symbol, NEW action, NEW approved, NEW date,
                 Decide(symbol, action, approved, date)
          PROVE  FALSE
      BY <3>1, <3>2 DEF Decide, ledgerVars
    <3>3. ASSUME NEW d, Convert(d)
          PROVE  FALSE
      BY <3>1, <3>3 DEF Convert, ledgerVars
    <3>4. CASE Begin \/ Plan \/ Finish \/ Crash \/ NextSnapshot \/ Settle \/ UNCHANGED dayVars
      BY <3>1, <3>4 DEF Begin, Plan, Finish, Crash, NextSnapshot, Settle, dayVars, driverVars, ledgerVars
    <3> QED
      BY <1>3, <3>2, <3>3, <3>4 DEF DayNext, DriverNext, BatchStep
  <2>4. GateVerdict(item) = OK
        /\ Trade(account, account', item.id, item.qty, price[item.id.symbol])
    BY <1>3, <2>1, <2>2, <2>3, ExecuteOutcome DEF Bought
  <2>5. /\ item.total = Equity /\ item.projected \in Int
        /\ Exposure + Added(item) <= item.projected
    BY <1>3, <2>1, <2>3 DEF ItemsOK, ChainOK, ComesFirst, Execute
  <2>6. /\ Exposure' = Exposure + Added(item) /\ Exposure \in Int /\ Added(item) \in Int
        /\ Equity' = Equity
    <3>1. snapshot' = snapshot
      BY <2>3 DEF Execute, marketVars
    <3> QED
      BY <2>1, <2>4, <3>1, TradeMoves
  <2>7. ~(item.projected * 100 > MAX_TOTAL_POSITION * item.total)
    BY <2>4 DEF GateVerdict, GateReason, OverCap, OK, SealedReason
  <2>8. Equity \in Int /\ MAX_TOTAL_POSITION * Equity \in Int
    <3>1. Equity \in Int
      BY <2>1, MarkedIsSum DEF Equity, FlatInv, AccountOK, Accounts
    <3> QED
      BY <3>1, MatchingAssumption
  <2>9. Exposure' * 100 <= MAX_TOTAL_POSITION * Equity'
    <3>1. Exposure' <= item.projected /\ Exposure' \in Int
      BY <2>5, <2>6
    <3>2. item.projected * 100 <= MAX_TOTAL_POSITION * Equity
      BY <2>5, <2>7, <2>8
    <3> DEFINE bound == MAX_TOTAL_POSITION * Equity
    <3> HIDE DEF bound
    <3>3. Exposure' * 100 <= bound
      BY <2>5, <2>8, <3>1, <3>2 DEF bound
    <3> QED
      BY <2>6, <3>3 DEF bound
  <2> QED
    BY <2>9 DEF CapRespected
<1>4. CapInv(price) /\ [DayNext]_dayVars
        => [(\E s \in Symbols : Bought(s)) /\ ~SaleRefusedToday => CapRespected']_driverVars
  BY <1>3
<1> QED
  BY <1>1, <1>2, <1>4, PTL DEF DaySpec, EntriesRespectProjectedCap

=============================================================================
