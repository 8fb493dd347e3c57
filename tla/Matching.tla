------------------------------ MODULE Matching ------------------------------
(***************************************************************************)
(* The matching engine (execution/matching.py) and the pre-trade risk gate *)
(* (execution/risk_gate.py): pure functions from an order, the market row  *)
(* of its symbol and the caller's position context to a reason code.       *)
(*                                                                         *)
(* Money is an integer number of ticks.  A slippage rate is a number of    *)
(* ticks added to (buy) or taken from (sell) the opening price; the tier a *)
(* row's traded amount falls into is the field `slip` of the row.          *)
(***************************************************************************)
EXTENDS Integers

CONSTANTS
    LOT_SIZE,           \* shares per lot (screening/constraints.py: 100)
    MIN_COMMISSION,     \* floor of the commission, charged on both sides
    COMMISSION_DIV,     \* commission = turnover \div COMMISSION_DIV
    STAMP_DIV,          \* stamp tax on sales = turnover \div STAMP_DIV
    SlippageTiers,      \* the slippage of every configured tier
    MAX_SLIPPAGE,       \* the most conservative tier
    MAX_SINGLE_POSITION,\* single-position cap, in percent of the equity
    MAX_TOTAL_POSITION  \* total-position cap, in percent of the equity

ASSUME MatchingAssumption ==
    /\ LOT_SIZE \in Nat \ {0}
    /\ MIN_COMMISSION \in Nat
    /\ COMMISSION_DIV \in Nat \ {0, 1}
    /\ STAMP_DIV \in Nat \ {0, 1}
    /\ SlippageTiers \subseteq Nat
    /\ MAX_SLIPPAGE \in SlippageTiers
    /\ \A tier \in SlippageTiers : tier <= MAX_SLIPPAGE
    /\ MAX_SINGLE_POSITION \in 0 .. 100
    /\ MAX_TOTAL_POSITION \in 0 .. 100

Sides == {"buy", "sell"}

\* One row of the daily snapshot: the bar and the state flags of a symbol.
Rows == [open : Nat, close : Nat, slip : SlippageTiers,
         limit_up_sealed : BOOLEAN, limit_down_sealed : BOOLEAN,
         is_st : BOOLEAN, is_suspended : BOOLEAN]

\* What a caller says it holds; NoPosition is Python's None.
NoPosition == [sellable_qty |-> 0, total_qty |-> 0]
PositionContext == [sellable_qty : Nat, total_qty : Nat]

OK == "OK"
MatchReasons == {"ODD_LOT", "LIMIT_UP_UNFILLABLE", "LIMIT_DOWN_UNFILLABLE",
                 "T1_SELL_BLOCKED"}
GateReasons == MatchReasons \cup {"ST_FLAG", "SUSPENDED", "SINGLE_POSITION_CAP",
                                  "TOTAL_POSITION_CAP"}

\* An odd lot is refused unless it sells the whole of an odd-lot position.
OddLot(side, qty, position) ==
    /\ qty % LOT_SIZE # 0
    /\ ~ /\ side = "sell"
         /\ qty = position.total_qty
         /\ position.total_qty % LOT_SIZE # 0

Sealed(side, row) == IF side = "buy" THEN row.limit_up_sealed
                                     ELSE row.limit_down_sealed
SealedReason(side) == IF side = "buy" THEN "LIMIT_UP_UNFILLABLE"
                                      ELSE "LIMIT_DOWN_UNFILLABLE"

T1Blocked(side, qty, position) == side = "sell" /\ qty > position.sellable_qty

\* The constraint checks of match_order, in the order the code makes them.
MatchReason(side, qty, row, position) ==
    IF OddLot(side, qty, position) THEN "ODD_LOT"
    ELSE IF Sealed(side, row) THEN SealedReason(side)
    ELSE IF T1Blocked(side, qty, position) THEN "T1_SELL_BLOCKED"
    ELSE OK

\* Mutant of OverCap: the gate never finds the total cap exceeded.
NeverOverCap(value, cap, total) == FALSE

\* The ladder of check_order; weights are compared as value * 100 <= cap * equity.
OverCap(value, cap, total) == value * 100 > cap * total

GateReason(side, qty, row, position, target, projected, total) ==
    IF row.is_st THEN "ST_FLAG"
    ELSE IF row.is_suspended THEN "SUSPENDED"
    ELSE IF Sealed(side, row) THEN SealedReason(side)
    ELSE IF target > MAX_SINGLE_POSITION THEN "SINGLE_POSITION_CAP"
    ELSE IF OverCap(projected, MAX_TOTAL_POSITION, total) THEN "TOTAL_POSITION_CAP"
    ELSE IF T1Blocked(side, qty, position) THEN "T1_SELL_BLOCKED"
    ELSE IF OddLot(side, qty, position) THEN "ODD_LOT"
    ELSE OK

FillPrice(side, row, slip) == IF side = "buy" THEN row.open + slip
                                              ELSE row.open - slip

\* Commission on both sides, stamp tax on sales only.
Fee(side, turnover) ==
    LET byRate == turnover \div COMMISSION_DIV
        commission == IF byRate > MIN_COMMISSION THEN byRate ELSE MIN_COMMISSION
    IN  commission + (IF side = "sell" THEN turnover \div STAMP_DIV ELSE 0)
=============================================================================
