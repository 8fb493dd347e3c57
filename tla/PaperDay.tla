------------------------------ MODULE PaperDay ------------------------------
(***************************************************************************)
(* The trading day of the paper account: the execution batch (job          *)
(* paper_execute_daily, 16:10) together with the settlement (job           *)
(* paper_settle_daily, 16:20; brokers/paper.py settle_daily), which marks  *)
(* the holdings at the snapshot's closing prices.  The two jobs hold       *)
(* different locks, so a settlement may fall into the middle of a batch,   *)
(* and a batch may be run again by hand after the settlement.              *)
(***************************************************************************)
EXTENDS ExecutionDriver

VARIABLE equity \* paper_equity table: trade_date -> mark

dayVars == <<driverVars, equity>>

DayInit == DriverInit /\ equity = << >>

Mark == [cash |-> account.cash, value |-> MarkedValue]

\* Mutant of Settle: a holding without a price counts nothing.
SettleUnpriced ==
    /\ Priced # {}
    /\ equity' = Insert(equity, today, Mark)
    /\ UNCHANGED driverVars

\* One transaction; it fails, and writes nothing, when a holding has no price,
\* and does nothing while the snapshot database is empty.
Settle ==
    /\ Priced # {}
    /\ Held(account) \subseteq Priced
    /\ equity' = Insert(equity, today, Mark)
    /\ UNCHANGED driverVars

DayNext ==
    \/ DriverNext /\ UNCHANGED equity
    \/ Settle

DaySpec == DayInit /\ [][DayNext]_dayVars
           /\ WF_dayVars(BatchStep /\ UNCHANGED equity)

-----------------------------------------------------------------------------

Total(mark) == mark.cash + mark.value

(***************************************************************************)
(* A mark is taken of one state of the account: where prices do not move   *)
(* and trading is free, the curve is flat, however a settlement falls      *)
(* between the orders of a batch.  (A constraint on the instance: every    *)
(* row has the same open and close, no slippage and no fees.)              *)
(***************************************************************************)
FlatMarketFlatCurve == \A d \in DOMAIN equity : Total(equity[d]) = InitialCash
=============================================================================
