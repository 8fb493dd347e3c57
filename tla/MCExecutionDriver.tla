-------------------------- MODULE MCExecutionDriver --------------------------
(* Small instances of ExecutionDriver for TLC: whole lots are single shares, *)
(* there are no fees, and prices are small multiples of each other.          *)
EXTENDS ExecutionDriver, TLC

MCSignalIds == [symbol : Symbols, date : Days]

Bar(open, close) ==
    [open |-> open, close |-> close, slip |-> 0, limit_up_sealed |-> FALSE,
     limit_down_sealed |-> FALSE, is_st |-> FALSE, is_suspended |-> FALSE]

Plain == Bar(1, 1)
Down == [Plain EXCEPT !.limit_down_sealed = TRUE]
Up == [Plain EXCEPT !.limit_up_sealed = TRUE]
Suspended == [Plain EXCEPT !.is_suspended = TRUE]
Dear == Bar(2, 2)
Soaring == Bar(4, 4)

MCMarketRows == {Plain, Down, Up, Suspended, Dear, Soaring}

AllPlain == [s \in Symbols |-> Plain]
\* The snapshot database is empty.
NoSnapshot == << >>
\* The first symbol cannot be sold, has no bar.
FirstDown == [AllPlain EXCEPT ![1] = Down]
FirstMissing == [s \in Symbols \ {1} |-> Plain]

RoughSnapshots == {NoSnapshot, AllPlain, FirstDown, FirstMissing}
=============================================================================
