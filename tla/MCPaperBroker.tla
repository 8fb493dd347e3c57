---------------------------- MODULE MCPaperBroker ----------------------------
(* Small instances of PaperBroker for TLC. *)
EXTENDS PaperBroker, TLC

Row(up, down, st) == [open |-> 3, close |-> 3, slip |-> 0, limit_up_sealed |-> up,
                      limit_down_sealed |-> down, is_st |-> st, is_suspended |-> FALSE]

MCMarketRows == {Row(FALSE, FALSE, FALSE), Row(TRUE, TRUE, TRUE)}

\* Retries of both signals of a symbol are alike.
SignalSymmetry == Permutations(SignalIds)
=============================================================================
