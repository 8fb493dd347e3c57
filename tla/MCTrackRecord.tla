--------------------------- MODULE MCTrackRecord ---------------------------
(* Small instances of TrackRecord for TLC. *)
EXTENDS TrackRecord

\* A purchase and a wait: each contradicts the other, and a wait is never
\* settled early.
MCOpinions == {[direction |-> "long", target |-> 1], [direction |-> "neutral", target |-> 0]}

\* Day 1 is a holiday.
MCTradingDays == {2, 3}
=============================================================================
