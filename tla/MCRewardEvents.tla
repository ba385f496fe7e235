--------------------------- MODULE MCRewardEvents ---------------------------
(* TLC instances of CardOverlaps. *)
EXTENDS CardOverlaps, TLC

\* Every card has three squares: a first, a middle and a last one.
ThreeSquares == [e \in Event |-> 3]

Symmetry == Permutations(Request) \cup Permutations(Event)
=============================================================================
