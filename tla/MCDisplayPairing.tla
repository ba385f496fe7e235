-------------------------- MODULE MCDisplayPairing --------------------------
(* TLC instances of DisplayPairing. *)
EXTENDS DisplayPairing, TLC

Symmetry == Permutations(Request) \cup Permutations(Code)
=============================================================================
