------------------------- MODULE MCAccountSecurity -------------------------
(* TLC instances of AccountSecurity. *)
EXTENDS AccountSecurity, TLC

Symmetry == Permutations(Request) \cup Permutations(Challenge) \cup Permutations(Device)
=============================================================================
