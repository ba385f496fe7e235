-------------------------- MODULE MCFamilyMembership --------------------------
(* TLC instances of FamilyMembership and of what it promises while no two    *)
(* requests overlap.                                                         *)
EXTENDS FamilyAccess, FamilyCalm, TLC

\* Bound: a history in which requests have overlapped has one code.
OneCode == Cardinality({c \in Code : code[c].status # "unissued"}) <= 1

BoundedNext == CalmNext /\ (calm' \/ OneCode')

BoundedSpec == CalmInit /\ [][BoundedNext]_<<vars, calm>>

Symmetry == Permutations(Request) \cup Permutations(Code) \cup Permutations(Adult)
                \cup Permutations(Family)
=============================================================================
