--------------------------- MODULE MCBrowserSession ---------------------------
(* Instances of BrowserSession for TLC.                                    *)
EXTENDS BrowserSession, TLC

Symmetry == Permutations(Tab) \cup Permutations(Person)
\* Bound: a history is followed until two people, or two tabs, get in each other's way;
\* ScreenKeepsItsPerson says nothing from then on.
InOrder == calm /\ kept
=============================================================================
