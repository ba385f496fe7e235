--------------------------- MODULE MCAdministration ---------------------------
(***************************************************************************)
(* What administrators do, for TLC: the settings of the installation       *)
(* (RuntimeSettings) and its users and roles (Administration).  The two    *)
(* share no table, so that a behaviour follows one of them, chosen at the  *)
(* start, and the other rests.                                             *)
(***************************************************************************)
EXTENDS MCRuntimeSettings, Administration, TLC

CONSTANTS ann, bob, admin, aide     \* users and roles

VARIABLE part

AllToAdmin == (admin :> {"user:manage", "role:manage"}) @@ (aide :> {"user:manage"})

OfSettings(A) == part = "settings" /\ A

\* The people of a behaviour about settings are of no matter: one first state of theirs will do.
PartInit ==
    /\ part \in {"settings", "people"} /\ Init /\ PeopleInit
    /\ part = "settings" => status[bob] = "none"

PartNext ==
    /\ UNCHANGED part
    /\ \/ part = "settings" /\ Next /\ UNCHANGED people
       \/ part = "people" /\ PeopleNext /\ UNCHANGED vars

PartFairness ==
    /\ WF_vars(OfSettings(StartAgain)) /\ WF_vars(OfSettings(ComeUp))
    /\ \A w \in Worker :
          /\ WF_vars(OfSettings(Boot(w))) /\ WF_vars(OfSettings(Watch(w)))
          /\ WF_vars(OfSettings(Poll(w)))

PartSpec == PartInit /\ [][PartNext]_<<part, vars, people>> /\ PartFairness
=============================================================================
