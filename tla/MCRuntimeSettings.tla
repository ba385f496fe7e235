-------------------------- MODULE MCRuntimeSettings --------------------------
(* Instances of RuntimeSettings for TLC.                                   *)
EXTENDS RuntimeSettings, FiniteSets

CONSTANTS home, shop, till   \* domains; the till is below the shop
Tree == {<<till, shop>>}
NoEnv == [k \in Key |-> None]
HomeEnv == [k \in Key |-> home]

\* Move to the till of the shop, or name the home for one.
Forms == {[rp |-> shop, origin |-> till], [rp |-> home]}

\* Any value for any of the keys.
AnyForm == UNION {[keys -> Domain] : keys \in SUBSET Key \ {{}}}

\* Between the steps of a read of its settings, or of dropping them.
InBetween(w) == loading[w] # None \/ save[w].at = "dropping"

\* Bound: three saves, requests, faults and workers in between, in any mixture and any order.
\* No step that fairness asks for leaves it.
Few ==
    stored.version + request + outages + deaths
      + Cardinality({w \in Worker : save[w] # NoSave}) + Cardinality({w \in Worker : InBetween(w)}) <= 3
=============================================================================
