---------------------------- MODULE MCPointLedger ----------------------------
(***************************************************************************)
(* An instance of PointLedger for TLC, with the archive that may be taken  *)
(* of it at any moment.  Clients keep to one of two habits: a fresh key    *)
(* for each operation, or one key for several.                             *)
(***************************************************************************)
EXTENDS LedgerClients, FamilyArchive, TLC

CONSTANTS l1, l2, k1, k2, k3, k4, r1, r2, r3

Ask(op, l, k, a, n) == [op |-> op, ledger |-> l, key |-> k, amount |-> a, target |-> n]

\* Each key belongs to one operation, as crypto.randomUUID in the screens has
\* it; the same operation may still arrive twice, or twice at once.  The
\* correction keeps the amount (only the reason was wrong), and the ledger may
\* be given up at any time.
DistinctKeys ==
    {Ask("record", l1, k1, 2, 1), Ask("correct", l1, k2, 2, 1),
     Ask("reverse", l1, k3, 1, 1), Ask("reverse", l1, k4, 1, 3),
     Ask("remove", l1, k1, 1, 1), Ask("independence", l1, k1, 1, 1)}

\* One client key sent for several operations, and a target of another ledger.
SharedKeys ==
    {Ask("record", l1, k1, 2, 1), Ask("record", l2, k1, 5, 1),
     Ask("correct", l1, k1, 3, 1), Ask("correct", l1, k1, 4, 3),
     Ask("reverse", l1, k2, 1, 2), Ask("reverse", l1, k3, 1, 1),
     Ask("reverse", l2, k2, 1, 1)}

AnyKeys == DistinctKeys \cup SharedKeys

Habits == {"distinct", "shared"}

HabitIntents == [h \in Habits |-> IF h = "distinct" THEN DistinctKeys ELSE SharedKeys]

Symmetry == Permutations(Request)

Own(l) == {t \in rows : t.ledger = l}

(***************************************************************************)
(* Whatever requests have raced on the ledgers, an archive taken now can   *)
(* be imported, meets no constraint of the tables on the way, and comes    *)
(* back as the same ledgers: the same lines in the same places, the same   *)
(* balance and course, and the same archive when it is exported again      *)
(* (schemas.py: the JSON that was written, sent back as it is, restores    *)
(* the family).  The course that is drawn ends at the balance.             *)
(***************************************************************************)
Family == <<Member(1, "owner", {})>>
          \o [n \in 1..Cardinality(ledgers) |->
                 Member(n + 1, "child", Own(SetToSeq(ledgers)[n]))]

Drawn(table) == <<0>> \o BalanceSeries(table)

ExportsComeBack ==
    LET archive == Family
        back == Import(archive, 1, MaxId + 1)
    IN  /\ Importable(archive)
        /\ \A n \in DOMAIN archive \ {1} :
              LET table == Own(SetToSeq(ledgers)[n - 1])
                  again == back[n].rows
              IN /\ ComesBackAs(table, again)
                 /\ Balance(again) = Balance(table) /\ Last(Drawn(table)) = Balance(table)
                 /\ Drawn(again) = Drawn(table)
=============================================================================
