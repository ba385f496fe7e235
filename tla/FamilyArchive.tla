----------------------------- MODULE FamilyArchive -----------------------------
(***************************************************************************)
(* The archive of a family (ADR-0026): what an export writes of a ledger,  *)
(* what an import accepts, the rows it writes again, and the statement a   *)
(* parent reads off them (ADR-0010).                                       *)
(*                                                                         *)
(* An archive is a sequence of participants.  Rows refer to each other by  *)
(* refs that mean something inside the file only: the database hands out   *)
(* other identifiers at the place the family comes back to.  Left out:     *)
(* names, reasons, dates, and who recorded a row (only guardians write to  *)
(* a ledger, and no operation makes a guardian a child).                   *)
(***************************************************************************)
EXTENDS Integers, Sequences, FiniteSets, SequencesExt, FiniteSetsExt

CONSTANTS
    MaxMembers,         \* MAX_ARCHIVED_MEMBERS
    MaxTransactions     \* MAX_ARCHIVED_TRANSACTIONS, of all ledgers together

-----------------------------------------------------------------------------
(* Export.  0 stands for "no row" in reverses and corrects, as in the table, *)
(* and <<>> with ledger = FALSE for a participant without a ledger.          *)

Arranged(some, precedes(_, _)) ==
    LET Place(t) == 1 + Cardinality({s \in some : precedes(s, t)}) IN
        [n \in 1..Cardinality(some) |-> CHOOSE t \in some : Place(t) = n]

\* When a row happened, as long as nobody names a time: a correction takes that over from
\* the row it restates.
At(table) ==
    LET at[t \in table] == IF t.corrects = 0 THEN t.id
                           ELSE at[CHOOSE s \in table : s.id = t.corrects]
    IN at

ByTime(some, at) ==
    Arranged(some, LAMBDA s, t : at[s] < at[t] \/ (at[s] = at[t] /\ s.id < t.id))

\* Mutant: the rows are written in the order in which they happened.
OrderedByTime(table) == ByTime(table, At(table))

\* In the order they were written: what a row refers to comes before it.
Ordered(table) == Arranged(table, LAMBDA s, t : s.id < t.id)

RefOf(id, ordered) ==
    LET named == {n \in DOMAIN ordered : ordered[n].id = id} IN
        IF named = {} THEN 0 ELSE CHOOSE n \in named : TRUE

ToEntry(n, ordered) ==
    [ref |-> n, amount |-> ordered[n].amount,
     reverses |-> RefOf(ordered[n].reversalOf, ordered),
     corrects |-> RefOf(ordered[n].corrects, ordered)]

WriteLedger(table) ==
    LET ordered == Ordered(table) IN [n \in DOMAIN ordered |-> ToEntry(n, ordered)]

\* Displays belong to a family but are not written to its archive (ADR-0047).
Member(ref, role, table) ==
    [ref |-> ref, role |-> role, ledger |-> role = "child",
     history |-> IF role = "child" THEN WriteLedger(table) ELSE <<>>]

-----------------------------------------------------------------------------
(* What an import accepts: the archives this API could have written.         *)

\* The entry a ref names, among those before position n.
Before(n, ref, history) == {m \in 1..(n - 1) : history[m].ref = ref}

ClaimReversal(n, history) ==
    LET entry == history[n] IN
        entry.reverses # 0 =>
            /\ \E m \in Before(n, entry.reverses, history) :
                  history[m].reverses = 0 /\ entry.amount = -history[m].amount
            /\ \A m \in 1..(n - 1) : history[m].reverses # entry.reverses

\* A correction comes with the reversal of the row it restates.
ClaimCorrection(n, history) ==
    LET entry == history[n] IN
        entry.corrects # 0 =>
            /\ \E m \in Before(n, entry.corrects, history) : history[m].reverses = 0
            /\ \E m \in 1..n : history[m].reverses = entry.corrects
            /\ \A m \in 1..(n - 1) : history[m].corrects # entry.corrects

WritableHistory(history) ==
    \A n \in DOMAIN history : /\ Before(n, history[n].ref, history) = {}
                              /\ ClaimReversal(n, history)
                              /\ ClaimCorrection(n, history)

\* What was granted, was granted since the bonus began; -1 stands for nothing yet.
ConsistentBonus(startsOn, through) == through # -1 => through >= startsOn

WithinCaps(members) ==
    /\ Len(members) <= MaxMembers
    /\ FoldSeq(LAMBDA m, n : Len(m.history) + n, 0, members) <= MaxTransactions

Importable(members) ==
    /\ WithinCaps(members)
    /\ \A m, n \in DOMAIN members : members[m].ref = members[n].ref => m = n
    /\ \E owner \in DOMAIN members : \A m \in DOMAIN members :
          (members[m].role = "owner") <=> (m = owner)
    /\ \A m \in DOMAIN members : /\ members[m].role # "display"
                                 /\ members[m].ledger <=> members[m].role = "child"
                                 /\ WritableHistory(members[m].history)

-----------------------------------------------------------------------------
(* Import: each entry becomes a row, under the key import-<ref>; the rows it *)
(* refers to have been written before it.  first is the next identifier.     *)

IdOf(ref, history, first) ==
    LET named == {n \in DOMAIN history : history[n].ref = ref} IN
        IF ref = 0 THEN 0 ELSE first - 1 + (CHOOSE n \in named : TRUE)

AppendHistory(history, first) ==
    {[id |-> first - 1 + n, amount |-> history[n].amount, key |-> history[n].ref,
      reversalOf |-> IdOf(history[n].reverses, history, first),
      corrects |-> IdOf(history[n].corrects, history, first)] : n \in DOMAIN history}

\* Whoever imports takes the owner's seat; the others wait for a code.
RestoreMember(member, a) ==
    [role |-> member.role, account |-> IF member.role = "owner" THEN a ELSE 0]

Import(members, a, first) ==
    LET start[n \in DOMAIN members] ==
            IF n = 1 THEN first ELSE start[n - 1] + Len(members[n - 1].history)
    IN [n \in DOMAIN members |->
          [member |-> RestoreMember(members[n], a),
           rows   |-> AppendHistory(members[n].history, start[n])]]

\* The constraints of point_transactions, on the rows of a new ledger.
Insertable(table) ==
    \A s, t \in table :
        /\ s.key = t.key => s = t
        /\ s.reversalOf # 0 /\ s.reversalOf = t.reversalOf => s = t
        /\ s.corrects # 0 /\ s.corrects = t.corrects => s = t

-----------------------------------------------------------------------------
(* The statement of a ledger.                                                *)

Balance(table) == MapThenSumSet(LAMBDA t : t.amount, table)

ReversedIds(table) == {t.reversalOf : t \in table} \ {0}

\* What a parent sees of a row: its amount, whether it is undone, what it undoes
\* and what it restates, by the places of the rows.
Lines(table) ==
    LET ordered == Ordered(table) IN
        [n \in DOMAIN ordered |->
            [amount |-> ordered[n].amount,
             isReversed |-> ordered[n].id \in ReversedIds(table),
             reversal |-> RefOf(ordered[n].reversalOf, ordered),
             restates |-> RefOf(ordered[n].corrects, ordered)]]

\* What an import must give back of a ledger: rows the tables take, that read the same, line
\* by line, and are written to an archive as before.
ComesBackAs(table, again) ==
    /\ Insertable(again)
    /\ Lines(again) = Lines(table)
    /\ WriteLedger(again) = WriteLedger(table)

\* The balances that the page draws, oldest first: without the rows that were undone
\* and those that undo them (ADR-0050).
BalanceSeries(table) ==
    LET drawn == {t \in table : t.reversalOf = 0 /\ t.id \notin ReversedIds(table)}
        ordered == ByTime(drawn, At(table))
    IN [n \in DOMAIN ordered |-> Balance(ToSet(SubSeq(ordered, 1, n)))]
=============================================================================
