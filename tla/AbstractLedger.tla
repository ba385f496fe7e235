---------------------------- MODULE AbstractLedger ----------------------------
(***************************************************************************)
(* What a point ledger promises, without rows, keys or concurrency: a set  *)
(* of entries, each of which counts until it is undone, once and for good. *)
(* A correction undoes an entry and adds another in one step.  The balance *)
(* of a ledger is the sum of the entries that still count.                 *)
(***************************************************************************)
CONSTANTS
    Ledger,     \* the ledgers
    Id,         \* identifiers of entries
    Amount      \* signed amounts

VARIABLES
    live,       \* the ledgers that exist
    entries     \* the entries of those ledgers

Entry == [id : Id, ledger : Ledger, amount : Amount, counts : BOOLEAN]

New(id, l, a) == [id |-> id, ledger |-> l, amount |-> a, counts |-> TRUE]

Undone(e) == [id |-> e.id, ledger |-> e.ledger, amount |-> e.amount, counts |-> FALSE]

Fresh(id) == \A e \in entries : e.id # id

Init ==
    /\ live = Ledger
    /\ entries = {}

Add(l, id, a) ==
    /\ l \in live
    /\ Fresh(id)
    /\ entries' = entries \cup {New(id, l, a)}
    /\ UNCHANGED live

Undo(e) ==
    /\ e.counts
    /\ entries' = (entries \ {e}) \cup {Undone(e)}
    /\ UNCHANGED live

Restate(e, id, a) ==
    /\ e.counts
    /\ Fresh(id)
    /\ entries' = (entries \ {e}) \cup {Undone(e), New(id, e.ledger, a)}
    /\ UNCHANGED live

Close(l) ==
    /\ l \in live
    /\ live' = live \ {l}
    /\ entries' = {e \in entries : e.ledger # l}

Next ==
    \/ \E l \in Ledger, id \in Id, a \in Amount : Add(l, id, a)
    \/ \E e \in entries : Undo(e)
    \/ \E e \in entries, id \in Id, a \in Amount : Restate(e, id, a)
    \/ \E l \in Ledger : Close(l)

Spec == Init /\ [][Next]_<<live, entries>>
=============================================================================
