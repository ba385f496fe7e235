----------------------------- MODULE PointLedger -----------------------------
(***************************************************************************)
(* The append-only point ledger and the HTTP requests that write to it:    *)
(* record, reverse, correct, and the two operations that delete a ledger   *)
(* (removing a participant, independence of a child).                      *)
(*                                                                         *)
(* Every request is one database transaction (get_db).  MariaDB runs it at *)
(* its default level, REPEATABLE READ: plain SELECTs read the snapshot of  *)
(* the first read, while INSERT, DELETE and the constraints act on what is *)
(* committed.  A request is therefore two steps, with any other request in *)
(* between: Begin evaluates the guards on the snapshot and fixes the rows  *)
(* to insert; Commit inserts them against the committed tables, or fails.  *)
(***************************************************************************)
EXTENDS Integers, FiniteSets

CONSTANTS
    Ledger,     \* ledgers of the children
    Key,        \* keys generated by clients (never containing the separator)
    Request,    \* slots: how many requests run at the same time
    Intent,     \* what clients ask for, each any number of times
    MaxId       \* bound on the row identifiers handed out

Op == {"record", "reverse", "correct", "remove", "independence"}

ASSUME IntentAssumption ==
    /\ Intent \subseteq [op : Op, ledger : Ledger, key : Key,
                         amount : Int \ {0}, target : Nat \ {0}]
    /\ MaxId \in Nat

VARIABLES
    ledgers,    \* point_ledgers: the ledgers that exist
    rows,       \* point_transactions: the committed rows
    nextId,     \* the next value of the auto-increment identifier
    slot        \* the requests being served, or their last answer

vars == <<ledgers, rows, nextId, slot>>

-----------------------------------------------------------------------------
(* Rows.  0 stands for NULL in reversalOf and corrects.  A stored key is the *)
(* client's key, or one derived from it for a step of a correction.          *)

Step == {"plain", "reversal", "correction"}

Draft == [ledger : Ledger, amount : Int \ {0}, key : Key \X Step,
          reversalOf : Nat, corrects : Nat]

Row == [id : Nat \ {0}, ledger : Ledger, amount : Int \ {0}, key : Key \X Step,
        reversalOf : Nat, corrects : Nat]

IsReversal(t) == t.reversalOf # 0

Reversed(t, table) == \E s \in table : s.reversalOf = t.id

Holding(table, l, k) == {t \in table : t.ledger = l /\ t.key = k}

NewEntry(i) ==
    [ledger |-> i.ledger, amount |-> i.amount, key |-> <<i.key, "plain">>,
     reversalOf |-> 0, corrects |-> 0]

PlanReversal(t, k) ==
    [ledger |-> t.ledger, amount |-> -t.amount, key |-> k,
     reversalOf |-> t.id, corrects |-> 0]

PlanCorrection(t, i) ==
    [ledger |-> t.ledger, amount |-> i.amount, key |-> <<i.key, "correction">>,
     reversalOf |-> 0, corrects |-> t.id]

\* A correction's second row gets the identifier after its reversal's.
Stored(d, n) ==
    [id |-> IF d.corrects = 0 THEN n ELSE n + 1,
     ledger |-> d.ledger, amount |-> d.amount, key |-> d.key,
     reversalOf |-> d.reversalOf, corrects |-> d.corrects]

\* Mutant: reversal_of_id is not UNIQUE.
AdmissibleTwice(d) ==
    /\ d.ledger \in ledgers
    /\ Holding(rows, d.ledger, d.key) = {}

\* The constraints of point_transactions, as an INSERT meets them.
Admissible(d) ==
    /\ d.ledger \in ledgers
    /\ Holding(rows, d.ledger, d.key) = {}
    /\ d.reversalOf # 0 => /\ \E s \in rows : s.id = d.reversalOf
                           /\ \A s \in rows : s.reversalOf # d.reversalOf
    /\ d.corrects # 0 => /\ \E s \in rows : s.id = d.corrects
                         /\ \A s \in rows : s.corrects # d.corrects

-----------------------------------------------------------------------------
(* Requests.  A slot is idle, open (its snapshot is taken and its plan is    *)
(* fixed) or done (it holds the last answer it gave).                        *)

Code == {"created", "existing", "removed", "ledger_not_found",
         "transaction_not_found", "transaction_already_reversed",
         "reversal_of_reversal", "correction_of_reversal",
         "idempotency_key_reused", "membership_not_found", "ledger_not_empty",
         "integrity_error", "rolled_back"}

Idle == [phase |-> "idle"]

Open(i, drafts) == [phase |-> "open", intent |-> i, drafts |-> drafts]

Done(i, code, n) == [phase |-> "done", intent |-> i, code |-> code, row |-> n]

Slot == {Idle}
        \cup [phase : {"open"}, intent : Intent, drafts : SUBSET Draft]
        \cup [phase : {"done"}, intent : Intent, code : Code, row : Nat]

IsOpen(r) == slot[r].phase = "open"

Answer(r, i, code, n) == slot' = [slot EXCEPT ![r] = Done(i, code, n)]

Plan(r, i, drafts) == slot' = [slot EXCEPT ![r] = Open(i, drafts)]

Reading == UNCHANGED <<ledgers, rows, nextId>>

Init ==
    /\ ledgers = Ledger
    /\ rows = {}
    /\ nextId = 1
    /\ slot = [r \in Request |-> Idle]

\* append() looks the key up first: a row that already holds it is the answer.
AppendOne(r, i, d) ==
    \/ \E t \in Holding(rows, d.ledger, d.key) : Answer(r, i, "existing", t.id)
    \/ /\ Holding(rows, d.ledger, d.key) = {}
       /\ Plan(r, i, {d})

BeginRecord(r, i) ==
    /\ i.op = "record"
    /\ \/ i.ledger \notin ledgers /\ Answer(r, i, "ledger_not_found", 0)
       \/ i.ledger \in ledgers /\ AppendOne(r, i, NewEntry(i))
    /\ Reading

\* find_in_ledger: the target is looked up in the ledger of the request only.
Target(i) == {t \in rows : t.id = i.target /\ t.ledger = i.ledger}

\* The refusals reverse and correct share, in the order of the code.
NoSuchTarget(r, i) ==
    \/ i.ledger \notin ledgers /\ Answer(r, i, "ledger_not_found", 0)
    \/ /\ i.ledger \in ledgers
       /\ \/ Target(i) = {} /\ Answer(r, i, "transaction_not_found", 0)
          \/ /\ \E t \in Target(i) : Reversed(t, rows)
             /\ Answer(r, i, "transaction_already_reversed", 0)

Reversible(i) ==
    IF i.ledger \in ledgers THEN {t \in Target(i) : ~Reversed(t, rows)} ELSE {}

BeginReverse(r, i) ==
    /\ i.op = "reverse"
    /\ \/ NoSuchTarget(r, i)
       \/ \E t \in Reversible(i) :
             \/ IsReversal(t) /\ Answer(r, i, "reversal_of_reversal", 0)
             \/ /\ ~IsReversal(t)
                /\ AppendOne(r, i, PlanReversal(t, <<i.key, "plain">>))
    /\ Reading

\* The two rows of a correction are appended one after the other; a row that
\* already holds a derived key stands for the one that was to be written.
BeginCorrect(r, i) ==
    /\ i.op = "correct"
    /\ \/ NoSuchTarget(r, i)
       \/ \E t \in Reversible(i) :
             \/ IsReversal(t) /\ Answer(r, i, "correction_of_reversal", 0)
             \/ /\ ~IsReversal(t)
                /\ Holding(rows, i.ledger, <<i.key, "reversal">>) # {}
                /\ Answer(r, i, "idempotency_key_reused", 0)
             \/ /\ ~IsReversal(t)
                /\ Holding(rows, i.ledger, <<i.key, "reversal">>) = {}
                /\ Plan(r, i, {PlanReversal(t, <<i.key, "reversal">>)}
                              \cup {d \in {PlanCorrection(t, i)} :
                                      Holding(rows, i.ledger, d.key) = {}})
    /\ Reading

\* remove_membership refuses when its snapshot counts a record; independence
\* deletes the records with the ledger.  A participant and his ledger go
\* together, so without the ledger the request finds no participant.
BeginRemove(r, i) ==
    /\ i.op \in {"remove", "independence"}
    /\ \/ i.ledger \notin ledgers /\ Answer(r, i, "membership_not_found", 0)
       \/ /\ i.ledger \in ledgers
          /\ i.op = "remove"
          /\ \E t \in rows : t.ledger = i.ledger
          /\ Answer(r, i, "ledger_not_empty", 0)
       \/ /\ i.ledger \in ledgers
          /\ i.op = "remove" => \A t \in rows : t.ledger # i.ledger
          /\ Plan(r, i, {})
    /\ Reading

\* Mutant: a row that meets a constraint is skipped, the others are committed.
CommitAppendPartly(r) ==
    /\ IsOpen(r)
    /\ nextId + 2 <= MaxId
    /\ rows' = rows \cup {Stored(d, nextId) : d \in {e \in slot[r].drafts : Admissible(e)}}
    /\ nextId' = nextId + 2
    /\ Answer(r, slot[r].intent, "created", nextId)
    /\ UNCHANGED ledgers

\* All inserts pass their constraints and the transaction commits.
CommitAppend(r) ==
    /\ IsOpen(r)
    /\ slot[r].drafts # {}
    /\ nextId + 2 <= MaxId
    /\ \A d \in slot[r].drafts : Admissible(d)
    /\ rows' = rows \cup {Stored(d, nextId) : d \in slot[r].drafts}
    /\ nextId' = IF slot[r].intent.op = "correct" THEN nextId + 2 ELSE nextId + 1
    /\ Answer(r, slot[r].intent, "created", nextId)
    /\ UNCHANGED ledgers

\* Mutant: the conflict is taken for a repeated request.
CommitConflictSwallowed(r) ==
    /\ IsOpen(r)
    /\ \E d \in slot[r].drafts : ~Admissible(d)
    /\ Answer(r, slot[r].intent, "existing", 0)
    /\ Reading

\* An insert meets a constraint.  append() looks the key up again, in the same
\* snapshot as before: it finds nothing and raises, and get_db rolls back.
CommitConflict(r) ==
    /\ IsOpen(r)
    /\ \E d \in slot[r].drafts : ~Admissible(d)
    /\ Answer(r, slot[r].intent, "integrity_error", 0)
    /\ Reading

\* Mutant: only the reversals are deleted with the ledger.
CommitRemovePartly(r) ==
    /\ IsOpen(r)
    /\ slot[r].drafts = {}
    /\ ledgers' = ledgers \ {slot[r].intent.ledger}
    /\ rows' = {t \in rows : t.ledger = slot[r].intent.ledger => ~IsReversal(t)}
    /\ Answer(r, slot[r].intent, "removed", 0)
    /\ UNCHANGED nextId

\* The ledger is deleted, and every row that is in it by now: by the two bulk
\* deletes of delete_by_ledger, or by ON DELETE CASCADE.
CommitRemove(r) ==
    /\ IsOpen(r)
    /\ slot[r].drafts = {}
    /\ ledgers' = ledgers \ {slot[r].intent.ledger}
    /\ rows' = {t \in rows : t.ledger # slot[r].intent.ledger}
    /\ Answer(r, slot[r].intent, "removed", 0)
    /\ UNCHANGED nextId

\* A lock wait times out, the transaction is a deadlock's victim, the worker
\* dies, or the cascade of a removed ledger meets a record before its reversal
\* (reversal_of_id has no ON DELETE): nothing of the request remains.
Rollback(r) ==
    /\ IsOpen(r)
    /\ Answer(r, slot[r].intent, "rolled_back", 0)
    /\ Reading

Begin(r) ==
    /\ ~IsOpen(r)
    /\ \E i \in Intent :
          \/ BeginRecord(r, i)
          \/ BeginReverse(r, i)
          \/ BeginCorrect(r, i)
          \/ BeginRemove(r, i)

Commit(r) == CommitAppend(r) \/ CommitConflict(r) \/ CommitRemove(r)

Next == \E r \in Request : Begin(r) \/ Commit(r) \/ Rollback(r)

Spec == Init /\ [][Next]_vars

-----------------------------------------------------------------------------
(* Properties.                                                               *)

TypeOK ==
    /\ ledgers \subseteq Ledger
    /\ rows \subseteq Row
    /\ nextId \in Nat \ {0}
    /\ slot \in [Request -> Slot]

(***************************************************************************)
(* A reversal undoes exactly one row: a row of the same ledger that is not *)
(* itself a reversal, by the opposite amount, and no row is undone twice,  *)
(* however reversals and corrections of it interleave (ADR-0010,           *)
(* plan_reversal, uq_point_transactions_reversal_of).                      *)
(***************************************************************************)
ReversalsCancel ==
    \A s \in rows : IsReversal(s) =>
        /\ \E t \in rows : /\ t.id = s.reversalOf
                           /\ t.ledger = s.ledger
                           /\ t.amount = -s.amount
                           /\ ~IsReversal(t)
        /\ \A u \in rows : u.reversalOf = s.reversalOf => u = s

(***************************************************************************)
(* No row of a correction exists without the other: the row that restates  *)
(* t comes with the reversal of t under the same client key, and back.     *)
(* Otherwise the mistaken and the restated amount would both count         *)
(* (ADR-0022, CorrectPointTransactionUseCase).                             *)
(***************************************************************************)
CorrectionsArePaired ==
    \A s \in rows :
        /\ s.corrects # 0 =>
              \E u \in Holding(rows, s.ledger, <<s.key[1], "reversal">>) :
                  u.reversalOf = s.corrects
        /\ s.key[2] = "reversal" =>
              \E u \in Holding(rows, s.ledger, <<s.key[1], "correction">>) :
                  u.corrects = s.reversalOf

(***************************************************************************)
(* When each client key belongs to one operation, as in the screens, a     *)
(* success is true: while the ledger exists, the row asked for is in it,   *)
(* the target of a reversal is reversed, and a correction is there in      *)
(* full, whether the answer is the first or that of a repeated request.    *)
(***************************************************************************)
Success(s) == s.phase = "done" /\ s.code \in {"created", "existing"}

Effective(i) ==
    CASE i.op = "record"  -> \E t \in Holding(rows, i.ledger, <<i.key, "plain">>) :
                                 t.amount = i.amount
      [] i.op = "reverse" -> \E t \in Target(i) : Reversed(t, rows)
      [] i.op = "correct" -> /\ \E t \in Target(i) : Reversed(t, rows)
                             /\ \E t \in rows : t.corrects = i.target /\ t.amount = i.amount
      [] OTHER -> FALSE

AnswersHold ==
    \A r \in Request : Success(slot[r]) =>
        LET i == slot[r].intent IN i.ledger \in ledgers => Effective(i)

(***************************************************************************)
(* A correction that succeeds is real even if its key was sent for another *)
(* operation before: the reversal written is compared with the target, so  *)
(* a foreign row is never taken for it (IdempotencyKeyReusedError).        *)
(***************************************************************************)
CorrectionAnswersHold ==
    \A r \in Request : Success(slot[r]) =>
        LET i == slot[r].intent IN i.op = "correct" /\ i.ledger \in ledgers => Effective(i)

(***************************************************************************)
(* The history is append-only: a row changes never, and disappears only    *)
(* with its whole ledger; rows that appear have new identifiers.           *)
(***************************************************************************)
HistoryIsPermanent ==
    [][ /\ \A t \in rows : t.ledger \in ledgers' => t \in rows'
        /\ \A t \in rows' \ rows : \A s \in rows : s.id < t.id ]_vars

(***************************************************************************)
(* remove_membership.py: a participant with even one record cannot be      *)
(* removed, so that no removal makes history disappear.                    *)
(***************************************************************************)
RemovalLosesNothing ==
    [][ \A r \in Request :
          (IsOpen(r) /\ slot[r].intent.op = "remove" /\ ~IsOpen(r)') => rows \subseteq rows' ]_vars

(***************************************************************************)
(* The rows implement the abstract ledger: an entry is a row that is not a *)
(* reversal, and it counts until a reversal of it is committed.            *)
(***************************************************************************)
Entries ==
    {[id |-> t.id, ledger |-> t.ledger, amount |-> t.amount,
      counts |-> ~Reversed(t, rows)] : t \in {s \in rows : ~IsReversal(s)}}

Abstract == INSTANCE AbstractLedger
              WITH Id <- 1..MaxId, Amount <- {i.amount : i \in Intent},
                   live <- ledgers, entries <- Entries

ImplementsAbstractLedger == Abstract!Spec
=============================================================================
