-------------------------- MODULE PointLedgerProofs --------------------------
(***************************************************************************)
(* Proofs about PointLedger, for any number of ledgers, keys, concurrent   *)
(* requests and client intents.  The properties of the committed rows are  *)
(* not inductive alone: they also need what an open request's plan, made   *)
(* from an old snapshot, still says about the committed rows.  At the end: *)
(* what an export writes of a ledger, an import accepts and gives back.    *)
(***************************************************************************)
EXTENDS LedgerClients, FamilyArchive, FiniteSetTheorems, TLAPS

(***************************************************************************)
(* What a plan D made for intent i is, whenever it is looked at: the rows  *)
(* of the operation, built from a target that, while the ledger exists, is *)
(* still there and unchanged.                                              *)
(***************************************************************************)
Targeted(i, t) ==
    /\ t.ledger = i.ledger /\ t.id = i.target
    /\ ~IsReversal(t)
    /\ i.ledger \in ledgers => t \in rows

PlannedFor(i, D) ==
    \/ i.op = "record" /\ D = {NewEntry(i)}
    \/ /\ i.op = "reverse"
       /\ \E t \in Row : Targeted(i, t) /\ D = {PlanReversal(t, <<i.key, "plain">>)}
    \/ /\ i.op = "correct"
       /\ \E t \in Row : /\ Targeted(i, t)
                         /\ D = {PlanReversal(t, <<i.key, "reversal">>), PlanCorrection(t, i)}
    \/ i.op \in {"remove", "independence"} /\ D = {}

PlansStandUp ==
    \A r \in Request : IsOpen(r) => PlannedFor(slot[r].intent, slot[r].drafts)

RowsWellFormed ==
    /\ \A t \in rows : t.id < nextId /\ t.ledger \in ledgers
    /\ \A s, t \in rows : s.id = t.id => s = t
    /\ \A t \in rows : t.key[2] = "correction" <=> t.corrects # 0

LedgerInv ==
    /\ TypeOK
    /\ RowsWellFormed
    /\ PlansStandUp
    /\ ReversalsCancel
    /\ CorrectionsArePaired

-----------------------------------------------------------------------------

LEMMA InitTypeOK == Init => TypeOK
  BY DEF Init, TypeOK, Slot, Idle

\* A step that only answers keeps the types.
LEMMA AnswerTyped ==
  ASSUME TypeOK, NEW r \in Request, NEW i \in Intent, NEW code \in Code, NEW n \in Nat,
         Answer(r, i, code, n)
  PROVE  slot' \in [Request -> Slot]
  BY DEF TypeOK, Answer, Done, Slot

LEMMA PlanTyped ==
  ASSUME TypeOK, NEW r \in Request, NEW i \in Intent, NEW D \in SUBSET Draft,
         Plan(r, i, D)
  PROVE  slot' \in [Request -> Slot]
  BY DEF TypeOK, Plan, Open, Slot

LEMMA OpenTyped ==
  ASSUME TypeOK, NEW r \in Request, IsOpen(r)
  PROVE  slot[r].intent \in Intent /\ slot[r].drafts \in SUBSET Draft
  BY DEF TypeOK, IsOpen, Slot, Idle

LEMMA DraftsTyped ==
  ASSUME TypeOK, NEW i \in Intent
  PROVE  /\ NewEntry(i) \in Draft
         /\ \A t \in rows : /\ PlanReversal(t, <<i.key, "plain">>) \in Draft
                            /\ PlanReversal(t, <<i.key, "reversal">>) \in Draft
                            /\ PlanCorrection(t, i) \in Draft
  BY IntentAssumption
     DEF TypeOK, Row, Draft, NewEntry, PlanReversal, PlanCorrection, Step

LEMMA StoredTyped ==
  ASSUME NEW d \in Draft, NEW n \in Nat \ {0}
  PROVE  /\ Stored(d, n) \in Row
         /\ Stored(d, n).ledger = d.ledger
         /\ Stored(d, n).amount = d.amount
         /\ Stored(d, n).key = d.key
         /\ Stored(d, n).reversalOf = d.reversalOf
         /\ Stored(d, n).corrects = d.corrects
         /\ Stored(d, n).id = IF d.corrects = 0 THEN n ELSE n + 1
  BY DEF Stored, Draft, Row

\* A key derived for the second row of a correction is never held alone, so a
\* correction plans either none of its rows or both.
LEMMA NoHalfCorrection ==
  ASSUME LedgerInv, NEW i \in Intent, Holding(rows, i.ledger, <<i.key, "reversal">>) = {}
  PROVE  Holding(rows, i.ledger, <<i.key, "correction">>) = {}
  BY DEF LedgerInv, RowsWellFormed, CorrectionsArePaired, Holding

LEMMA BeginForms ==
  ASSUME LedgerInv, NEW r \in Request, Begin(r)
  PROVE  /\ UNCHANGED <<ledgers, rows, nextId>>
         /\ \E i \in Intent :
              \/ \E code \in Code, n \in Nat : Answer(r, i, code, n)
              \/ \E D \in SUBSET Draft : Plan(r, i, D) /\ PlannedFor(i, D)
  <1> DEFINE Outcome(i) ==
        \/ \E code \in Code, n \in Nat : Answer(r, i, code, n)
        \/ \E D \in SUBSET Draft : Plan(r, i, D) /\ PlannedFor(i, D)
  <1>1. PICK i \in Intent : BeginRecord(r, i) \/ BeginReverse(r, i)
                            \/ BeginCorrect(r, i) \/ BeginRemove(r, i)
    BY DEF Begin
  <1> TypeOK
    BY DEF LedgerInv
  <1>2. \A t \in rows : t \in Row /\ t.id \in Nat
    BY DEF TypeOK, Row
  <1>3. NoSuchTarget(r, i) => Outcome(i)
    BY DEF NoSuchTarget, Code
  <1>4. ASSUME NEW d \in Draft, AppendOne(r, i, d), PlannedFor(i, {d})
        PROVE  Outcome(i)
    <2>1. CASE \E t \in Holding(rows, d.ledger, d.key) : Answer(r, i, "existing", t.id)
      BY <2>1, <1>2 DEF Holding, Code
    <2>2. CASE Plan(r, i, {d})
      BY <2>2, <1>4
    <2>3. QED
      BY <1>4, <2>1, <2>2 DEF AppendOne
  <1>5. \A t \in Reversible(i) : t \in rows /\ t.ledger = i.ledger /\ t.id = i.target
    BY DEF Reversible, Target
  <1>6. CASE BeginRecord(r, i)
    <2>1. NewEntry(i) \in Draft /\ (i.op = "record" => PlannedFor(i, {NewEntry(i)}))
      BY DraftsTyped DEF PlannedFor
    <2>2. Outcome(i)
      BY <1>6, <2>1, <1>4 DEF BeginRecord, Code
    <2>3. QED
      BY <2>2, <1>6 DEF BeginRecord, Reading
  <1>7. CASE BeginReverse(r, i)
    <2>1. ASSUME NEW t \in Reversible(i), ~IsReversal(t),
                 AppendOne(r, i, PlanReversal(t, <<i.key, "plain">>))
          PROVE  Outcome(i)
      <3>1. PlanReversal(t, <<i.key, "plain">>) \in Draft
        BY <1>5, DraftsTyped
      <3>2. PlannedFor(i, {PlanReversal(t, <<i.key, "plain">>)})
        BY <1>7, <2>1, <1>2, <1>5 DEF PlannedFor, Targeted, BeginReverse
      <3>3. QED
        BY <2>1, <3>1, <3>2, <1>4
    <2>2. Outcome(i)
      BY <1>7, <1>3, <2>1 DEF BeginReverse, Code
    <2>3. QED
      BY <2>2, <1>7 DEF BeginReverse, Reading
  <1>8. CASE BeginCorrect(r, i)
    <2>1. ASSUME NEW t \in Reversible(i), ~IsReversal(t),
                 Holding(rows, i.ledger, <<i.key, "reversal">>) = {},
                 Plan(r, i, {PlanReversal(t, <<i.key, "reversal">>)}
                            \cup {d \in {PlanCorrection(t, i)} :
                                    Holding(rows, i.ledger, d.key) = {}})
          PROVE  Outcome(i)
      <3> DEFINE D == {PlanReversal(t, <<i.key, "reversal">>), PlanCorrection(t, i)}
      <3>1. D \in SUBSET Draft
        BY <1>5, DraftsTyped
      <3>2. PlannedFor(i, D)
        BY <1>8, <2>1, <1>2, <1>5 DEF PlannedFor, Targeted, BeginCorrect
      <3>3. PlanCorrection(t, i).key = <<i.key, "correction">>
        BY DEF PlanCorrection
      <3>4. Plan(r, i, D)
        BY <2>1, <3>3, NoHalfCorrection DEF Plan
      <3>5. QED
        BY <3>1, <3>2, <3>4
    <2>2. Outcome(i)
      BY <1>8, <1>3, <2>1 DEF BeginCorrect, Code
    <2>3. QED
      BY <2>2, <1>8 DEF BeginCorrect, Reading
  <1>9. CASE BeginRemove(r, i)
    <2>1. Outcome(i)
      BY <1>9 DEF BeginRemove, Code, PlannedFor
    <2>2. QED
      BY <2>1, <1>9 DEF BeginRemove, Reading
  <1>10. QED
    BY <1>1, <1>6, <1>7, <1>8, <1>9

-----------------------------------------------------------------------------
(* Steps.  What an open plan relies on survives every step that removes rows *)
(* only together with their ledger.                                          *)

RowsLast ==
    /\ ledgers' \subseteq ledgers
    /\ \A t \in rows : t.ledger \in ledgers' => t \in rows'

LEMMA TargetsLast ==
  ASSUME RowsLast, NEW i, NEW D, PlannedFor(i, D)
  PROVE  PlannedFor(i, D)'
  BY DEF RowsLast, PlannedFor, Targeted, NewEntry, PlanReversal, PlanCorrection, IsReversal

LEMMA OtherPlansLast ==
  ASSUME RowsLast, LedgerInv, NEW r \in Request, slot' \in [Request -> Slot],
         \A q \in Request \ {r} : slot'[q] = slot[q],
         IsOpen(r)' => PlannedFor(slot[r].intent, slot[r].drafts)'
  PROVE  PlansStandUp'
  BY TargetsLast DEF LedgerInv, PlansStandUp, IsOpen

LEMMA InitInv == Init => LedgerInv
  <1> SUFFICES ASSUME Init PROVE LedgerInv
    OBVIOUS
  <1>1. TypeOK
    BY InitTypeOK
  <1>2. PlansStandUp
    BY DEF Init, PlansStandUp, IsOpen, Idle
  <1>3. RowsWellFormed /\ ReversalsCancel /\ CorrectionsArePaired
    BY DEF Init, RowsWellFormed, ReversalsCancel, CorrectionsArePaired
  <1>4. QED
    BY <1>1, <1>2, <1>3 DEF LedgerInv

\* A step that leaves the tables alone and answers, or fixes a sound plan.
LEMMA ReadingKeeps ==
  ASSUME LedgerInv, NEW r \in Request, NEW i \in Intent,
         UNCHANGED <<ledgers, rows, nextId>>,
         \/ \E code \in Code, n \in Nat : Answer(r, i, code, n)
         \/ \E D \in SUBSET Draft : Plan(r, i, D) /\ PlannedFor(i, D)
  PROVE  LedgerInv'
  <1> TypeOK
    BY DEF LedgerInv
  <1>1. slot' \in [Request -> Slot]
    BY AnswerTyped, PlanTyped
  <1>2. TypeOK'
    BY <1>1 DEF TypeOK
  <1>3. RowsLast
    BY DEF RowsLast
  <1>4. \A q \in Request \ {r} : slot'[q] = slot[q]
    BY DEF Answer, Plan, TypeOK
  <1>5. IsOpen(r)' => PlannedFor(slot[r].intent, slot[r].drafts)'
    <2>1. CASE \E code \in Code, n \in Nat : Answer(r, i, code, n)
      BY <2>1 DEF Answer, Done, IsOpen, TypeOK
    <2>2. CASE \E D \in SUBSET Draft : Plan(r, i, D) /\ PlannedFor(i, D)
      <3>1. PICK D \in SUBSET Draft : Plan(r, i, D) /\ PlannedFor(i, D)
        BY <2>2
      <3>2. slot'[r].intent = i /\ slot'[r].drafts = D
        BY <3>1 DEF Plan, Open, TypeOK
      <3>3. PlannedFor(i, D)'
        BY <3>1, <1>3, TargetsLast
      <3>4. QED
        BY <3>2, <3>3
    <2>3. QED
      BY <2>1, <2>2
  <1>6. PlansStandUp'
    BY <1>1, <1>3, <1>4, <1>5, OtherPlansLast
  <1>7. (RowsWellFormed /\ ReversalsCancel /\ CorrectionsArePaired)'
    BY DEF LedgerInv, RowsWellFormed, ReversalsCancel, CorrectionsArePaired, Holding, IsReversal
  <1>8. QED
    BY <1>2, <1>6, <1>7 DEF LedgerInv

\* A step that ends a request leaves sound plans to the others.
LEMMA EndingKeepsPlans ==
  ASSUME LedgerInv, NEW r \in Request, RowsLast,
         NEW code \in Code, NEW n \in Nat, IsOpen(r), Answer(r, slot[r].intent, code, n)
  PROVE  slot' \in [Request -> Slot] /\ PlansStandUp'
  <1>1. TypeOK
    BY DEF LedgerInv
  <1>2. slot' \in [Request -> Slot]
    BY <1>1, OpenTyped, AnswerTyped
  <1>3. \A q \in Request \ {r} : slot'[q] = slot[q]
    BY <1>1 DEF Answer, TypeOK
  <1>4. ~IsOpen(r)'
    BY <1>1 DEF Answer, Done, IsOpen, TypeOK
  <1>5. QED
    BY <1>2, <1>3, <1>4, OtherPlansLast

LEMMA RemoveKeeps ==
  ASSUME LedgerInv, NEW r \in Request, CommitRemove(r)
  PROVE  LedgerInv' /\ RowsLast
  <1> DEFINE l == slot[r].intent.ledger
  <1> USE DEF CommitRemove
  <1>1. RowsLast
    BY DEF RowsLast
  <1>2. slot' \in [Request -> Slot] /\ PlansStandUp'
    BY <1>1, EndingKeepsPlans DEF Code
  <1>3. TypeOK'
    BY <1>2 DEF LedgerInv, TypeOK
  <1>4. RowsWellFormed'
    BY DEF LedgerInv, RowsWellFormed
  <1>5. ReversalsCancel'
    BY DEF LedgerInv, ReversalsCancel, IsReversal
  <1>6. CorrectionsArePaired'
    BY DEF LedgerInv, CorrectionsArePaired, Holding
  <1>7. QED
    BY <1>1, <1>2, <1>3, <1>4, <1>5, <1>6 DEF LedgerInv

\* The committed rows after an append: the old ones, and one per draft, with
\* identifiers that were never used.
LEMMA AppendRows ==
  ASSUME LedgerInv, NEW r \in Request, CommitAppend(r)
  PROVE  /\ slot[r].intent \in Intent
         /\ slot[r].drafts \in SUBSET Draft
         /\ PlannedFor(slot[r].intent, slot[r].drafts)
         /\ rows \subseteq rows'
         /\ \A s \in rows' \ rows : \E d \in slot[r].drafts : s = Stored(d, nextId)
         /\ \A d \in slot[r].drafts : Stored(d, nextId) \in rows' \ rows
         /\ \A s \in rows' \ rows : s \in Row /\ s.id >= nextId /\ s.id < nextId'
         /\ nextId' \in Nat /\ nextId' > nextId
  <1> TypeOK /\ RowsWellFormed
    BY DEF LedgerInv
  <1>1. slot[r].intent \in Intent /\ slot[r].drafts \in SUBSET Draft
    BY OpenTyped DEF CommitAppend
  <1>2. PlannedFor(slot[r].intent, slot[r].drafts)
    BY DEF LedgerInv, PlansStandUp, CommitAppend
  <1>3. nextId \in Nat \ {0}
    BY DEF TypeOK
  <1>4. \A d \in slot[r].drafts : /\ Stored(d, nextId) \in Row
                                  /\ Stored(d, nextId).id >= nextId
    BY <1>1, <1>3, StoredTyped DEF Row
  <1>5. \A d \in slot[r].drafts : Stored(d, nextId) \notin rows
    BY <1>3, <1>4 DEF RowsWellFormed, Row
  <1>6. \A d \in slot[r].drafts : Stored(d, nextId).id < nextId'
    <2>1. \A d \in slot[r].drafts : d.corrects # 0 => slot[r].intent.op = "correct"
      BY <1>2 DEF PlannedFor, NewEntry, PlanReversal
    <2>2. QED
      BY <2>1, <1>1, <1>3, StoredTyped DEF CommitAppend
  <1>7. nextId' \in Nat /\ nextId' > nextId
    BY <1>3 DEF CommitAppend
  <1>8. QED
    BY <1>1, <1>2, <1>4, <1>5, <1>6, <1>7 DEF CommitAppend

\* What the form of a plan says about its drafts.
LEMMA PlanFacts ==
  ASSUME NEW i \in Intent, NEW D, PlannedFor(i, D), NEW d \in D
  PROVE  /\ d.ledger = i.ledger
         /\ d.corrects # 0 => d.reversalOf = 0
         /\ d.key[2] = "correction" <=> d.corrects # 0
         /\ \A e \in D : (d.corrects = 0 <=> e.corrects = 0) => d = e
         /\ d.corrects # 0 => \E e \in D : /\ e.key = <<d.key[1], "reversal">>
                                           /\ e.reversalOf = d.corrects
         /\ d.key[2] = "reversal" => \E e \in D : /\ e.key = <<d.key[1], "correction">>
                                                  /\ e.corrects = d.reversalOf
  <1>1. CASE i.op = "record"
    BY <1>1 DEF PlannedFor, NewEntry
  <1>2. CASE i.op = "reverse"
    BY <1>2 DEF PlannedFor, PlanReversal, Targeted
  <1>3. CASE i.op = "correct"
    <2>1. PICK t \in Row : /\ Targeted(i, t)
                           /\ D = {PlanReversal(t, <<i.key, "reversal">>), PlanCorrection(t, i)}
      BY <1>3 DEF PlannedFor
    <2>2. t.id # 0 /\ t.ledger = i.ledger
      BY <2>1 DEF Row, Targeted
    <2> DEFINE u == PlanReversal(t, <<i.key, "reversal">>)
               c == PlanCorrection(t, i)
    <2>3. /\ u.ledger = i.ledger /\ u.reversalOf = t.id /\ u.corrects = 0
          /\ u.key = <<i.key, "reversal">> /\ u.key[1] = i.key /\ u.key[2] = "reversal"
      BY <2>2 DEF PlanReversal
    <2>4. /\ c.ledger = i.ledger /\ c.reversalOf = 0 /\ c.corrects = t.id
          /\ c.key = <<i.key, "correction">> /\ c.key[1] = i.key /\ c.key[2] = "correction"
      BY <2>2 DEF PlanCorrection
    <2>5. D = {u, c}
      BY <2>1
    <2> HIDE DEF u, c
    <2>6. CASE d = u
      BY <2>2, <2>3, <2>4, <2>5, <2>6
    <2>7. CASE d = c
      BY <2>2, <2>3, <2>4, <2>5, <2>7
    <2>8. QED
      BY <2>5, <2>6, <2>7
  <1>4. QED
    BY <1>1, <1>2, <1>3 DEF PlannedFor

LEMMA AppendKeeps ==
  ASSUME LedgerInv, NEW r \in Request, CommitAppend(r)
  PROVE  LedgerInv' /\ RowsLast
  <1> DEFINE i == slot[r].intent
             D == slot[r].drafts
  <1> TypeOK /\ RowsWellFormed
    BY DEF LedgerInv
  <1>1. RowsLast
    BY AppendRows DEF RowsLast, CommitAppend
  <1>2. nextId \in Nat \ {0}
    BY DEF TypeOK
  <1>3. slot' \in [Request -> Slot] /\ PlansStandUp'
    BY <1>1, <1>2, EndingKeepsPlans DEF CommitAppend, Code
  <1>4. rows' \subseteq Row
    BY AppendRows DEF TypeOK
  <1>5. TypeOK'
    BY <1>2, <1>3, <1>4, AppendRows DEF TypeOK, CommitAppend
  <1>6. \A d \in D : /\ Stored(d, nextId).ledger = d.ledger
                     /\ Stored(d, nextId).amount = d.amount
                     /\ Stored(d, nextId).key = d.key
                     /\ Stored(d, nextId).reversalOf = d.reversalOf
                     /\ Stored(d, nextId).corrects = d.corrects
                     /\ Stored(d, nextId).id = IF d.corrects = 0 THEN nextId ELSE nextId + 1
    BY <1>2, AppendRows, StoredTyped
  <1>7. \A d \in D : /\ d.ledger = i.ledger
                     /\ d.ledger \in ledgers
                     /\ d.corrects # 0 => d.reversalOf = 0
                     /\ d.key[2] = "correction" <=> d.corrects # 0
                     /\ \A e \in D : (d.corrects = 0 <=> e.corrects = 0) => d = e
                     /\ d.corrects # 0 => \E e \in D : /\ e.key = <<d.key[1], "reversal">>
                                                       /\ e.reversalOf = d.corrects
                     /\ d.key[2] = "reversal" =>
                           \E e \in D : /\ e.key = <<d.key[1], "correction">>
                                        /\ e.corrects = d.reversalOf
    <2>1. i \in Intent /\ PlannedFor(i, D)
      BY AppendRows
    <2>2. \A d \in D : d.ledger \in ledgers
      BY DEF CommitAppend, Admissible
    <2> HIDE DEF i, D
    <2>3. QED
      BY <2>1, <2>2, PlanFacts
  <1>8. RowsWellFormed'
    <2>1. \A t \in rows' : t.id < nextId' /\ t.ledger \in ledgers'
      BY <1>6, <1>7, <1>2, AppendRows DEF RowsWellFormed, Row, TypeOK, CommitAppend
    <2>2. ASSUME NEW s \in rows', NEW t \in rows', s.id = t.id
          PROVE  s = t
      <3>1. CASE s \in rows /\ t \in rows
        BY <3>1, <2>2 DEF RowsWellFormed
      <3>2. CASE s \notin rows /\ t \notin rows
        <4>1. PICK d \in D, e \in D : s = Stored(d, nextId) /\ t = Stored(e, nextId)
          BY <3>2, AppendRows
        <4>2. d.corrects = 0 <=> e.corrects = 0
          BY <4>1, <2>2, <1>6, <1>2
        <4>3. QED
          BY <4>1, <4>2, <1>7
      <3>3. CASE (s \in rows /\ t \notin rows) \/ (s \notin rows /\ t \in rows)
        BY <3>3, <2>2, <1>2, AppendRows DEF RowsWellFormed, TypeOK, Row
      <3>4. QED
        BY <3>1, <3>2, <3>3
    <2>3. \A t \in rows' : t.key[2] = "correction" <=> t.corrects # 0
      BY <1>6, <1>7, AppendRows DEF RowsWellFormed
    <2>4. QED
      BY <2>1, <2>2, <2>3 DEF RowsWellFormed
  <1>9. ReversalsCancel'
    <2> SUFFICES ASSUME NEW s \in rows', s.reversalOf # 0
                 PROVE  /\ \E t \in rows' : /\ t.id = s.reversalOf
                                            /\ t.ledger = s.ledger
                                            /\ t.amount = -s.amount
                                            /\ t.reversalOf = 0
                        /\ \A u \in rows' : u.reversalOf = s.reversalOf => u = s
      BY DEF ReversalsCancel, IsReversal
    <2>1. CASE s \in rows
      <3>1. \A u \in rows' \ rows : u.reversalOf # s.reversalOf
        BY <2>1, <1>6, AppendRows DEF CommitAppend, Admissible
      <3>2. QED
        BY <2>1, <3>1, AppendRows DEF LedgerInv, ReversalsCancel, IsReversal
    <2>2. CASE s \notin rows
      <3>1. PICK d \in D : s = Stored(d, nextId)
        BY <2>2, AppendRows
      <3>2. \E t \in rows : /\ t.id = d.reversalOf
                            /\ t.ledger = d.ledger
                            /\ t.amount = -d.amount
                            /\ t.reversalOf = 0
        BY <3>1, <1>6, <1>7, AppendRows
           DEF PlannedFor, Targeted, NewEntry, PlanReversal, PlanCorrection, IsReversal, Row
      <3>3. \A u \in rows : u.reversalOf # s.reversalOf
        BY <3>1, <1>6 DEF CommitAppend, Admissible
      <3>4. ASSUME NEW u \in rows' \ rows, u.reversalOf = s.reversalOf
            PROVE  u = s
        <4>1. PICK e \in D : u = Stored(e, nextId)
          BY AppendRows
        <4>2. d.corrects = 0 /\ e.corrects = 0
          BY <3>1, <3>4, <4>1, <1>6, <1>7
        <4>3. QED
          BY <3>1, <4>1, <4>2, <1>7
      <3>5. QED
        BY <3>1, <3>2, <3>3, <3>4, <1>6, AppendRows
    <2>3. QED
      BY <2>1, <2>2
  <1>10. CorrectionsArePaired'
    <2> SUFFICES ASSUME NEW s \in rows'
                 PROVE  /\ s.corrects # 0 =>
                             \E u \in rows' : /\ u.ledger = s.ledger
                                              /\ u.key = <<s.key[1], "reversal">>
                                              /\ u.reversalOf = s.corrects
                        /\ s.key[2] = "reversal" =>
                             \E u \in rows' : /\ u.ledger = s.ledger
                                              /\ u.key = <<s.key[1], "correction">>
                                              /\ u.corrects = s.reversalOf
      BY DEF CorrectionsArePaired, Holding
    <2>1. CASE s \in rows
      BY <2>1, AppendRows DEF LedgerInv, CorrectionsArePaired, Holding
    <2>2. CASE s \notin rows
      <3>1. PICK d \in D : s = Stored(d, nextId)
        BY <2>2, AppendRows
      <3>2. /\ d.corrects # 0 => \E e \in D : /\ e.ledger = d.ledger
                                              /\ e.key = <<d.key[1], "reversal">>
                                              /\ e.reversalOf = d.corrects
            /\ d.key[2] = "reversal" => \E e \in D : /\ e.ledger = d.ledger
                                                     /\ e.key = <<d.key[1], "correction">>
                                                     /\ e.corrects = d.reversalOf
        <4> HIDE DEF i, D
        <4>1. QED
          BY <3>1, <1>7
      <3>3. \A e \in D : Stored(e, nextId) \in rows'
        BY AppendRows
      <3>4. QED
        BY <3>1, <3>2, <3>3, <1>6
    <2>3. QED
      BY <2>1, <2>2
  <1>11. QED
    BY <1>1, <1>3, <1>5, <1>8, <1>9, <1>10 DEF LedgerInv

LEMMA NextKeeps == LedgerInv /\ [Next]_vars => LedgerInv' /\ RowsLast
  <1> SUFFICES ASSUME LedgerInv, [Next]_vars
               PROVE  LedgerInv' /\ RowsLast
    OBVIOUS
  <1> TypeOK
    BY DEF LedgerInv
  <1>1. ASSUME NEW r \in Request, Begin(r)
        PROVE  LedgerInv' /\ RowsLast
    BY <1>1, BeginForms, ReadingKeeps DEF RowsLast
  <1>2. ASSUME NEW r \in Request, CommitAppend(r)
        PROVE  LedgerInv' /\ RowsLast
    BY <1>2, AppendKeeps
  <1>3. ASSUME NEW r \in Request, CommitConflict(r)
        PROVE  LedgerInv' /\ RowsLast
    BY <1>3, OpenTyped, ReadingKeeps DEF CommitConflict, Reading, RowsLast, Code
  <1>4. ASSUME NEW r \in Request, CommitRemove(r)
        PROVE  LedgerInv' /\ RowsLast
    BY <1>4, RemoveKeeps
  <1>5. ASSUME NEW r \in Request, Rollback(r)
        PROVE  LedgerInv' /\ RowsLast
    BY <1>5, OpenTyped, ReadingKeeps DEF Rollback, Reading, RowsLast, Code
  <1>6. CASE UNCHANGED vars
    BY <1>6 DEF vars, LedgerInv, TypeOK, RowsWellFormed, PlansStandUp, PlannedFor, Targeted,
                ReversalsCancel, CorrectionsArePaired, Holding, IsReversal, IsOpen, RowsLast
  <1>7. QED
    BY <1>1, <1>2, <1>3, <1>4, <1>5, <1>6 DEF Next, Commit

LEMMA LedgerInvariant == Spec => []LedgerInv
  <1>1. LedgerInv /\ [Next]_vars => LedgerInv'
    BY NextKeeps
  <1>2. QED
    BY InitInv, <1>1, PTL DEF Spec

-----------------------------------------------------------------------------
(* Results. *)

\* Every variable keeps its type.
THEOREM TypeCorrect == Spec => []TypeOK
  BY LedgerInvariant, PTL DEF LedgerInv

\* However many requests interleave, a reversal undoes exactly one row, once.
THEOREM ReversalsAlwaysCancel == Spec => []ReversalsCancel
  BY LedgerInvariant, PTL DEF LedgerInv

\* No request, conflict or rollback leaves half of a correction.
THEOREM CorrectionsAlwaysPaired == Spec => []CorrectionsArePaired
  BY LedgerInvariant, PTL DEF LedgerInv

\* Rows never change, and go only with their ledger.
THEOREM HistoryLasts == Spec => HistoryIsPermanent
  <1>1. LedgerInv /\ [Next]_vars =>
          [ /\ \A t \in rows : t.ledger \in ledgers' => t \in rows'
            /\ \A t \in rows' \ rows : \A s \in rows : s.id < t.id ]_vars
    <2> SUFFICES ASSUME LedgerInv, Next
                 PROVE  /\ \A t \in rows : t.ledger \in ledgers' => t \in rows'
                        /\ \A t \in rows' \ rows : \A s \in rows : s.id < t.id
      OBVIOUS
    <2>1. RowsLast
      BY NextKeeps
    <2>2. \A t \in rows' \ rows : \A s \in rows : s.id < t.id
      <3>1. ASSUME NEW r \in Request, CommitAppend(r)
            PROVE  \A t \in rows' \ rows : \A s \in rows : s.id < t.id
        BY <3>1, AppendRows DEF LedgerInv, RowsWellFormed, TypeOK, Row
      <3>2. ASSUME NEW r \in Request, Begin(r)
            PROVE  rows' = rows
        BY <3>2, BeginForms
      <3>3. ASSUME NEW r \in Request, CommitConflict(r) \/ CommitRemove(r) \/ Rollback(r)
            PROVE  rows' \subseteq rows
        BY <3>3 DEF CommitConflict, CommitRemove, Rollback, Reading
      <3>4. QED
        BY <3>1, <3>2, <3>3 DEF Next, Commit
    <2>3. QED
      BY <2>1, <2>2 DEF RowsLast
  <1>2. QED
    BY <1>1, LedgerInvariant, PTL DEF Spec, HistoryIsPermanent

-----------------------------------------------------------------------------
(* What the clients are told.  Every row says which intent it was written    *)
(* for, and what a success said stays true as long as the ledger exists.     *)

WrittenFor(t, j) ==
    /\ t.ledger = j.ledger /\ t.key[1] = j.key
    /\ \/ j.op = "record" /\ t.amount = j.amount
       \/ j.op = "reverse" /\ t.reversalOf = j.target
       \/ j.op = "correct" /\ t.key[2] # "plain"

Told(i) == i.ledger \in ledgers => Effective(i)

ClientInv ==
    /\ LedgerInv
    /\ habit \in Habit
    /\ Kept
    /\ \A t \in rows : \E j \in Sends[habit] : WrittenFor(t, j)
    /\ \A r \in Request : Success(slot[r]) =>
          LET i == slot[r].intent IN i.op = "correct" \/ KeysApart(Sends[habit]) => Told(i)

LEMMA SentIntents ==
  ASSUME habit \in Habit
  PROVE  Sends[habit] \subseteq Intent
  BY HabitAssumption

\* What took effect stays so while the ledger exists, for its rows stay.
LEMMA EffectLasts ==
  ASSUME LedgerInv, RowsLast, NEW i \in Intent, Told(i)
  PROVE  Told(i)'
  <1> SUFFICES ASSUME i.ledger \in ledgers'
               PROVE  Effective(i)'
    BY DEF Told
  <1>1. i.ledger \in ledgers /\ Effective(i)
    BY DEF RowsLast, Told
  <1>2. \A t \in rows : t.ledger = i.ledger => t \in rows'
    BY DEF RowsLast
  <1>3. ASSUME NEW t \in Target(i), Reversed(t, rows)
        PROVE  t \in Target(i)' /\ Reversed(t, rows')
    <2>1. t \in rows /\ t.ledger = i.ledger
      BY DEF Target
    <2>2. PICK s \in rows : s.reversalOf = t.id
      BY <1>3 DEF Reversed
    <2>3. s.ledger = i.ledger
      BY <2>1, <2>2 DEF LedgerInv, ReversalsCancel, RowsWellFormed, TypeOK, Row, IsReversal
    <2>4. QED
      BY <1>2, <2>1, <2>2, <2>3 DEF Target, Reversed
  <1>4. ASSUME NEW t \in Target(i), Reversed(t, rows), NEW s \in rows, s.corrects = i.target
        PROVE  s.ledger = i.ledger
    <2>1. t \in rows /\ t.ledger = i.ledger /\ t.id = i.target
      BY DEF Target
    <2>2. i.target # 0
      BY IntentAssumption
    <2>3. PICK u \in rows : u.ledger = s.ledger /\ u.reversalOf = s.corrects
      BY <1>4, <2>2 DEF LedgerInv, CorrectionsArePaired, Holding
    <2>4. PICK v \in rows : v.id = u.reversalOf /\ v.ledger = u.ledger
      BY <1>4, <2>2, <2>3 DEF LedgerInv, ReversalsCancel, IsReversal
    <2>5. v = t
      BY <1>4, <2>1, <2>3, <2>4 DEF LedgerInv, RowsWellFormed
    <2>6. QED
      BY <2>1, <2>3, <2>4, <2>5
  <1>5. CASE i.op = "record"
    BY <1>1, <1>2, <1>5 DEF Effective, Holding
  <1>6. CASE i.op = "reverse"
    BY <1>1, <1>3, <1>6 DEF Effective
  <1>7. CASE i.op = "correct"
    <2>1. PICK t \in Target(i) : Reversed(t, rows)
      BY <1>1, <1>7 DEF Effective
    <2>2. PICK s \in rows : s.corrects = i.target /\ s.amount = i.amount
      BY <1>1, <1>7 DEF Effective
    <2>3. s \in rows'
      BY <1>2, <1>4, <2>1, <2>2
    <2>4. QED
      BY <1>3, <1>7, <2>1, <2>2, <2>3 DEF Effective
  <1>8. QED
    BY <1>1, <1>5, <1>6, <1>7 DEF Effective

\* What is committed is what was asked for.
LEMMA AppendTakesEffect ==
  ASSUME LedgerInv, NEW r \in Request, CommitAppend(r), NEW i \in Intent, slot[r].intent = i
  PROVE  /\ Effective(i)'
         /\ \A t \in rows' \ rows : WrittenFor(t, i)
  <1> DEFINE D == slot[r].drafts
  <1>1. /\ D \in SUBSET Draft /\ PlannedFor(i, D)
        /\ \A d \in D : Stored(d, nextId) \in rows'
        /\ \A t \in rows : t \in rows'
        /\ \A s \in rows' : s \in rows \/ \E d \in D : s = Stored(d, nextId)
    BY AppendRows DEF CommitAppend
  <1>2. \A d \in D : /\ Stored(d, nextId).ledger = d.ledger
                     /\ Stored(d, nextId).amount = d.amount
                     /\ Stored(d, nextId).key = d.key
                     /\ Stored(d, nextId).reversalOf = d.reversalOf
                     /\ Stored(d, nextId).corrects = d.corrects
    BY DEF Stored
  <1>3. \A d \in D : d.ledger \in ledgers
    BY DEF CommitAppend, Admissible
  <1>4. D # {}
    BY DEF CommitAppend
  <1> HIDE DEF D
  <1>5. CASE i.op = "record"
    <2>1. D = {NewEntry(i)}
      BY <1>1, <1>5 DEF PlannedFor
    <2>2. /\ NewEntry(i).ledger = i.ledger /\ NewEntry(i).amount = i.amount
          /\ NewEntry(i).key = <<i.key, "plain">>
      BY DEF NewEntry
    <2>3. \A d \in D : d.ledger = i.ledger /\ d.amount = i.amount /\ d.key = <<i.key, "plain">>
      BY <2>1, <2>2
    <2>4. \E t \in Holding(rows', i.ledger, <<i.key, "plain">>) : t.amount = i.amount
      BY <1>1, <1>2, <1>4, <2>3 DEF Holding
    <2>5. Effective(i)'
      BY <1>5, <2>4 DEF Effective
    <2>6. QED
      BY <1>1, <1>2, <1>5, <2>3, <2>5 DEF WrittenFor
  <1>6. ASSUME NEW t \in Row, Targeted(i, t), NEW k, PlanReversal(t, k) \in D
        PROVE  /\ \E u \in rows' : u.id = i.target /\ u.ledger = i.ledger /\ Reversed(u, rows')
               /\ PlanReversal(t, k).ledger = i.ledger /\ PlanReversal(t, k).key = k
               /\ PlanReversal(t, k).reversalOf = i.target
    <2>1. /\ PlanReversal(t, k).ledger = i.ledger /\ PlanReversal(t, k).key = k
          /\ PlanReversal(t, k).reversalOf = i.target
          /\ t.id = i.target /\ t.ledger = i.ledger
      BY <1>6 DEF PlanReversal, Targeted
    <2>2. t \in rows'
      BY <1>1, <1>3, <1>6, <2>1 DEF Targeted
    <2>3. Stored(PlanReversal(t, k), nextId) \in rows'
          /\ Stored(PlanReversal(t, k), nextId).reversalOf = t.id
      BY <1>1, <1>2, <1>6, <2>1
    <2>4. Reversed(t, rows')
      BY <2>3 DEF Reversed
    <2>5. QED
      BY <2>1, <2>2, <2>4
  <1>7. CASE i.op = "reverse"
    <2>1. PICK t \in Row : Targeted(i, t) /\ D = {PlanReversal(t, <<i.key, "plain">>)}
      BY <1>1, <1>7 DEF PlannedFor
    <2>2. /\ \E u \in rows' : u.id = i.target /\ u.ledger = i.ledger /\ Reversed(u, rows')
          /\ \A d \in D : d.ledger = i.ledger /\ d.key = <<i.key, "plain">> /\ d.reversalOf = i.target
      BY <1>6, <2>1
    <2>3. Effective(i)'
      BY <1>7, <2>2 DEF Effective, Target
    <2>4. QED
      BY <1>1, <1>2, <1>7, <2>2, <2>3 DEF WrittenFor
  <1>8. CASE i.op = "correct"
    <2>1. PICK t \in Row : /\ Targeted(i, t)
                           /\ D = {PlanReversal(t, <<i.key, "reversal">>), PlanCorrection(t, i)}
      BY <1>1, <1>8 DEF PlannedFor
    <2>2. /\ PlanCorrection(t, i).ledger = i.ledger /\ PlanCorrection(t, i).amount = i.amount
          /\ PlanCorrection(t, i).key = <<i.key, "correction">>
          /\ PlanCorrection(t, i).corrects = i.target
      BY <2>1 DEF PlanCorrection, Targeted
    <2>3. /\ \E u \in rows' : u.id = i.target /\ u.ledger = i.ledger /\ Reversed(u, rows')
          /\ PlanReversal(t, <<i.key, "reversal">>).ledger = i.ledger
          /\ PlanReversal(t, <<i.key, "reversal">>).key = <<i.key, "reversal">>
      BY <1>6, <2>1
    <2>4. \A d \in D : d.ledger = i.ledger /\ d.key[1] = i.key /\ d.key[2] # "plain"
      BY <2>1, <2>2, <2>3
    <2>5. \E s \in rows' : s.corrects = i.target /\ s.amount = i.amount
      BY <1>1, <1>2, <2>1, <2>2
    <2>6. Effective(i)'
      BY <1>8, <2>3, <2>5 DEF Effective, Target
    <2>7. QED
      BY <1>1, <1>2, <1>8, <2>4, <2>6 DEF WrittenFor
  <1>9. i.op \in {"record", "reverse", "correct"}
    BY <1>1, <1>4 DEF PlannedFor
  <1>10. QED
    BY <1>5, <1>7, <1>8, <1>9

LEMMA AnswerMeans ==
  ASSUME TypeOK, NEW r \in Request, NEW i \in Intent, NEW code, NEW n, Answer(r, i, code, n)
  PROVE  /\ slot'[r].intent = i
         /\ Success(slot'[r]) <=> code \in {"created", "existing"}
         /\ \A q \in Request \ {r} : slot'[q] = slot[q]
  <1>1. slot'[r] = Done(i, code, n) /\ \A q \in Request \ {r} : slot'[q] = slot[q]
    BY DEF Answer, TypeOK
  <1>2. Done(i, code, n).phase = "done" /\ Done(i, code, n).intent = i /\ Done(i, code, n).code = code
    BY DEF Done
  <1>3. QED
    BY <1>1, <1>2 DEF Success

LEMMA PlanMeans ==
  ASSUME TypeOK, NEW r \in Request, NEW i \in Intent, NEW D, Plan(r, i, D)
  PROVE  ~Success(slot'[r]) /\ \A q \in Request \ {r} : slot'[q] = slot[q]
  <1>1. slot'[r] = Open(i, D) /\ \A q \in Request \ {r} : slot'[q] = slot[q]
    BY DEF Plan, TypeOK
  <1>2. Open(i, D).phase = "open"
    BY DEF Open
  <1>3. QED
    BY <1>1, <1>2 DEF Success

\* A request that is answered at once with a success found a row under its key.
FoundRow(i) ==
    /\ i.op \in {"record", "reverse"} /\ i.ledger \in ledgers
    /\ i.op = "reverse" => \A t \in Target(i) : ~Reversed(t, rows)
    /\ Holding(rows, i.ledger, <<i.key, "plain">>) # {}

LEMMA BeginAnswers ==
  ASSUME LedgerInv, NEW r \in Request, Begin(r)
  PROVE  /\ \A q \in Request \ {r} : slot'[q] = slot[q]
         /\ Success(slot'[r]) => \E i \in Intent : slot'[r].intent = i /\ FoundRow(i)
  <1> TypeOK
    BY DEF LedgerInv
  <1>1. PICK i \in Intent : BeginRecord(r, i) \/ BeginReverse(r, i)
                            \/ BeginCorrect(r, i) \/ BeginRemove(r, i)
    BY DEF Begin
  <1>2. \A q \in Request \ {r} : slot'[q] = slot[q]
    BY BeginForms, AnswerMeans, PlanMeans
  <1> DEFINE Fits == Success(slot'[r]) => slot'[r].intent = i /\ FoundRow(i)
  <1>3. ASSUME NEW code, NEW n, Answer(r, i, code, n), code \notin {"created", "existing"}
        PROVE  Fits
    BY <1>3, AnswerMeans
  <1>4. ASSUME NEW D, Plan(r, i, D)
        PROVE  Fits
    BY <1>4, PlanMeans
  <1>5. ASSUME NEW n, Answer(r, i, "existing", n), FoundRow(i)
        PROVE  Fits
    BY <1>5, AnswerMeans
  <1> HIDE DEF Fits
  <1>6. NoSuchTarget(r, i) => Fits
    BY <1>3 DEF NoSuchTarget
  <1>7. ASSUME BeginRecord(r, i)
        PROVE  Fits
    <2>1. NewEntry(i).ledger = i.ledger /\ NewEntry(i).key = <<i.key, "plain">>
      BY DEF NewEntry
    <2>2. CASE i.ledger \notin ledgers /\ Answer(r, i, "ledger_not_found", 0)
      BY <1>3, <2>2
    <2>3. CASE i.ledger \in ledgers /\ AppendOne(r, i, NewEntry(i))
      <3>1. CASE \E t \in Holding(rows, i.ledger, <<i.key, "plain">>) : Answer(r, i, "existing", t.id)
        BY <1>5, <1>7, <2>3, <3>1 DEF BeginRecord, FoundRow
      <3>2. CASE Plan(r, i, {NewEntry(i)})
        BY <1>4, <3>2
      <3>3. QED
        BY <2>1, <2>3, <3>1, <3>2 DEF AppendOne
    <2>4. QED
      BY <1>7, <2>2, <2>3 DEF BeginRecord
  <1>8. ASSUME BeginReverse(r, i)
        PROVE  Fits
    <2>1. ASSUME NEW t \in Reversible(i), AppendOne(r, i, PlanReversal(t, <<i.key, "plain">>))
          PROVE  Fits
      <3>1. /\ t \in rows /\ t.id = i.target /\ t.ledger = i.ledger /\ i.ledger \in ledgers
            /\ ~Reversed(t, rows)
        BY <2>1 DEF Reversible, Target
      <3>2. \A u \in Target(i) : u = t
        BY <3>1 DEF Target, LedgerInv, RowsWellFormed
      <3>3. /\ PlanReversal(t, <<i.key, "plain">>).ledger = i.ledger
            /\ PlanReversal(t, <<i.key, "plain">>).key = <<i.key, "plain">>
        BY <3>1 DEF PlanReversal
      <3>4. CASE \E u \in Holding(rows, i.ledger, <<i.key, "plain">>) : Answer(r, i, "existing", u.id)
        BY <1>5, <1>8, <3>1, <3>2, <3>4 DEF BeginReverse, FoundRow
      <3>5. CASE Plan(r, i, {PlanReversal(t, <<i.key, "plain">>)})
        BY <1>4, <3>5
      <3>6. QED
        BY <2>1, <3>3, <3>4, <3>5 DEF AppendOne
    <2>2. ASSUME Answer(r, i, "reversal_of_reversal", 0)
          PROVE  Fits
      BY <1>3, <2>2
    <2>3. QED
      BY <1>6, <1>8, <2>1, <2>2 DEF BeginReverse
  <1>9. ASSUME BeginCorrect(r, i)
        PROVE  Fits
    <2>1. ASSUME NEW code \in {"correction_of_reversal", "idempotency_key_reused"},
                 Answer(r, i, code, 0)
          PROVE  Fits
      BY <1>3, <2>1
    <2>2. QED
      BY <1>4, <1>6, <1>9, <2>1 DEF BeginCorrect
  <1>10. ASSUME BeginRemove(r, i)
        PROVE  Fits
    <2>1. ASSUME NEW code \in {"membership_not_found", "ledger_not_empty"},
                 Answer(r, i, code, 0)
          PROVE  Fits
      BY <1>3, <2>1
    <2>2. QED
      BY <1>4, <1>10, <2>1 DEF BeginRemove
  <1>11. Fits
    BY <1>1, <1>7, <1>8, <1>9, <1>10
  <1>12. QED
    BY <1>2, <1>11 DEF Fits

\* With keys apart, the row that was found was written for this very intent.
LEMMA FoundIsOwn ==
  ASSUME LedgerInv, KeysApart(Sends[habit]), NEW i \in Intent, i \in Sends[habit], FoundRow(i),
         \A t \in rows : \E j \in Sends[habit] : WrittenFor(t, j), habit \in Habit
  PROVE  Effective(i)
  <1>1. PICK t \in rows : t.ledger = i.ledger /\ t.key = <<i.key, "plain">>
    BY DEF FoundRow, Holding
  <1>2. PICK j \in Sends[habit] : WrittenFor(t, j)
    OBVIOUS
  <1>3. j \in Intent /\ j.ledger = i.ledger /\ j.key = i.key
    BY <1>1, <1>2, SentIntents DEF WrittenFor
  <1>4. Writes(i) /\ Writes(j)
    BY <1>2 DEF Writes, FoundRow, WrittenFor
  <1>5. j = i
    BY <1>2, <1>3, <1>4 DEF KeysApart
  <1>6. CASE i.op = "record"
    <2>1. t.amount = i.amount
      BY <1>2, <1>5, <1>6 DEF WrittenFor
    <2>2. QED
      BY <1>1, <1>6, <2>1 DEF Effective, Holding
  <1>7. CASE i.op = "reverse"
    <2>1. t.reversalOf = i.target /\ i.target # 0
      BY <1>2, <1>5, <1>7, IntentAssumption DEF WrittenFor
    <2>2. PICK u \in rows : u.id = t.reversalOf /\ u.ledger = t.ledger
      BY <1>1, <2>1 DEF LedgerInv, ReversalsCancel, IsReversal
    <2>3. u \in Target(i) /\ Reversed(u, rows)
      BY <1>1, <2>1, <2>2 DEF Target, Reversed
    <2>4. QED
      BY <1>7, <2>3 DEF FoundRow
  <1>8. QED
    BY <1>6, <1>7 DEF FoundRow

LEMMA ClientKeeps ==
  ASSUME ClientInv, [ClientNext]_<<vars, habit>>
  PROVE  ClientInv'
  <1>1. LedgerInv /\ LedgerInv' /\ RowsLast /\ habit' = habit /\ habit \in Habit
    BY NextKeeps DEF ClientInv, ClientNext, vars
  <1>2. CASE UNCHANGED <<vars, habit>>
    BY <1>1, <1>2 DEF vars, ClientInv, Kept, WrittenFor, Success, Told, Effective, Target, Holding
  <1>3. ASSUME ClientNext
        PROVE  ClientInv'
    <2> TypeOK
      BY <1>1 DEF LedgerInv
    <2>1. Kept /\ Kept'
      BY <1>3 DEF ClientInv, ClientNext
    <2>2. PICK r \in Request : Begin(r) \/ Commit(r) \/ Rollback(r)
      BY <1>3 DEF ClientNext, Next
    <2>3. /\ \A q \in Request \ {r} : slot'[q] = slot[q]
          /\ ~CommitAppend(r) => rows' \subseteq rows
      <3>1. CASE Begin(r)
        BY <1>1, <3>1, BeginAnswers, BeginForms
      <3>2. CASE CommitAppend(r) \/ CommitConflict(r) \/ CommitRemove(r) \/ Rollback(r)
        BY <3>2 DEF CommitAppend, CommitConflict, CommitRemove, Rollback, Answer, Reading, TypeOK
      <3>3. QED
        BY <2>2, <3>1, <3>2 DEF Commit
    <2>4. \A t \in rows' : \E j \in Sends[habit] : WrittenFor(t, j)
      <3>1. CASE CommitAppend(r)
        <4>1. PICK i \in Intent : slot[r].intent = i
          BY <3>1, OpenTyped DEF CommitAppend
        <4>2. i \in Sends[habit]
          BY <2>1, <3>1, <4>1 DEF Kept, CommitAppend, IsOpen
        <4>3. \A t \in rows' \ rows : WrittenFor(t, i)
          BY <1>1, <3>1, <4>1, AppendTakesEffect
        <4>4. QED
          BY <4>2, <4>3 DEF ClientInv
      <3>2. CASE ~CommitAppend(r)
        BY <2>3, <3>2 DEF ClientInv
      <3>3. QED
        BY <3>1, <3>2
    <2>5. ASSUME NEW q \in Request, Success(slot'[q]), NEW i \in Intent, slot'[q].intent = i,
                 i.op = "correct" \/ KeysApart(Sends[habit])
          PROVE  Told(i)'
      <3>1. CASE q # r
        <4>1. Success(slot[q]) /\ slot[q].intent = i
          BY <2>3, <2>5, <3>1
        <4>2. Told(i)
          BY <2>5, <4>1 DEF ClientInv
        <4>3. QED
          BY <1>1, <4>2, EffectLasts
      <3>2. CASE q = r /\ Begin(r)
        <4>1. FoundRow(i)
          BY <1>1, <2>5, <3>2, BeginAnswers
        <4>2. i \in Sends[habit]
          BY <1>1, <2>1, <2>5 DEF Kept, Success
        <4>3. KeysApart(Sends[habit])
          BY <2>5, <4>1 DEF FoundRow
        <4>4. \A t \in rows : \E j \in Sends[habit] : WrittenFor(t, j)
          BY DEF ClientInv
        <4>5. Effective(i)
          BY <1>1, <4>1, <4>2, <4>3, <4>4, FoundIsOwn
        <4>6. Told(i)
          BY <4>5 DEF Told
        <4>7. QED
          BY <1>1, <4>6, EffectLasts
      <3>3. CASE q = r /\ CommitAppend(r)
        <4>1. slot[r].intent \in Intent
          BY <3>3, OpenTyped DEF CommitAppend
        <4>2. slot[r].intent = i
          BY <2>5, <3>3, <4>1, AnswerMeans DEF CommitAppend
        <4>3. Effective(i)'
          BY <1>1, <3>3, <4>2, AppendTakesEffect
        <4>4. QED
          BY <4>3 DEF Told
      <3>4. CASE q = r /\ (CommitConflict(r) \/ CommitRemove(r) \/ Rollback(r))
        <4>1. slot[r].intent \in Intent
          BY <3>4, OpenTyped DEF CommitConflict, CommitRemove, Rollback
        <4>2. PICK code \in {"integrity_error", "removed", "rolled_back"} :
                Answer(r, slot[r].intent, code, 0)
          BY <3>4 DEF CommitConflict, CommitRemove, Rollback
        <4>3. QED
          BY <2>5, <3>4, <4>1, <4>2, AnswerMeans
      <3>5. QED
        BY <2>2, <3>1, <3>2, <3>3, <3>4 DEF Commit
    <2>6. \A q \in Request : Success(slot'[q]) => slot'[q].intent \in Intent
      BY <1>1 DEF LedgerInv, TypeOK, Slot, Idle, Success
    <2>7. \A q \in Request : Success(slot'[q]) =>
             (slot'[q].intent.op = "correct" \/ KeysApart(Sends[habit]) => Told(slot[q].intent)')
      <3> SUFFICES ASSUME NEW q \in Request, Success(slot'[q]),
                          slot'[q].intent.op = "correct" \/ KeysApart(Sends[habit])
                   PROVE  Told(slot[q].intent)'
        OBVIOUS
      <3>1. PICK i \in Intent : slot'[q].intent = i
        BY <2>6
      <3>2. Told(i)'
        BY <2>5, <3>1
      <3>3. QED
        BY <3>1, <3>2 DEF Told, Effective, Target
    <2>8. QED
      BY <1>1, <2>1, <2>4, <2>7 DEF ClientInv, KeysApart
  <1>4. QED
    BY <1>2, <1>3

\* What the server reports as a success is so: for a client that draws a key for each operation
\* always, for any client when it corrected (append, CorrectPointTransactionUseCase).
THEOREM SuccessesAlwaysHold == ClientSpec => []SuccessesHold
  <1>1. ClientInit => ClientInv
    <2> SUFFICES ASSUME ClientInit
                 PROVE  ClientInv
      OBVIOUS
    <2>1. \A r \in Request : slot[r] = Idle
      BY DEF ClientInit, Init
    <2>2. LedgerInv /\ habit \in Habit /\ rows = {}
      BY InitInv DEF ClientInit, Init
    <2>3. QED
      BY <2>1, <2>2 DEF ClientInv, Kept, Success, Idle
  <1>2. ClientInv /\ [ClientNext]_<<vars, habit>> => ClientInv'
    BY ClientKeeps
  <1>3. ClientInv => SuccessesHold
    BY DEF ClientInv, SuccessesHold, AnswersHold, CorrectionAnswersHold, Told
  <1>4. QED
    BY <1>1, <1>2, <1>3, PTL DEF ClientSpec

-----------------------------------------------------------------------------
(* Refinement of the abstract ledger.                                        *)

EntryOf(t, counts) == [id |-> t.id, ledger |-> t.ledger, amount |-> t.amount, counts |-> counts]

LEMMA EntriesAre ==
  Entries = {EntryOf(t, ~Reversed(t, rows)) : t \in {s \in rows : s.reversalOf = 0}}
  BY DEF Entries, EntryOf, IsReversal

LEMMA EntriesBecome ==
  Entries' = {EntryOf(t, ~Reversed(t, rows')) : t \in {s \in rows' : s.reversalOf = 0}}
  BY DEF Entries, EntryOf, IsReversal, Reversed

LEMMA UndoneEntry ==
  ASSUME NEW t
  PROVE  EntryOf(t, TRUE).counts /\ Abstract!Undone(EntryOf(t, TRUE)) = EntryOf(t, FALSE)
  BY DEF EntryOf, Abstract!Undone

\* A reversal is in the ledger of the row it undoes, and undoes an old row.
LEMMA ReversersAreNear ==
  ASSUME LedgerInv, NEW t \in rows, NEW s \in rows, s.reversalOf = t.id
  PROVE  s.ledger = t.ledger
  BY DEF LedgerInv, ReversalsCancel, RowsWellFormed, TypeOK, Row, IsReversal

LEMMA ReversersAreOld ==
  ASSUME LedgerInv, NEW s \in rows, s.reversalOf # 0
  PROVE  s.reversalOf < nextId
  BY DEF LedgerInv, ReversalsCancel, RowsWellFormed, TypeOK, Row, IsReversal

LEMMA RemoveRefines ==
  ASSUME LedgerInv, NEW r \in Request, CommitRemove(r)
  PROVE  Abstract!Next \/ UNCHANGED <<ledgers, Entries>>
  <1> DEFINE l == slot[r].intent.ledger
  <1>1. CASE l \in ledgers
    <2>1. \A t \in rows' : t \in rows /\ (Reversed(t, rows') <=> Reversed(t, rows))
      BY ReversersAreNear DEF CommitRemove, Reversed
    <2>2. Entries' = {e \in Entries : e.ledger # l}
      <3>1. \A t \in rows, c \in BOOLEAN : EntryOf(t, c).ledger = t.ledger
        BY DEF EntryOf
      <3>2. \A t \in rows : Reversed(t, rows) \in BOOLEAN /\ Reversed(t, rows') \in BOOLEAN
        BY DEF Reversed
      <3>3. rows' = {t \in rows : t.ledger # l}
        BY DEF CommitRemove
      <3> HIDE DEF l
      <3>4. QED
        BY <2>1, <3>1, <3>2, <3>3, EntriesAre, EntriesBecome
    <2>3. l \in Ledger
      BY <1>1 DEF LedgerInv, TypeOK
    <2>4. Abstract!Close(l)
      BY <1>1, <2>2 DEF Abstract!Close, CommitRemove
    <2>5. QED
      BY <2>3, <2>4 DEF Abstract!Next
  <1>2. CASE l \notin ledgers
    BY <1>2 DEF CommitRemove, LedgerInv, RowsWellFormed, Entries, Reversed
  <1>3. QED
    BY <1>1, <1>2

LEMMA AppendRefines ==
  ASSUME LedgerInv, NEW r \in Request, CommitAppend(r)
  PROVE  Abstract!Next
  <1> DEFINE i == slot[r].intent
             D == slot[r].drafts
  <1> TypeOK /\ RowsWellFormed
    BY DEF LedgerInv
  <1>1. i \in Intent /\ PlannedFor(i, D)
    BY AppendRows
  <1>2. nextId \in 1..MaxId /\ nextId + 1 \in 1..MaxId
    BY IntentAssumption DEF TypeOK, CommitAppend
  <1>3. i.ledger \in ledgers /\ i.ledger \in Ledger /\ i.amount \in {j.amount : j \in Intent}
    <2>1. \A d \in D : d.ledger = i.ledger
      <3> HIDE DEF i, D
      <3>1. QED
        BY <1>1, PlanFacts
    <2>2. QED
      BY <1>1, <2>1 DEF CommitAppend, Admissible, TypeOK
  <1>4. \A t \in rows : t.id < nextId /\ t.id \in Nat \ {0}
    BY DEF RowsWellFormed, TypeOK, Row
  <1>5. \A s \in rows : s.reversalOf # nextId /\ s.reversalOf # nextId + 1
    BY ReversersAreOld DEF TypeOK, Row
  <1>6. \A e \in Entries : e.id # nextId /\ e.id # nextId + 1
    BY <1>4, EntriesAre DEF EntryOf, TypeOK
  <1>7. rows' = rows \cup {Stored(d, nextId) : d \in D} /\ ledgers' = ledgers
    BY DEF CommitAppend
  <1>8. CASE i.op = "record"
    <2> DEFINE n == Stored(NewEntry(i), nextId)
    <2>1. rows' = rows \cup {n}
      BY <1>1, <1>7, <1>8 DEF PlannedFor
    <2>2. n.id = nextId /\ n.ledger = i.ledger /\ n.amount = i.amount /\ n.reversalOf = 0
      BY DEF Stored, NewEntry
    <2>3. ~Reversed(n, rows')
      BY <1>5, <2>1, <2>2 DEF Reversed, TypeOK
    <2>4. \A t \in rows : Reversed(t, rows') <=> Reversed(t, rows)
      BY <1>4, <2>1, <2>2 DEF Reversed
    <2>5. Entries' = Entries \cup {EntryOf(n, TRUE)}
      <3> HIDE DEF n
      <3>1. QED
        BY <2>1, <2>2, <2>3, <2>4, EntriesAre, EntriesBecome
    <2>6. EntryOf(n, TRUE) = Abstract!New(nextId, i.ledger, i.amount)
      BY <2>2 DEF EntryOf, Abstract!New
    <2>7. Abstract!Add(i.ledger, nextId, i.amount)
      BY <1>3, <1>6, <1>7, <2>5, <2>6 DEF Abstract!Add, Abstract!Fresh
    <2>8. QED
      BY <1>2, <1>3, <2>7 DEF Abstract!Next
  <1>9. ASSUME NEW t \in Row, Targeted(i, t), NEW k,
               PlanReversal(t, k) \in D
        PROVE  /\ t \in rows /\ t.reversalOf = 0
               /\ ~Reversed(t, rows)
               /\ EntryOf(t, TRUE) \in Entries
               /\ \A u \in rows : u.id = t.id => u = t
    <2>1. t \in rows /\ t.reversalOf = 0
      BY <1>3, <1>9 DEF Targeted, IsReversal
    <2>2. \A u \in rows : u.reversalOf # t.id
      <3>1. Admissible(PlanReversal(t, k))
        BY <1>9 DEF CommitAppend
      <3>2. PlanReversal(t, k).reversalOf = t.id /\ t.id # 0
        BY DEF PlanReversal, Row
      <3>3. QED
        BY <3>1, <3>2 DEF Admissible
    <2>3. QED
      BY <2>1, <2>2, EntriesAre DEF Reversed, RowsWellFormed
  <1>10. CASE i.op = "reverse"
    <2>1. PICK t \in Row : Targeted(i, t) /\ D = {PlanReversal(t, <<i.key, "plain">>)}
      BY <1>1, <1>10 DEF PlannedFor
    <2> DEFINE n == Stored(PlanReversal(t, <<i.key, "plain">>), nextId)
               e == EntryOf(t, TRUE)
    <2>2. /\ t \in rows /\ t.reversalOf = 0 /\ ~Reversed(t, rows) /\ e \in Entries
          /\ \A u \in rows : u.id = t.id => u = t
      BY <1>9, <2>1
    <2>3. rows' = rows \cup {n}
      BY <1>7, <2>1
    <2>4. n.id = nextId /\ n.reversalOf = t.id /\ t.id # 0
      BY DEF Stored, PlanReversal, Row
    <2>5. Reversed(t, rows')
      BY <2>3, <2>4 DEF Reversed
    <2>6. \A u \in rows : u # t => (Reversed(u, rows') <=> Reversed(u, rows))
      BY <2>2, <2>3, <2>4 DEF Reversed
    <2>7. Entries' = {EntryOf(u, ~Reversed(u, rows')) : u \in {s \in rows : s.reversalOf = 0}}
      <3> HIDE DEF n
      <3>1. QED
        BY <2>3, <2>4, EntriesBecome
    <2>8. e.counts /\ Abstract!Undone(e) = EntryOf(t, FALSE)
      BY UndoneEntry
    <2>9. Entries' = (Entries \ {e}) \cup {EntryOf(t, FALSE)}
      <3>1. \A u \in rows : u # t => \A c \in BOOLEAN : EntryOf(u, c) # e
        BY <2>2 DEF EntryOf
      <3>2. \A u \in rows : Reversed(u, rows) \in BOOLEAN /\ Reversed(u, rows') \in BOOLEAN
        BY DEF Reversed
      <3>3. EntryOf(t, FALSE) # e
        BY DEF EntryOf
      <3> HIDE DEF e
      <3>4. EntryOf(t, ~Reversed(t, rows)) = e
        BY <2>2 DEF e
      <3>5. QED
        BY <2>2, <2>5, <2>6, <2>7, <3>1, <3>2, <3>3, <3>4, EntriesAre
    <2>10. Abstract!Undo(e)
      BY <1>7, <2>8, <2>9 DEF Abstract!Undo
    <2>11. QED
      BY <2>2, <2>10 DEF Abstract!Next
  <1>11. CASE i.op = "correct"
    <2>1. PICK t \in Row : /\ Targeted(i, t)
                           /\ D = {PlanReversal(t, <<i.key, "reversal">>), PlanCorrection(t, i)}
      BY <1>1, <1>11 DEF PlannedFor
    <2> DEFINE n == Stored(PlanReversal(t, <<i.key, "reversal">>), nextId)
               c == Stored(PlanCorrection(t, i), nextId)
               e == EntryOf(t, TRUE)
    <2>2. /\ t \in rows /\ t.reversalOf = 0 /\ ~Reversed(t, rows) /\ e \in Entries
          /\ \A u \in rows : u.id = t.id => u = t
      BY <1>9, <2>1
    <2>3. rows' = rows \cup {n, c}
      BY <1>7, <2>1
    <2>4. /\ n.id = nextId /\ n.reversalOf = t.id /\ t.id # 0
          /\ c.id = nextId + 1 /\ c.reversalOf = 0 /\ c.ledger = t.ledger /\ c.amount = i.amount
      BY DEF Stored, PlanReversal, PlanCorrection, Row
    <2>5. Reversed(t, rows')
      BY <2>3, <2>4 DEF Reversed
    <2>6. \A u \in rows : u # t => (Reversed(u, rows') <=> Reversed(u, rows))
      <3> HIDE DEF n, c
      <3>1. QED
        BY <1>4, <2>2, <2>3, <2>4 DEF Reversed
    <2>7. ~Reversed(c, rows')
      <3> HIDE DEF n, c
      <3>1. QED
        BY <1>4, <1>5, <2>2, <2>3, <2>4 DEF Reversed, TypeOK
    <2>8. Entries' = {EntryOf(u, ~Reversed(u, rows')) : u \in {s \in rows : s.reversalOf = 0}}
                     \cup {EntryOf(c, TRUE)}
      <3> HIDE DEF n, c
      <3>1. {s \in rows' : s.reversalOf = 0} = {s \in rows : s.reversalOf = 0} \cup {c}
        BY <2>3, <2>4
      <3>2. EntryOf(c, ~Reversed(c, rows')) = EntryOf(c, TRUE)
        BY <2>7
      <3>3. QED
        BY <3>1, <3>2, EntriesBecome
    <2>9. /\ e.counts /\ Abstract!Undone(e) = EntryOf(t, FALSE)
          /\ EntryOf(c, TRUE) = Abstract!New(nextId + 1, e.ledger, i.amount)
      <3>1. EntryOf(c, TRUE) = Abstract!New(nextId + 1, e.ledger, i.amount)
        BY <2>4 DEF EntryOf, Abstract!New
      <3>2. QED
        BY <3>1, UndoneEntry
    <2>10. Entries' = (Entries \ {e}) \cup {EntryOf(t, FALSE), EntryOf(c, TRUE)}
      <3>1. \A u \in rows : u # t => \A b \in BOOLEAN : EntryOf(u, b) # e
        BY <2>2 DEF EntryOf
      <3>2. \A u \in rows : Reversed(u, rows) \in BOOLEAN /\ Reversed(u, rows') \in BOOLEAN
        BY DEF Reversed
      <3>3. EntryOf(t, FALSE) # e
        BY DEF EntryOf
      <3> HIDE DEF e, n, c
      <3>4. EntryOf(t, ~Reversed(t, rows)) = e
        BY <2>2 DEF e
      <3>5. QED
        BY <2>2, <2>5, <2>6, <2>8, <3>1, <3>2, <3>3, <3>4, EntriesAre
    <2>11. Abstract!Restate(e, nextId + 1, i.amount)
      <3>1. Abstract!Fresh(nextId + 1)
        BY <1>6 DEF Abstract!Fresh
      <3>2. QED
        BY <1>7, <2>9, <2>10, <3>1 DEF Abstract!Restate
    <2>12. QED
      BY <1>2, <1>3, <2>2, <2>11 DEF Abstract!Next
  <1>12. QED
    BY <1>1, <1>8, <1>10, <1>11 DEF PlannedFor, CommitAppend

\* Seen from outside, concurrent requests on rows, keys and snapshots do only
\* what the abstract ledger allows, one entry or one correction at a time.
THEOREM LedgerImplementsAbstract == Spec => ImplementsAbstractLedger
  <1>1. Init => Abstract!Init
    BY DEF Init, Abstract!Init, Entries
  <1>2. LedgerInv /\ [Next]_vars => [Abstract!Next]_<<ledgers, Entries>>
    <2> SUFFICES ASSUME LedgerInv, [Next]_vars
                 PROVE  Abstract!Next \/ UNCHANGED <<ledgers, Entries>>
      OBVIOUS
    <2>1. UNCHANGED <<ledgers, rows>> => UNCHANGED <<ledgers, Entries>>
      BY DEF Entries, Reversed, IsReversal
    <2>2. ASSUME NEW r \in Request, Begin(r)
          PROVE  UNCHANGED <<ledgers, rows>>
      BY <2>2, BeginForms
    <2>3. ASSUME NEW r \in Request, CommitConflict(r) \/ Rollback(r)
          PROVE  UNCHANGED <<ledgers, rows>>
      BY <2>3 DEF CommitConflict, Rollback, Reading
    <2>4. CASE UNCHANGED vars
      BY <2>4, <2>1 DEF vars
    <2>5. QED
      BY <2>1, <2>2, <2>3, <2>4, AppendRefines, RemoveRefines DEF Next, Commit
  <1>3. QED
    BY <1>1, <1>2, LedgerInvariant, PTL DEF Spec, Abstract!Spec, ImplementsAbstractLedger

-----------------------------------------------------------------------------
(* The archive of a ledger.  The rows of a table in the order of their       *)
(* identifiers: every row has one place, and the place says how many come    *)
(* before it.                                                                *)

Numbered(T) ==
    /\ IsFiniteSet(T)
    /\ \A t \in T : t.id \in Nat \ {0}
    /\ \A s, t \in T : s.id = t.id => s = t

Place(t, T) == 1 + Cardinality({s \in T : s.id < t.id})

LEMMA OrderedIs ==
  ASSUME NEW T
  PROVE  Ordered(T) = [n \in 1..Cardinality(T) |-> CHOOSE t \in T : Place(t, T) = n]
  BY DEF Ordered, Arranged, Place

LEMMA PlacesAreInRange ==
  ASSUME NEW T, Numbered(T), NEW t \in T
  PROVE  Place(t, T) \in 1..Cardinality(T)
  <1> DEFINE before == {s \in T : s.id < t.id}
  <1>1. before \in SUBSET (T \ {t}) /\ IsFiniteSet(T)
    BY DEF Numbered
  <1>2. IsFiniteSet(T \ {t}) /\ Cardinality(T \ {t}) = Cardinality(T) - 1
    BY <1>1, FS_RemoveElement
  <1>3. IsFiniteSet(before) /\ Cardinality(before) <= Cardinality(T \ {t})
    BY <1>1, <1>2, FS_Subset
  <1>4. Cardinality(before) \in Nat /\ Cardinality(T) \in Nat
    BY <1>1, <1>3, FS_CardinalityType
  <1>5. Place(t, T) = 1 + Cardinality(before)
    BY DEF Place
  <1> HIDE DEF before
  <1>6. QED
    BY <1>2, <1>3, <1>4, <1>5

LEMMA PlacesFollowIds ==
  ASSUME NEW T, Numbered(T), NEW s \in T, NEW t \in T
  PROVE  s.id < t.id <=> Place(s, T) < Place(t, T)
  <1>1. ASSUME NEW u \in T, NEW v \in T, u.id < v.id
        PROVE  Place(u, T) < Place(v, T)
    <2> DEFINE before(w) == {x \in T : x.id < w.id}
    <2>1. IsFiniteSet(T)
      BY DEF Numbered
    <2>2. before(u) \in SUBSET T /\ before(v) \in SUBSET T
      OBVIOUS
    <2>3. IsFiniteSet(before(u)) /\ IsFiniteSet(before(v))
      BY <2>1, <2>2, FS_Subset
    <2>4. before(u) \in SUBSET before(v) /\ before(u) # before(v)
      BY <1>1 DEF Numbered
    <2>5. /\ Cardinality(before(u)) <= Cardinality(before(v))
          /\ Cardinality(before(u)) # Cardinality(before(v))
      BY <2>3, <2>4, FS_Subset
    <2>6. Cardinality(before(u)) \in Nat /\ Cardinality(before(v)) \in Nat
      BY <2>3, FS_CardinalityType
    <2>7. Place(u, T) = 1 + Cardinality(before(u)) /\ Place(v, T) = 1 + Cardinality(before(v))
      BY DEF Place
    <2> HIDE DEF before
    <2>8. QED
      BY <2>5, <2>6, <2>7
  <1>2. Place(s, T) \in Nat /\ Place(t, T) \in Nat
    <2>1. IsFiniteSet(T)
      BY DEF Numbered
    <2>2. Cardinality(T) \in Nat
      BY <2>1, FS_CardinalityType
    <2>3. QED
      BY <2>2, PlacesAreInRange
  <1>3. s.id \in Nat /\ t.id \in Nat /\ (s.id = t.id => s = t)
    BY DEF Numbered
  <1>4. s.id < t.id \/ t.id < s.id \/ s = t
    BY <1>3
  <1>5. QED
    BY <1>1, <1>2, <1>3, <1>4

\* No place stays empty, for there are as many places as rows.
LEMMA PlacesAreTaken ==
  ASSUME NEW T, Numbered(T), NEW n \in 1..Cardinality(T)
  PROVE  \E t \in T : Place(t, T) = n
  <1> DEFINE N == 1..Cardinality(T)
             f == [t \in T |-> Place(t, T)]
  <1>1. IsFiniteSet(T)
    BY DEF Numbered
  <1>2. Cardinality(T) \in Nat
    BY <1>1, FS_CardinalityType
  <1>3. IsFiniteSet(N) /\ Cardinality(N) = Cardinality(T)
    BY <1>2, FS_Interval
  <1>4. f \in [T -> N]
    BY PlacesAreInRange
  <1>5. ASSUME NEW s \in T, NEW t \in T, f[s] = f[t]
        PROVE  s = t
    <2>1. Place(s, T) \in Int /\ Place(t, T) \in Int /\ Place(s, T) = Place(t, T)
      BY <1>2, <1>5, PlacesAreInRange
    <2>2. ~(s.id < t.id) /\ ~(t.id < s.id)
      BY <2>1, PlacesFollowIds
    <2>3. QED
      BY <2>2 DEF Numbered
  <1>6. f \in Injection(T, N)
    BY <1>4, <1>5 DEF Injection, IsInjective
  <1>7. f \in Surjection(T, N)
    BY <1>3, <1>6, FS_Injection
  <1>8. QED
    BY <1>7 DEF Surjection

LEMMA OrderedRows ==
  ASSUME NEW T, Numbered(T)
  PROVE  LET o == Ordered(T) IN
         /\ Cardinality(T) \in Nat /\ DOMAIN o = 1..Cardinality(T)
         /\ \A n \in DOMAIN o : o[n] \in T
         /\ \A m, n \in DOMAIN o : m < n <=> o[m].id < o[n].id
         /\ \A m, n \in DOMAIN o : o[m].id = o[n].id => m = n
         /\ \A t \in T : \E n \in DOMAIN o : o[n] = t
  <1> DEFINE o == Ordered(T)
             k == Cardinality(T)
  <1>1. k \in Nat
    BY FS_CardinalityType DEF Numbered
  <1>2. o = [n \in 1..k |-> CHOOSE t \in T : Place(t, T) = n]
    BY OrderedIs
  <1> HIDE DEF o
  <1>3. \A n \in 1..k : o[n] \in T /\ Place(o[n], T) = n
    BY <1>2, PlacesAreTaken
  <1>4. \A m, n \in 1..k : m < n <=> o[m].id < o[n].id
    BY <1>3, PlacesFollowIds
  <1>5. \A n \in 1..k : o[n].id \in Nat
    BY <1>3 DEF Numbered
  <1>6. \A m, n \in 1..k : o[m].id = o[n].id => m = n
    BY <1>1, <1>4, <1>5
  <1>7. ASSUME NEW t \in T
        PROVE  \E n \in 1..k : o[n] = t
    <2>1. Place(t, T) \in 1..k
      BY PlacesAreInRange
    <2>2. o[Place(t, T)] \in T /\ Place(o[Place(t, T)], T) = Place(t, T)
      BY <1>3, <2>1
    <2>3. ~(o[Place(t, T)].id < t.id) /\ ~(t.id < o[Place(t, T)].id)
      BY <1>1, <2>1, <2>2, PlacesFollowIds
    <2>4. o[Place(t, T)] = t
      BY <2>2, <2>3 DEF Numbered
    <2>5. QED
      BY <2>1, <2>4
  <1>8. QED
    BY <1>1, <1>2, <1>3, <1>4, <1>6, <1>7 DEF o


\* Rows whose identifiers were handed out in turn are in the places of their turns.
LEMMA RowsInTurn ==
  ASSUME NEW k \in Nat, NEW row, NEW T, T = {row[n] : n \in 1..k},
         \A m, n \in 1..k : row[m].id < row[n].id <=> m < n
  PROVE  DOMAIN Ordered(T) = 1..k /\ \A n \in 1..k : Ordered(T)[n] = row[n]
  <1> DEFINE upTo(n) == [m \in 1..n |-> row[m]]
             image(n) == {row[m] : m \in 1..n}
  <1>1. ASSUME NEW n \in 0..k
        PROVE  IsFiniteSet(image(n)) /\ Cardinality(image(n)) = n
    <2>1. IsFiniteSet(1..n) /\ Cardinality(1..n) = n
      <3>1. n \in Nat /\ n - 1 + 1 = n
        OBVIOUS
      <3>2. QED
        BY <3>1, FS_Interval
    <2>2. \A m \in 1..n : m \in 1..k
      OBVIOUS
    <2>3. \A l, m \in 1..n : row[l] = row[m] => l = m
      <3>1. ASSUME NEW l \in 1..n, NEW m \in 1..n, row[l] = row[m]
            PROVE  l = m
        <4>1. ~(l < m) /\ ~(m < l)
          BY <2>2, <3>1
        <4>2. QED
          BY <4>1
      <3>2. QED
        BY <3>1
    <2>4. upTo(n) \in Bijection(1..n, image(n))
      BY <2>3 DEF Bijection, Injection, Surjection, IsInjective
    <2>5. ExistsBijection(1..n, image(n))
      BY <2>4 DEF ExistsBijection
    <2> HIDE DEF image
    <2>6. QED
      BY <2>1, <2>5, FS_Bijection
  <1>2. Cardinality(T) = k
    <2>1. T = image(k) /\ k \in 0..k
      OBVIOUS
    <2> HIDE DEF image
    <2>2. QED
      BY <2>1, <1>1
  <1>3. ASSUME NEW n \in 1..k
        PROVE  Place(row[n], T) = n
    <2> DEFINE before == {t \in T : t.id < row[n].id}
    <2>1. before = image(n - 1)
      <3>1. \A m \in 1..k : row[m].id < row[n].id <=> m \in 1..(n - 1)
        OBVIOUS
      <3>2. \A m \in 1..(n - 1) : m \in 1..k
        OBVIOUS
      <3>3. QED
        BY <3>1, <3>2
    <2>2. n - 1 \in 0..k
      OBVIOUS
    <2>3. Cardinality(image(n - 1)) = n - 1
      BY <2>2, <1>1
    <2>4. Place(row[n], T) = 1 + Cardinality(before)
      BY DEF Place
    <2> HIDE DEF image, before
    <2>5. QED
      BY <2>1, <2>3, <2>4
  <1>4. ASSUME NEW n \in 1..k
        PROVE  (CHOOSE t \in T : Place(t, T) = n) = row[n]
    <2>1. \A t \in T : Place(t, T) = n => t = row[n]
      BY <1>3
    <2>2. row[n] \in T /\ Place(row[n], T) = n
      BY <1>3
    <2>3. QED
      BY <2>1, <2>2
  <1>5. Ordered(T) = [n \in 1..k |-> CHOOSE t \in T : Place(t, T) = n]
    BY <1>2, OrderedIs
  <1>6. QED
    BY <1>4, <1>5


-----------------------------------------------------------------------------
(* What the rows of a ledger refer to, as far as an archive depends on it: a *)
(* reversal to an earlier row that is none, of the opposite amount and not   *)
(* reversed otherwise; a correction to an earlier row whose reversal comes   *)
(* between the two.                                                          *)

ReferencesHold(T) ==
    /\ \A s \in T : s.amount \in Int
    /\ \A s \in T : s.reversalOf # 0 =>
          /\ \E t \in T : /\ t.id = s.reversalOf /\ t.id < s.id
                          /\ t.reversalOf = 0 /\ s.amount = -t.amount
          /\ \A u \in T : u.reversalOf = s.reversalOf => u = s
    /\ \A s \in T : s.corrects # 0 =>
          /\ \E t \in T : t.id = s.corrects /\ t.id < s.id /\ t.reversalOf = 0
          /\ \E u \in T : u.reversalOf = s.corrects /\ u.id < s.id
          /\ \A u \in T : u.corrects = s.corrects => u = s

\* The ref of a row is its place, and 0 refers to none.
LEMMA RefsArePlaces ==
  ASSUME NEW k \in Nat, NEW o, DOMAIN o = 1..k,
         \A n \in 1..k : o[n].id \in Nat \ {0},
         \A m, n \in 1..k : o[m].id = o[n].id => m = n
  PROVE  /\ RefOf(0, o) = 0
         /\ \A n \in 1..k : RefOf(o[n].id, o) = n
  <1>1. {n \in DOMAIN o : o[n].id = 0} = {}
    OBVIOUS
  <1>2. ASSUME NEW n \in 1..k
        PROVE  RefOf(o[n].id, o) = n
    <2> DEFINE named == {m \in DOMAIN o : o[m].id = o[n].id}
    <2>1. named = {n}
      OBVIOUS
    <2>2. RefOf(o[n].id, o) = IF named = {} THEN 0 ELSE CHOOSE m \in named : TRUE
      BY DEF RefOf
    <2> HIDE DEF named
    <2>3. QED
      BY <2>1, <2>2
  <1>3. QED
    BY <1>1, <1>2 DEF RefOf

\* An entry says of its row what the row says, by places instead of identifiers.
LEMMA EntriesSayTheRows ==
  ASSUME NEW T, Numbered(T), ReferencesHold(T)
  PROVE  LET o == Ordered(T)
             h == WriteLedger(T)
         IN  /\ DOMAIN h = DOMAIN o
             /\ \A n \in DOMAIN o :
                  /\ h[n] = [ref |-> n, amount |-> o[n].amount,
                             reverses |-> h[n].reverses, corrects |-> h[n].corrects]
                  /\ h[n].ref = n /\ h[n].amount = o[n].amount
                  /\ h[n].reverses = RefOf(o[n].reversalOf, o)
                  /\ h[n].corrects = RefOf(o[n].corrects, o)
                  /\ h[n].reverses \in 0..(n - 1) /\ h[n].corrects \in 0..(n - 1)
                  /\ h[n].reverses = 0 <=> o[n].reversalOf = 0
                  /\ h[n].corrects = 0 <=> o[n].corrects = 0
                  /\ h[n].reverses # 0 => o[n].reversalOf = o[h[n].reverses].id
                  /\ h[n].corrects # 0 => o[n].corrects = o[h[n].corrects].id
  <1> DEFINE o == Ordered(T)
             h == WriteLedger(T)
             k == Cardinality(T)
  <1>1. /\ k \in Nat /\ DOMAIN o = 1..k
        /\ \A n \in 1..k : o[n] \in T
        /\ \A m, n \in 1..k : m < n <=> o[m].id < o[n].id
        /\ \A m, n \in 1..k : o[m].id = o[n].id => m = n
        /\ \A t \in T : \E n \in 1..k : o[n] = t
    BY OrderedRows
  <1>2. h = [n \in DOMAIN o |-> [ref |-> n, amount |-> o[n].amount,
                                 reverses |-> RefOf(o[n].reversalOf, o),
                                 corrects |-> RefOf(o[n].corrects, o)]]
    BY DEF WriteLedger, ToEntry
  <1> HIDE DEF o, h, k
  <1>3. \A n \in 1..k : o[n].id \in Nat \ {0}
    BY <1>1 DEF Numbered
  <1>4. RefOf(0, o) = 0 /\ \A n \in 1..k : RefOf(o[n].id, o) = n
    BY <1>1, <1>3, RefsArePlaces
  <1>5. ASSUME NEW n \in 1..k, NEW id,
               id # 0 => \E t \in T : t.id = id /\ t.id < o[n].id
        PROVE  /\ RefOf(id, o) \in 0..(n - 1)
               /\ RefOf(id, o) = 0 <=> id = 0
               /\ RefOf(id, o) # 0 => id = o[RefOf(id, o)].id
    <2>1. CASE id = 0
      BY <2>1, <1>4
    <2>2. CASE id # 0
      <3>1. PICK t \in T : t.id = id /\ t.id < o[n].id
        BY <2>2, <1>5
      <3>2. PICK m \in 1..k : o[m] = t
        BY <1>1
      <3>3. RefOf(id, o) = m /\ m < n
        BY <3>1, <3>2, <1>1, <1>4
      <3>4. QED
        BY <2>2, <3>1, <3>2, <3>3
    <2>3. QED
      BY <2>1, <2>2
  <1>6. ASSUME NEW n \in 1..k
        PROVE  /\ o[n].reversalOf # 0 => \E t \in T : t.id = o[n].reversalOf /\ t.id < o[n].id
               /\ o[n].corrects # 0 => \E t \in T : t.id = o[n].corrects /\ t.id < o[n].id
    BY <1>1 DEF ReferencesHold
  <1>7. ASSUME NEW n \in 1..k
        PROVE  /\ h[n] = [ref |-> n, amount |-> o[n].amount,
                          reverses |-> h[n].reverses, corrects |-> h[n].corrects]
               /\ h[n].ref = n /\ h[n].amount = o[n].amount
               /\ h[n].reverses = RefOf(o[n].reversalOf, o)
               /\ h[n].corrects = RefOf(o[n].corrects, o)
    BY <1>1, <1>2
  <1>8. DOMAIN h = DOMAIN o
    BY <1>2
  <1>9. ASSUME NEW n \in 1..k
        PROVE  /\ h[n].reverses \in 0..(n - 1) /\ h[n].corrects \in 0..(n - 1)
               /\ h[n].reverses = 0 <=> o[n].reversalOf = 0
               /\ h[n].corrects = 0 <=> o[n].corrects = 0
               /\ h[n].reverses # 0 => o[n].reversalOf = o[h[n].reverses].id
               /\ h[n].corrects # 0 => o[n].corrects = o[h[n].corrects].id
    <2>1. h[n].reverses = RefOf(o[n].reversalOf, o) /\ h[n].corrects = RefOf(o[n].corrects, o)
      BY <1>7
    <2>2. /\ RefOf(o[n].reversalOf, o) \in 0..(n - 1)
          /\ RefOf(o[n].reversalOf, o) = 0 <=> o[n].reversalOf = 0
          /\ RefOf(o[n].reversalOf, o) # 0 => o[n].reversalOf = o[RefOf(o[n].reversalOf, o)].id
      BY <1>5, <1>6
    <2>3. /\ RefOf(o[n].corrects, o) \in 0..(n - 1)
          /\ RefOf(o[n].corrects, o) = 0 <=> o[n].corrects = 0
          /\ RefOf(o[n].corrects, o) # 0 => o[n].corrects = o[RefOf(o[n].corrects, o)].id
      BY <1>5, <1>6
    <2>4. QED
      BY <2>1, <2>2, <2>3
  <1>10. QED
    BY <1>1, <1>7, <1>8, <1>9 DEF o, h


\* What an export writes of such a table, an import takes for written by the program.
LEMMA WrittenIsWritable ==
  ASSUME NEW T, Numbered(T), ReferencesHold(T)
  PROVE  WritableHistory(WriteLedger(T))
  <1> DEFINE o == Ordered(T)
             h == WriteLedger(T)
             k == Cardinality(T)
  <1>1. /\ k \in Nat /\ DOMAIN o = 1..k /\ DOMAIN h = 1..k
        /\ \A n \in 1..k : o[n] \in T
        /\ \A m, n \in 1..k : m < n <=> o[m].id < o[n].id
        /\ \A m, n \in 1..k : o[m].id = o[n].id => m = n
        /\ \A t \in T : \E n \in 1..k : o[n] = t
    <2>1. DOMAIN h = DOMAIN o
      BY EntriesSayTheRows
    <2> HIDE DEF h
    <2>2. QED
      BY <2>1, OrderedRows
  <1>2. \A n \in DOMAIN o :
          /\ h[n].ref = n /\ h[n].amount = o[n].amount
          /\ h[n].reverses \in 0..(n - 1) /\ h[n].corrects \in 0..(n - 1)
          /\ h[n].reverses = 0 <=> o[n].reversalOf = 0
          /\ h[n].corrects = 0 <=> o[n].corrects = 0
          /\ h[n].reverses # 0 => o[n].reversalOf = o[h[n].reverses].id
          /\ h[n].corrects # 0 => o[n].corrects = o[h[n].corrects].id
    BY EntriesSayTheRows
  <1> HIDE DEF o, h, k
  <1>3. ASSUME NEW n \in 1..k
        PROVE  /\ h[n].reverses \in 0..(n - 1) /\ h[n].corrects \in 0..(n - 1)
               /\ h[n].reverses = 0 <=> o[n].reversalOf = 0
               /\ h[n].corrects = 0 <=> o[n].corrects = 0
               /\ h[n].reverses # 0 => o[n].reversalOf = o[h[n].reverses].id
               /\ h[n].corrects # 0 => o[n].corrects = o[h[n].corrects].id
    BY <1>1, <1>2
  <1>4. \A n \in 1..k : o[n].id \in Nat \ {0}
    BY <1>1 DEF Numbered
  <1>5. ASSUME NEW n \in 1..k, NEW m \in 1..k, m < n
        PROVE  m \in Before(n, m, h)
    BY <1>1, <1>2, <1>5 DEF Before
  <1>6. ASSUME NEW n \in 1..k
        PROVE  Before(n, h[n].ref, h) = {}
    <2>1. \A m \in 1..(n - 1) : m \in 1..k /\ m # n
      BY <1>1
    <2>2. \A m \in 1..k : h[m].ref = m
      BY <1>1, <1>2
    <2>3. \A m \in 1..(n - 1) : h[m].ref # h[n].ref
      BY <2>1, <2>2
    <2>4. QED
      BY <2>3 DEF Before
  <1>7. ASSUME NEW n \in 1..k
        PROVE  ClaimReversal(n, h)
    <2> SUFFICES ASSUME h[n].reverses # 0
                 PROVE  /\ \E m \in Before(n, h[n].reverses, h) :
                              h[m].reverses = 0 /\ h[n].amount = -h[m].amount
                        /\ \A m \in 1..(n - 1) : h[m].reverses # h[n].reverses
      BY DEF ClaimReversal
    <2> DEFINE m == h[n].reverses
    <2>1. m \in 1..k /\ m < n /\ o[n].reversalOf = o[m].id /\ o[n].reversalOf # 0
      <3>1. /\ m \in 0..(n - 1) /\ m # 0 /\ (m = 0 <=> o[n].reversalOf = 0)
            /\ (m # 0 => o[n].reversalOf = o[m].id)
        BY <1>3
      <3> HIDE DEF m
      <3>2. QED
        BY <1>1, <3>1
    <2>2. PICK t \in T : /\ t.id = o[n].reversalOf /\ t.reversalOf = 0
                         /\ o[n].amount = -t.amount
      BY <1>1, <2>1 DEF ReferencesHold
    <2>3. PICK j \in 1..k : o[j] = t
      BY <1>1
    <2>4. t = o[m]
      BY <1>1, <2>1, <2>2, <2>3
    <2>5. h[m].reverses = 0 /\ h[n].amount = -h[m].amount
      BY <1>1, <1>2, <1>3, <2>1, <2>2, <2>4
    <2>6. ASSUME NEW l \in 1..(n - 1), h[l].reverses = m
          PROVE  FALSE
      <3>1. l \in 1..k /\ l < n
        BY <1>1
      <3>2. o[l].reversalOf = o[n].reversalOf
        BY <1>3, <2>1, <2>6, <3>1
      <3>3. o[l] = o[n]
        BY <1>1, <2>1, <3>1, <3>2 DEF ReferencesHold
      <3>4. QED
        BY <1>1, <3>1, <3>3
    <2>7. QED
      BY <1>5, <2>1, <2>5, <2>6
  <1>8. ASSUME NEW n \in 1..k
        PROVE  ClaimCorrection(n, h)
    <2> SUFFICES ASSUME h[n].corrects # 0
                 PROVE  /\ \E m \in Before(n, h[n].corrects, h) : h[m].reverses = 0
                        /\ \E m \in 1..n : h[m].reverses = h[n].corrects
                        /\ \A m \in 1..(n - 1) : h[m].corrects # h[n].corrects
      BY DEF ClaimCorrection
    <2> DEFINE m == h[n].corrects
    <2>1. m \in 1..k /\ m < n /\ o[n].corrects = o[m].id /\ o[n].corrects # 0
      <3>1. /\ m \in 0..(n - 1) /\ m # 0 /\ (m = 0 <=> o[n].corrects = 0)
            /\ (m # 0 => o[n].corrects = o[m].id)
        BY <1>3
      <3> HIDE DEF m
      <3>2. QED
        BY <1>1, <3>1
    <2>2. PICK t \in T : t.id = o[n].corrects /\ t.reversalOf = 0
      BY <1>1, <2>1 DEF ReferencesHold
    <2>3. PICK j \in 1..k : o[j] = t
      BY <1>1
    <2>4. t = o[m]
      BY <1>1, <2>1, <2>2, <2>3
    <2>5. h[m].reverses = 0
      BY <1>3, <2>1, <2>2, <2>4
    <2>6. PICK u \in T : u.reversalOf = o[n].corrects /\ u.id < o[n].id
      BY <1>1, <2>1 DEF ReferencesHold
    <2>7. PICK i \in 1..k : o[i] = u
      BY <1>1
    <2>8. i < n /\ h[i].reverses = m
      <3>1. i < n
        BY <1>1, <2>6, <2>7
      <3>2. o[i].reversalOf = o[m].id /\ o[i].reversalOf # 0
        BY <2>1, <2>6, <2>7
      <3>3. /\ h[i].reverses \in 0..(i - 1) /\ h[i].reverses # 0
            /\ o[h[i].reverses].id = o[m].id
        BY <1>3, <3>2
      <3>4. h[i].reverses \in 1..k
        BY <1>1, <3>3
      <3>5. QED
        BY <1>1, <2>1, <3>1, <3>3, <3>4
    <2>9. ASSUME NEW l \in 1..(n - 1), h[l].corrects = m
          PROVE  FALSE
      <3>1. l \in 1..k /\ l < n
        BY <1>1
      <3>2. o[l].corrects = o[n].corrects
        BY <1>3, <2>1, <2>9, <3>1
      <3>3. o[l] = o[n]
        BY <1>1, <2>1, <3>1, <3>2 DEF ReferencesHold
      <3>4. QED
        BY <1>1, <3>1, <3>3
    <2>10. QED
      BY <1>1, <1>5, <2>1, <2>5, <2>8, <2>9
  <1>9. QED
    BY <1>1, <1>6, <1>7, <1>8 DEF WritableHistory, h


\* An import gives the entries identifiers in a row, from the first one on.
Back(T, first) == AppendHistory(WriteLedger(T), first)

LEMMA RowsComeBack ==
  ASSUME NEW T, Numbered(T), ReferencesHold(T), NEW first \in Nat \ {0}
  PROVE  LET o == Ordered(T)
             h == WriteLedger(T)
             p == Ordered(Back(T, first))
         IN  /\ DOMAIN p = DOMAIN o
             /\ Back(T, first) = {p[n] : n \in DOMAIN p}
             /\ \A n \in DOMAIN o :
                  /\ p[n].id = first - 1 + n
                  /\ p[n].amount = o[n].amount
                  /\ p[n].key = n
                  /\ p[n].reversalOf = IF h[n].reverses = 0 THEN 0
                                       ELSE first - 1 + h[n].reverses
                  /\ p[n].corrects = IF h[n].corrects = 0 THEN 0
                                     ELSE first - 1 + h[n].corrects
  <1> DEFINE o == Ordered(T)
             h == WriteLedger(T)
             k == Cardinality(T)
             row == [n \in 1..k |->
                       [id |-> first - 1 + n, amount |-> h[n].amount, key |-> h[n].ref,
                        reversalOf |-> IdOf(h[n].reverses, h, first),
                        corrects |-> IdOf(h[n].corrects, h, first)]]
  <1>1. k \in Nat /\ DOMAIN o = 1..k
    BY OrderedRows
  <1>2. DOMAIN h = DOMAIN o
    BY EntriesSayTheRows
  <1>3. \A n \in DOMAIN o :
          /\ h[n].ref = n /\ h[n].amount = o[n].amount
          /\ h[n].reverses \in 0..(n - 1) /\ h[n].corrects \in 0..(n - 1)
    BY EntriesSayTheRows
  <1> HIDE DEF o, h, k
  <1>4. ASSUME NEW ref \in 0..k
        PROVE  IdOf(ref, h, first) = IF ref = 0 THEN 0 ELSE first - 1 + ref
    <2> DEFINE named == {n \in DOMAIN h : h[n].ref = ref}
    <2>1. IdOf(ref, h, first) =
            IF ref = 0 THEN 0 ELSE first - 1 + (CHOOSE n \in named : TRUE)
      BY DEF IdOf
    <2>2. ref # 0 => named = {ref}
      BY <1>1, <1>2, <1>3
    <2> HIDE DEF named
    <2>3. QED
      BY <2>1, <2>2
  <1>5. Back(T, first) = {row[n] : n \in 1..k}
    <2>1. Back(T, first) =
            {[id |-> first - 1 + n, amount |-> h[n].amount, key |-> h[n].ref,
              reversalOf |-> IdOf(h[n].reverses, h, first),
              corrects |-> IdOf(h[n].corrects, h, first)] : n \in 1..k}
      BY <1>1, <1>2 DEF Back, AppendHistory, h
    <2>2. QED
      BY <2>1
  <1>6. \A n \in 1..k : row[n].id = first - 1 + n
    OBVIOUS
  <1>7. /\ DOMAIN Ordered(Back(T, first)) = 1..k
        /\ \A n \in 1..k : Ordered(Back(T, first))[n] = row[n]
    <2> HIDE DEF row
    <2>1. \A m, n \in 1..k : row[m].id < row[n].id <=> m < n
      BY <1>1, <1>6
    <2>2. QED
      BY <1>1, <1>5, <2>1, RowsInTurn
  <1>8. ASSUME NEW n \in 1..k
        PROVE  /\ row[n].id = first - 1 + n
               /\ row[n].amount = o[n].amount
               /\ row[n].key = n
               /\ row[n].reversalOf = IF h[n].reverses = 0 THEN 0
                                      ELSE first - 1 + h[n].reverses
               /\ row[n].corrects = IF h[n].corrects = 0 THEN 0
                                    ELSE first - 1 + h[n].corrects
    <2>1. h[n].reverses \in 0..k /\ h[n].corrects \in 0..k
      <3>1. /\ h[n].reverses \in 0..(n - 1) /\ h[n].corrects \in 0..(n - 1)
        BY <1>1, <1>3
      <3>2. \A m \in 0..(n - 1) : m \in 0..k
        BY <1>1
      <3>3. QED
        BY <3>1, <3>2
    <2>2. /\ row[n].reversalOf = IdOf(h[n].reverses, h, first)
          /\ row[n].corrects = IdOf(h[n].corrects, h, first)
          /\ row[n].id = first - 1 + n
          /\ row[n].amount = h[n].amount
          /\ row[n].key = h[n].ref
      OBVIOUS
    <2>3. /\ IdOf(h[n].reverses, h, first) = IF h[n].reverses = 0 THEN 0
                                             ELSE first - 1 + h[n].reverses
          /\ IdOf(h[n].corrects, h, first) = IF h[n].corrects = 0 THEN 0
                                             ELSE first - 1 + h[n].corrects
      BY <2>1, <1>4
    <2> HIDE DEF row
    <2>4. QED
      BY <1>1, <1>3, <2>2, <2>3
  <1> DEFINE p == Ordered(Back(T, first))
  <1> HIDE DEF row, p
  <1>9. DOMAIN p = 1..k /\ \A n \in 1..k : p[n] = row[n]
    BY <1>7 DEF p
  <1>10. Back(T, first) = {p[n] : n \in DOMAIN p}
    BY <1>5, <1>9
  <1>11. \A n \in DOMAIN o :
           /\ p[n].id = first - 1 + n
           /\ p[n].amount = o[n].amount
           /\ p[n].key = n
           /\ p[n].reversalOf = IF h[n].reverses = 0 THEN 0 ELSE first - 1 + h[n].reverses
           /\ p[n].corrects = IF h[n].corrects = 0 THEN 0 ELSE first - 1 + h[n].corrects
    BY <1>1, <1>8, <1>9
  <1>12. QED
    BY <1>1, <1>9, <1>10, <1>11 DEF o, h, p

\* The rows of the place the ledger comes back to: the same lines, none refused by the
\* tables, and the same archive again.
LEMMA LedgerComesBack ==
  ASSUME NEW T, Numbered(T), ReferencesHold(T), NEW first \in Nat \ {0}
  PROVE  ComesBackAs(T, Back(T, first))
  <1> DEFINE o == Ordered(T)
             h == WriteLedger(T)
             k == Cardinality(T)
             B == Back(T, first)
             p == Ordered(B)
  <1>1. /\ k \in Nat /\ DOMAIN o = 1..k
        /\ \A n \in 1..k : o[n] \in T
        /\ \A m, n \in 1..k : o[m].id = o[n].id => m = n
        /\ \A t \in T : \E n \in 1..k : o[n] = t
    BY OrderedRows
  <1>2. DOMAIN h = DOMAIN o
    BY EntriesSayTheRows
  <1>3. \A n \in DOMAIN o :
          /\ h[n] = [ref |-> n, amount |-> o[n].amount,
                     reverses |-> h[n].reverses, corrects |-> h[n].corrects]
          /\ h[n].ref = n /\ h[n].amount = o[n].amount
          /\ h[n].reverses = RefOf(o[n].reversalOf, o)
          /\ h[n].corrects = RefOf(o[n].corrects, o)
          /\ h[n].reverses \in 0..(n - 1) /\ h[n].corrects \in 0..(n - 1)
          /\ h[n].reverses = 0 <=> o[n].reversalOf = 0
          /\ h[n].corrects = 0 <=> o[n].corrects = 0
          /\ h[n].reverses # 0 => o[n].reversalOf = o[h[n].reverses].id
          /\ h[n].corrects # 0 => o[n].corrects = o[h[n].corrects].id
    BY EntriesSayTheRows
  <1>4. DOMAIN p = DOMAIN o /\ B = {p[n] : n \in DOMAIN p}
    BY RowsComeBack
  <1>5. \A n \in DOMAIN o :
          /\ p[n].id = first - 1 + n
          /\ p[n].amount = o[n].amount
          /\ p[n].key = n
          /\ p[n].reversalOf = IF h[n].reverses = 0 THEN 0 ELSE first - 1 + h[n].reverses
          /\ p[n].corrects = IF h[n].corrects = 0 THEN 0 ELSE first - 1 + h[n].corrects
    BY RowsComeBack
  <1>6. /\ WriteLedger(B) = [n \in DOMAIN p |->
                              [ref |-> n, amount |-> p[n].amount,
                               reverses |-> RefOf(p[n].reversalOf, p),
                               corrects |-> RefOf(p[n].corrects, p)]]
        /\ h = [n \in DOMAIN o |->
                              [ref |-> n, amount |-> o[n].amount,
                               reverses |-> RefOf(o[n].reversalOf, o),
                               corrects |-> RefOf(o[n].corrects, o)]]
    BY DEF WriteLedger, ToEntry
  <1>7. /\ Lines(B) = [n \in DOMAIN p |->
                        [amount |-> p[n].amount,
                         isReversed |-> p[n].id \in ReversedIds(B),
                         reversal |-> RefOf(p[n].reversalOf, p),
                         restates |-> RefOf(p[n].corrects, p)]]
        /\ Lines(T) = [n \in DOMAIN o |->
                        [amount |-> o[n].amount,
                         isReversed |-> o[n].id \in ReversedIds(T),
                         reversal |-> RefOf(o[n].reversalOf, o),
                         restates |-> RefOf(o[n].corrects, o)]]
    BY DEF Lines
  <1> HIDE DEF o, h, k, B, p
  <1>8. /\ RefOf(0, p) = 0
        /\ \A n \in 1..k : RefOf(p[n].id, p) = n
    <2>1. \A n \in 1..k : p[n].id \in Nat \ {0}
      BY <1>1, <1>5
    <2>2. \A m, n \in 1..k : p[m].id = p[n].id => m = n
      <3>1. ASSUME NEW m \in 1..k, NEW n \in 1..k, p[m].id = p[n].id
            PROVE  m = n
        <4>1. first - 1 + m = first - 1 + n
          BY <1>1, <1>5, <3>1
        <4>2. QED
          BY <1>1, <4>1
      <3>2. QED
        BY <3>1
    <2>3. QED
      BY <1>1, <1>4, <2>1, <2>2, RefsArePlaces
  <1>9. ASSUME NEW n \in 1..k
        PROVE  h[n].reverses \in 0..k /\ h[n].corrects \in 0..k
    <2>1. \A m \in 0..(n - 1) : m \in 0..k
      BY <1>1
    <2>2. QED
      BY <1>1, <1>3, <2>1
  <1>10. ASSUME NEW ref \in 0..k
         PROVE  RefOf(IF ref = 0 THEN 0 ELSE first - 1 + ref, p) = ref
    <2>1. CASE ref = 0
      BY <2>1, <1>8
    <2>2. CASE ref # 0
      <3>1. ref \in 1..k
        BY <1>1, <2>2
      <3>2. p[ref].id = first - 1 + ref /\ RefOf(p[ref].id, p) = ref
        BY <1>1, <1>5, <1>8, <3>1
      <3>3. QED
        BY <2>2, <3>2
    <2>3. QED
      BY <2>1, <2>2
  <1>11. ASSUME NEW n \in 1..k
         PROVE  /\ RefOf(p[n].reversalOf, p) = RefOf(o[n].reversalOf, o)
                /\ RefOf(p[n].corrects, p) = RefOf(o[n].corrects, o)
    <2>1. /\ h[n].reverses = RefOf(o[n].reversalOf, o)
          /\ h[n].corrects = RefOf(o[n].corrects, o)
      BY <1>1, <1>3
    <2>2. /\ p[n].reversalOf = IF h[n].reverses = 0 THEN 0 ELSE first - 1 + h[n].reverses
          /\ p[n].corrects = IF h[n].corrects = 0 THEN 0 ELSE first - 1 + h[n].corrects
      BY <1>1, <1>5
    <2>3. /\ RefOf(p[n].reversalOf, p) = h[n].reverses
          /\ RefOf(p[n].corrects, p) = h[n].corrects
      BY <2>2, <1>9, <1>10
    <2>4. QED
      BY <2>1, <2>3
  <1>12. WriteLedger(B) = h
    <2> DEFINE entry(n) == [ref |-> n, amount |-> o[n].amount,
                            reverses |-> RefOf(o[n].reversalOf, o),
                            corrects |-> RefOf(o[n].corrects, o)]
               again(n) == [ref |-> n, amount |-> p[n].amount,
                            reverses |-> RefOf(p[n].reversalOf, p),
                            corrects |-> RefOf(p[n].corrects, p)]
    <2>1. \A n \in 1..k : again(n) = entry(n)
      BY <1>1, <1>5, <1>11
    <2>2. h = [n \in 1..k |-> entry(n)] /\ WriteLedger(B) = [n \in 1..k |-> again(n)]
      BY <1>1, <1>4, <1>6
    <2> HIDE DEF entry, again
    <2>3. QED
      BY <2>1, <2>2
  <1>13. ASSUME NEW n \in 1..k
         PROVE  p[n].id \in ReversedIds(B) <=> o[n].id \in ReversedIds(T)
    <2>1. o[n].id \in Nat \ {0} /\ p[n].id \in Nat \ {0}
      BY <1>1, <1>5 DEF Numbered
    <2>2. o[n].id \in ReversedIds(T) <=> \E m \in 1..k : o[m].reversalOf = o[n].id
      BY <1>1, <2>1 DEF ReversedIds
    <2>3. p[n].id \in ReversedIds(B) <=> \E m \in 1..k : p[m].reversalOf = p[n].id
      BY <1>1, <1>4, <2>1 DEF ReversedIds
    <2>4. ASSUME NEW m \in 1..k
          PROVE  o[m].reversalOf = o[n].id <=> h[m].reverses = n
      <3>1. /\ h[m].reverses \in 0..k
            /\ h[m].reverses = 0 <=> o[m].reversalOf = 0
            /\ h[m].reverses # 0 => o[m].reversalOf = o[h[m].reverses].id
        BY <1>1, <1>3, <1>9
      <3>2. QED
        BY <3>1, <2>1, <1>1
    <2>5. ASSUME NEW m \in 1..k
          PROVE  p[m].reversalOf = p[n].id <=> h[m].reverses = n
      <3>1. /\ h[m].reverses \in 0..k
            /\ p[m].reversalOf = IF h[m].reverses = 0 THEN 0 ELSE first - 1 + h[m].reverses
            /\ p[n].id = first - 1 + n
        BY <1>1, <1>5, <1>9
      <3>2. QED
        BY <3>1, <2>1, <1>1
    <2>6. QED
      BY <2>2, <2>3, <2>4, <2>5
  <1>14. Lines(B) = Lines(T)
    BY <1>1, <1>4, <1>5, <1>7, <1>11, <1>13
  <1>15. ASSUME NEW m \in 1..k, NEW n \in 1..k,
                \/ p[m].key = p[n].key
                \/ p[m].reversalOf # 0 /\ p[m].reversalOf = p[n].reversalOf
                \/ p[m].corrects # 0 /\ p[m].corrects = p[n].corrects
         PROVE  m = n
    <2>1. /\ h[m].reverses \in 0..k /\ h[n].reverses \in 0..k
          /\ h[m].corrects \in 0..k /\ h[n].corrects \in 0..k
      BY <1>9
    <2>2. CASE p[m].key = p[n].key
      BY <2>2, <1>1, <1>5
    <2>3. CASE p[m].reversalOf # 0 /\ p[m].reversalOf = p[n].reversalOf
      <3>1. h[m].reverses # 0 /\ h[m].reverses = h[n].reverses
        <4>1. /\ p[m].reversalOf = IF h[m].reverses = 0 THEN 0 ELSE first - 1 + h[m].reverses
              /\ p[n].reversalOf = IF h[n].reverses = 0 THEN 0 ELSE first - 1 + h[n].reverses
          BY <1>1, <1>5
        <4>2. QED
          BY <4>1, <2>1, <2>3, <1>1
      <3>2. o[m].reversalOf # 0 /\ o[m].reversalOf = o[n].reversalOf
        <4>1. /\ h[m].reverses = 0 <=> o[m].reversalOf = 0
              /\ h[m].reverses # 0 => o[m].reversalOf = o[h[m].reverses].id
              /\ h[n].reverses # 0 => o[n].reversalOf = o[h[n].reverses].id
          BY <1>1, <1>3
        <4>2. QED
          BY <3>1, <4>1
      <3>3. o[m] = o[n]
        BY <3>2, <1>1 DEF ReferencesHold
      <3>4. QED
        BY <3>3, <1>1
    <2>4. CASE p[m].corrects # 0 /\ p[m].corrects = p[n].corrects
      <3>1. h[m].corrects # 0 /\ h[m].corrects = h[n].corrects
        <4>1. /\ p[m].corrects = IF h[m].corrects = 0 THEN 0 ELSE first - 1 + h[m].corrects
              /\ p[n].corrects = IF h[n].corrects = 0 THEN 0 ELSE first - 1 + h[n].corrects
          BY <1>1, <1>5
        <4>2. QED
          BY <4>1, <2>1, <2>4, <1>1
      <3>2. o[m].corrects # 0 /\ o[m].corrects = o[n].corrects
        <4>1. /\ h[m].corrects = 0 <=> o[m].corrects = 0
              /\ h[m].corrects # 0 => o[m].corrects = o[h[m].corrects].id
              /\ h[n].corrects # 0 => o[n].corrects = o[h[n].corrects].id
          BY <1>1, <1>3
        <4>2. QED
          BY <3>1, <4>1
      <3>3. o[m] = o[n]
        BY <3>2, <1>1 DEF ReferencesHold
      <3>4. QED
        BY <3>3, <1>1
    <2>5. QED
      BY <1>15, <2>2, <2>3, <2>4
  <1>16. Insertable(B)
    BY <1>1, <1>4, <1>15 DEF Insertable
  <1>17. QED
    BY <1>12, <1>14, <1>16 DEF ComesBackAs, B, h


-----------------------------------------------------------------------------
(* Whatever requests have raced, the rows of each ledger refer to each other *)
(* as an archive needs it.  That nothing refers forward does not follow from *)
(* the properties above: it holds because a row is inserted after the one it *)
(* refers to was committed, and a correction after its reversal.             *)

RowsReferBack ==
    \A s \in rows :
        /\ s.reversalOf < s.id /\ s.corrects < s.id
        /\ s.corrects # 0 =>
              /\ \E u \in rows : /\ u.ledger = s.ledger /\ u.reversalOf = s.corrects
                                 /\ u.id < s.id
              /\ \A u \in rows : u.corrects = s.corrects => u = s

LEMMA RemovalRefersBack ==
  ASSUME RowsReferBack, NEW r \in Request, CommitRemove(r)
  PROVE  RowsReferBack'
  BY DEF RowsReferBack, CommitRemove

LEMMA AppendRefersBack ==
  ASSUME LedgerInv, RowsReferBack, NEW r \in Request, CommitAppend(r)
  PROVE  RowsReferBack'
  <1> DEFINE D == slot[r].drafts
  <1> TypeOK /\ RowsWellFormed
    BY DEF LedgerInv
  <1>1. nextId \in Nat \ {0}
    BY DEF TypeOK
  <1>2. \A d \in D : /\ Stored(d, nextId) \in rows'
                     /\ Stored(d, nextId).ledger = d.ledger
                     /\ Stored(d, nextId).reversalOf = d.reversalOf
                     /\ Stored(d, nextId).corrects = d.corrects
                     /\ Stored(d, nextId).id = IF d.corrects = 0 THEN nextId ELSE nextId + 1
    BY <1>1, AppendRows, StoredTyped
  <1>3. \A d \in D : /\ d.reversalOf \in Nat /\ d.corrects \in Nat
                     /\ d.reversalOf < nextId /\ d.corrects < nextId
                     /\ d.corrects # 0 => \A s \in rows : s.corrects # d.corrects
    <2>1. \A d \in D : Admissible(d) /\ d.reversalOf \in Nat /\ d.corrects \in Nat
      BY AppendRows DEF CommitAppend, Draft
    <2>2. \A s \in rows : s.id < nextId
      BY DEF RowsWellFormed
    <2>3. QED
      BY <2>1, <2>2, <1>1 DEF Admissible
  <1>4. \A d \in D : /\ \A e \in D : (d.corrects = 0 <=> e.corrects = 0) => d = e
                     /\ d.corrects # 0 => \E e \in D : /\ e.ledger = d.ledger
                                                       /\ e.reversalOf = d.corrects
                                                       /\ e.corrects = 0
    <2> DEFINE i == slot[r].intent
    <2>1. i \in Intent /\ PlannedFor(i, D)
      BY AppendRows
    <2> HIDE DEF i, D
    <2>2. ASSUME NEW d \in D
          PROVE  /\ \A e \in D : (d.corrects = 0 <=> e.corrects = 0) => d = e
                 /\ d.ledger = i.ledger
                 /\ d.corrects # 0 => /\ d.reversalOf = 0
                                      /\ \E e \in D : e.reversalOf = d.corrects
      BY <2>1, <2>2, PlanFacts
    <2>3. QED
      BY <2>2
  <1>5. ASSUME NEW s \in rows
        PROVE  /\ s.reversalOf < s.id /\ s.corrects < s.id
               /\ s.corrects # 0 =>
                     /\ \E u \in rows' : /\ u.ledger = s.ledger /\ u.reversalOf = s.corrects
                                         /\ u.id < s.id
                     /\ \A u \in rows' : u.corrects = s.corrects => u = s
    <2>1. \A u \in rows' \ rows : s.corrects # 0 => u.corrects # s.corrects
      BY <1>2, <1>3, AppendRows
    <2>2. QED
      BY <2>1, AppendRows DEF RowsReferBack
  <1>6. ASSUME NEW s \in rows' \ rows
        PROVE  /\ s.reversalOf < s.id /\ s.corrects < s.id
               /\ s.corrects # 0 =>
                     /\ \E u \in rows' : /\ u.ledger = s.ledger /\ u.reversalOf = s.corrects
                                         /\ u.id < s.id
                     /\ \A u \in rows' : u.corrects = s.corrects => u = s
    <2>1. PICK d \in D : s = Stored(d, nextId)
      BY AppendRows
    <2>2. s.reversalOf < s.id /\ s.corrects < s.id
      BY <2>1, <1>1, <1>2, <1>3
    <2>3. ASSUME s.corrects # 0
          PROVE  \E u \in rows' : /\ u.ledger = s.ledger /\ u.reversalOf = s.corrects
                                  /\ u.id < s.id
      <3>1. d.corrects # 0
        BY <2>1, <2>3, <1>2
      <3>2. PICK e \in D : e.ledger = d.ledger /\ e.reversalOf = d.corrects /\ e.corrects = 0
        BY <3>1, <1>4
      <3>3. /\ Stored(e, nextId) \in rows'
            /\ Stored(e, nextId).ledger = s.ledger
            /\ Stored(e, nextId).reversalOf = s.corrects
            /\ Stored(e, nextId).id < s.id
        BY <2>1, <3>1, <3>2, <1>1, <1>2
      <3>4. QED
        BY <3>3
    <2>4. ASSUME s.corrects # 0, NEW u \in rows', u.corrects = s.corrects
          PROVE  u = s
      <3>1. u \notin rows
        BY <2>1, <2>4, <1>2, <1>3
      <3>2. PICK e \in D : u = Stored(e, nextId)
        BY <3>1, AppendRows
      <3>3. d = e
        BY <2>1, <2>4, <3>2, <1>2, <1>4
      <3>4. QED
        BY <2>1, <3>2, <3>3
    <2>5. QED
      BY <2>2, <2>3, <2>4
  <1>7. QED
    BY <1>5, <1>6 DEF RowsReferBack

LEMMA RowsAlwaysReferBack == Spec => [](LedgerInv /\ RowsReferBack)
  <1>1. Init => RowsReferBack
    BY DEF Init, RowsReferBack
  <1>2. LedgerInv /\ RowsReferBack /\ [Next]_vars => RowsReferBack'
    <2> SUFFICES ASSUME LedgerInv, RowsReferBack, [Next]_vars
                 PROVE  RowsReferBack'
      OBVIOUS
    <2>1. rows' = rows => RowsReferBack'
      BY DEF RowsReferBack
    <2>2. ASSUME NEW r \in Request, Begin(r)
          PROVE  rows' = rows
      BY <2>2, BeginForms
    <2>3. ASSUME NEW r \in Request, CommitConflict(r) \/ Rollback(r)
          PROVE  rows' = rows
      BY <2>3 DEF CommitConflict, Rollback, Reading
    <2>4. CASE UNCHANGED vars
      BY <2>4, <2>1 DEF vars
    <2>5. QED
      BY <2>1, <2>2, <2>3, <2>4, AppendRefersBack, RemovalRefersBack DEF Next, Commit
  <1>3. QED
    BY <1>1, <1>2, LedgerInvariant, PTL DEF Spec

\* Only finitely many identifiers have been handed out.
LEMMA LedgersAreNumbered ==
  ASSUME LedgerInv, NEW T \in SUBSET rows
  PROVE  Numbered(T)
  <1> TypeOK /\ RowsWellFormed
    BY DEF LedgerInv
  <1> DEFINE f == [t \in T |-> t.id]
  <1>1. \A t \in T : t.id \in Nat \ {0} /\ t.id < nextId
    BY DEF TypeOK, Row, RowsWellFormed
  <1>2. nextId \in Nat
    BY DEF TypeOK
  <1>3. \A s, t \in T : s.id = t.id => s = t
    BY DEF RowsWellFormed
  <1>4. f \in Injection(T, 0..nextId)
    BY <1>1, <1>2, <1>3 DEF Injection, IsInjective
  <1>5. IsFiniteSet(T)
    BY <1>2, <1>4, FS_Interval, FS_Injection
  <1>6. QED
    BY <1>1, <1>3, <1>5 DEF Numbered

LEMMA LedgersReferBack ==
  ASSUME LedgerInv, RowsReferBack, NEW l
  PROVE  ReferencesHold({t \in rows : t.ledger = l})
  <1> DEFINE T == {t \in rows : t.ledger = l}
  <1> TypeOK /\ ReversalsCancel
    BY DEF LedgerInv
  <1>1. \A s \in T : s \in rows /\ s.ledger = l /\ s.amount \in Int
    BY DEF TypeOK, Row
  <1>2. ASSUME NEW s \in T, s.reversalOf # 0
        PROVE  /\ \E t \in T : /\ t.id = s.reversalOf /\ t.id < s.id
                               /\ t.reversalOf = 0 /\ s.amount = -t.amount
               /\ \A u \in T : u.reversalOf = s.reversalOf => u = s
    <2>1. PICK t \in rows : /\ t.id = s.reversalOf /\ t.ledger = s.ledger
                            /\ t.amount = -s.amount /\ t.reversalOf = 0
      BY <1>2 DEF ReversalsCancel, IsReversal
    <2>2. t \in T /\ t.amount \in Int /\ s.amount \in Int
      BY <2>1, <1>1
    <2>3. t.id < s.id
      BY <2>1, <1>2 DEF RowsReferBack
    <2>4. s.amount = -t.amount
      BY <2>1, <2>2
    <2>5. \A u \in T : u.reversalOf = s.reversalOf => u = s
      BY <1>2 DEF ReversalsCancel, IsReversal
    <2>6. QED
      BY <2>1, <2>2, <2>3, <2>4, <2>5
  <1>3. ASSUME NEW s \in T, s.corrects # 0
        PROVE  /\ \E t \in T : t.id = s.corrects /\ t.id < s.id /\ t.reversalOf = 0
               /\ \E u \in T : u.reversalOf = s.corrects /\ u.id < s.id
               /\ \A u \in T : u.corrects = s.corrects => u = s
    <2>1. PICK u \in rows : u.ledger = s.ledger /\ u.reversalOf = s.corrects /\ u.id < s.id
      BY <1>3 DEF RowsReferBack
    <2>2. u \in T
      BY <2>1
    <2>3. PICK t \in T : t.id = u.reversalOf /\ t.reversalOf = 0
      BY <2>1, <2>2, <1>2, <1>3
    <2>4. t.id = s.corrects /\ s.corrects < s.id
      BY <2>1, <2>3 DEF RowsReferBack
    <2>5. \A v \in T : v.corrects = s.corrects => v = s
      BY <1>3 DEF RowsReferBack
    <2>6. QED
      BY <2>1, <2>2, <2>3, <2>4, <2>5
  <1>4. QED
    BY <1>1, <1>2, <1>3 DEF ReferencesHold

(***************************************************************************)
(* At any moment, whatever requests have raced: the archive of a ledger is *)
(* one an import accepts, its rows meet no constraint of the tables, and   *)
(* they read and export as the ledger did, under whatever identifiers they *)
(* are written again (family_archive_writer.py, family_archive_rules.py,   *)
(* import_family.py; ADR-0026).                                           *)
(***************************************************************************)
LedgersComeBack ==
    \A l \in ledgers : LET ledger == {t \in rows : t.ledger = l} IN
        /\ WritableHistory(WriteLedger(ledger))
        /\ \A first \in Nat \ {0} :
              ComesBackAs(ledger, AppendHistory(WriteLedger(ledger), first))

\* What a family exports comes back: ExportsComeBack without the sums.
THEOREM LedgersAlwaysComeBack == Spec => []LedgersComeBack
  <1>1. LedgerInv /\ RowsReferBack => LedgersComeBack
    <2> SUFFICES ASSUME LedgerInv, RowsReferBack, NEW l \in ledgers
                 PROVE  LET ledger == {t \in rows : t.ledger = l} IN
                          /\ WritableHistory(WriteLedger(ledger))
                          /\ \A first \in Nat \ {0} :
                                ComesBackAs(ledger, AppendHistory(WriteLedger(ledger), first))
      BY DEF LedgersComeBack
    <2> DEFINE ledger == {t \in rows : t.ledger = l}
    <2>1. Numbered(ledger) /\ ReferencesHold(ledger)
      BY LedgersAreNumbered, LedgersReferBack
    <2> HIDE DEF ledger
    <2>2. WritableHistory(WriteLedger(ledger))
      BY <2>1, WrittenIsWritable
    <2>3. \A first \in Nat \ {0} : ComesBackAs(ledger, Back(ledger, first))
      BY <2>1, LedgerComesBack
    <2>4. QED
      BY <2>2, <2>3 DEF Back, ledger
  <1>2. QED
    BY <1>1, RowsAlwaysReferBack, PTL
=============================================================================
