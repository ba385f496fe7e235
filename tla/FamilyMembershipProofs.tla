----------------------- MODULE FamilyMembershipProofs -----------------------
(***************************************************************************)
(* Proofs about FamilyMembership, for every number of families, accounts,  *)
(* codes and requests that overlap.                                        *)
(*                                                                         *)
(* The argument: identifiers of participants and codes are never used      *)
(* again, so what a plan knows of a participant or of an open code stays   *)
(* true until that row is gone (Forward, Sound); and a commit that needs   *)
(* the row finds out that it is gone.  While no two requests have been     *)
(* open at the same time, all that a plan saw is still so (Fresh).         *)
(***************************************************************************)
EXTENDS FamilyCalm, TLAPS

-----------------------------------------------------------------------------
(* The inductive invariant.                                                  *)

Issued == {"open", "used", "expired"}

\* Identifiers are handed out in order.
IdsAhead == \A m \in Id : nextId <= m => ~Exists(m)

\* A code that has been issued says what role it brings.
CodesAreWhole ==
    \A c \in Code : code[c].status \in Issued => code[c].role \in {"parent", "child"}

\* A plan for a code tells what the code tells, as long as it is there.
TellsOf(s, c) ==
    /\ code[c].status # "unissued"
    /\ code[c].status \in Issued => /\ code[c].family = s.family
                                    /\ code[c].target = s.id
                                    /\ code[c].role = s.role

\* What a plan names is of the right kind, and is old.
Sound(s) ==
    /\ s.id < nextId
    /\ s.heir < nextId
    /\ s.op \in {"create", "accept", "delete_account"} => s.account \in Account
    /\ s.op \in {"add_child", "invite", "accept", "redeem", "dissolve"} => s.family \in Family
    /\ s.op \in {"leave", "remove", "propose", "withdraw", "approve", "dissolve"} => s.id \in Id
    /\ s.op \in {"revoke", "accept", "redeem"} => s.code \in Code
    /\ s.op \in {"invite", "accept", "redeem"} => s.role \in {"parent", "child"}
    /\ s.op = "leave" => s.heir # s.id
    /\ s.op = "invite" /\ s.id # 0 /\ Exists(s.id) => member[s.id].family = s.family
    /\ s.op \in {"accept", "redeem"} => TellsOf(s, s.code)

PlansSound == \A r \in Request : Sound(slot[r])

FamilyInv ==
    /\ TypeOK
    /\ NothingDangles
    /\ IdsAhead
    /\ CodesAreWhole
    /\ PlansSound

-----------------------------------------------------------------------------
(* What every step of the tables respects: nothing that is gone comes back,  *)
(* nothing that stays belongs to another family than before.                 *)

Forward ==
    /\ nextId <= nextId'
    /\ \A m \in Id : m < nextId /\ Exists(m)' =>
          Exists(m) /\ member'[m].family = member[m].family
    /\ \A c \in Code : code[c].status # "unissued" =>
          /\ code'[c].status # "unissued"
          /\ code'[c].status \in Issued => /\ code[c].status \in Issued
                                           /\ code'[c].family = code[c].family
                                           /\ code'[c].target = code[c].target
                                           /\ code'[c].role = code[c].role

LEMMA MembershipKinds ==
    ASSUME NEW x \in Membership
    PROVE  /\ x # Nobody => /\ x.family \in Family
                            /\ x.account \in Account \cup {NoAccount}
                            /\ x.role \in Role
                            /\ x.proposed \in BOOLEAN
                            /\ x = [family |-> x.family, account |-> x.account, role |-> x.role,
                                    proposed |-> x.proposed]
           /\ x.family \in Family => x # Nobody
           /\ x.account \in Account => x # Nobody
BY FamilyAssumption DEF Membership, Nobody

LEMMA NewMembership ==
    ASSUME NEW f \in Family, NEW a \in Account \cup {NoAccount}, NEW role \in Role
    PROVE  /\ New(f, a, role) \in Membership
           /\ New(f, a, role) # Nobody
           /\ New(f, a, role).family = f
           /\ New(f, a, role).account = a
BY FamilyAssumption DEF New, Membership, Nobody

\* What a plan knows stays true.
LEMMA SoundStays ==
    ASSUME TypeOK, TypeOK', Forward, NEW s \in Slot, Sound(s)
    PROVE  Sound(s)'
<1>1. s.id < nextId' /\ s.heir < nextId'
  BY DEF Sound, TypeOK, Slot, Id, Forward
<1>2. s.op = "invite" /\ s.id # 0 /\ Exists(s.id)' => member'[s.id].family = s.family
  BY DEF Sound, Slot, Forward, Exists
<1>3. s.op \in {"accept", "redeem"} => TellsOf(s, s.code)'
  BY DEF Sound, TellsOf, Forward
<1> QED
  BY <1>1, <1>2, <1>3 DEF Sound

LEMMA IdleSound ==
    ASSUME TypeOK
    PROVE  Idle \in Slot /\ Sound(Idle)
BY DEF TypeOK, Idle, Slot, Sound, Id

\* A request ends: the others keep their plans.
LEMMA FinishKeeps ==
    ASSUME TypeOK, TypeOK', Forward, PlansSound, NEW r \in Request, Finish(r)
    PROVE  PlansSound'
<1>1. \A s \in Slot : Sound(s) => Sound(s)'
  BY SoundStays
<1>2. ASSUME NEW q \in Request
      PROVE  slot'[q] \in Slot /\ Sound(slot'[q])
  <2>1. slot'[q] = IF q = r THEN Idle ELSE slot[q]
    BY DEF Finish, TypeOK
  <2>2. slot[q] \in Slot /\ Sound(slot[q])
    BY DEF TypeOK, PlansSound
  <2> QED
    BY <2>1, <2>2, IdleSound
<1>3. ASSUME NEW q \in Request
      PROVE  Sound(slot[q])'
  BY <1>1, <1>2 DEF Sound, TellsOf, Exists
<1> QED
  BY <1>3 DEF PlansSound

-----------------------------------------------------------------------------
(* What requests decide.                                                     *)

\* A request that decides on a sound plan keeps the invariant.
LEMMA DecideKeeps ==
    ASSUME FamilyInv, NEW r \in Request, \E plan \in Slot : Sound(plan) /\ Decide(r, plan)
    PROVE  FamilyInv'
<1>1. PICK plan \in Slot : Sound(plan) /\ Decide(r, plan)
  OBVIOUS
<1>2. UNCHANGED tables
  BY <1>1 DEF Decide
<1>3. ASSUME NEW q \in Request
      PROVE  slot'[q] \in Slot /\ Sound(slot'[q])
  BY <1>1 DEF FamilyInv, TypeOK, PlansSound, Decide
<1>4. TypeOK'
  <2>1. slot' \in [Request -> Slot]
    BY <1>1 DEF Decide, FamilyInv, TypeOK
  <2> QED
    BY <2>1, <1>2 DEF FamilyInv, TypeOK, tables
<1>5. NothingDangles' /\ IdsAhead' /\ CodesAreWhole'
  BY <1>2 DEF FamilyInv, tables, NothingDangles, IdsAhead, CodesAreWhole, Exists, Linked, Alive,
     MembershipIn, In
<1>6. ASSUME NEW q \in Request
      PROVE  Sound(slot[q])'
  BY <1>2, <1>3 DEF tables, Sound, TellsOf, Exists
<1> QED
  BY <1>4, <1>5, <1>6 DEF FamilyInv, PlansSound

LEMMA FamilyMember ==
    ASSUME FamilyInv, NEW f \in Family, NEW m \in In(f)
    PROVE  m \in Id /\ m < nextId /\ Exists(m) /\ member[m] \in Membership
<1>1. m \in Id /\ member[m].family = f /\ member[m] \in Membership
  BY DEF In, FamilyInv, TypeOK
<1>2. Exists(m)
  BY <1>1, MembershipKinds DEF Exists
<1> QED
  BY <1>1, <1>2 DEF FamilyInv, IdsAhead, TypeOK, Id

\* Plans without a code.
LEMMA PlanSound ==
    ASSUME FamilyInv,
           NEW op \in {"create", "delete_account", "add_child", "leave", "remove", "propose",
                       "withdraw", "approve", "dissolve"},
           NEW f \in Family \cup {NoFamily}, NEW a \in Account \cup {NoAccount},
           NEW m \in Id \cup {0}, NEW h \in Id \cup {0},
           m < nextId, h < nextId,
           op \in {"create", "delete_account"} => a \in Account,
           op \in {"add_child", "dissolve"} => f \in Family,
           op \in {"leave", "remove", "propose", "withdraw", "approve", "dissolve"} => m # 0,
           op = "leave" => h # m,
           NEW plan,
           plan = [op |-> op, family |-> f, account |-> a, id |-> m, heir |-> h,
                   code |-> NoCode, role |-> "none"]
    PROVE  plan \in Slot /\ Sound(plan)
<1>1. plan = [op |-> op, family |-> f, account |-> a, id |-> m, heir |-> h, code |-> NoCode,
              role |-> "none"]
  OBVIOUS
<1>2. plan \in Slot
  BY <1>1 DEF Slot
<1>3. plan.id < nextId /\ plan.heir < nextId
  BY <1>1
<1> QED
  BY <1>1, <1>2, <1>3 DEF Sound

\* Plans with a code.
LEMMA CodePlanSound ==
    ASSUME FamilyInv, NEW op \in {"accept", "redeem"}, NEW c \in Code, Bindable(c),
           NEW a \in Account \cup {NoAccount}, op = "accept" => a \in Account
    PROVE  Joining(op, c, a) \in Slot /\ Sound(Joining(op, c, a))
<1> DEFINE s == Joining(op, c, a)
<1> HIDE DEF s
<1>1. s = [op |-> op, family |-> code[c].family, account |-> a, id |-> code[c].target,
           heir |-> 0, code |-> c, role |-> code[c].role]
  BY DEF s, Joining
<1>2. code[c] \in Invitation /\ code[c].status = "open" /\ code[c].role \in {"parent", "child"}
  BY DEF FamilyInv, TypeOK, Bindable, CodesAreWhole, Issued
<1>3. code[c].family \in Family
  BY <1>2 DEF FamilyInv, TypeOK, NothingDangles
<1>4. code[c].target \in Id \cup {0}
  BY <1>2 DEF Invitation
<1>5. code[c].target < nextId
  <2>1. CASE code[c].target = 0
    BY <2>1 DEF FamilyInv, TypeOK
  <2>2. CASE code[c].target # 0
    BY <2>2, <1>2, <1>3, FamilyMember DEF FamilyInv, NothingDangles
  <2> QED
    BY <2>1, <2>2
<1>6. TellsOf(s, c)
  BY <1>1, <1>2 DEF TellsOf
<1>7. s \in Slot
  BY <1>1, <1>2, <1>3, <1>4 DEF Slot, Role, Id
<1>8. 0 < nextId
  BY DEF FamilyInv, TypeOK
<1>9. Sound(s)
  BY <1>1, <1>2, <1>3, <1>5, <1>6, <1>8 DEF Sound
<1> QED
  BY <1>7, <1>9 DEF s

\* The record a plan is.
Plan(op, f, a, m, h) ==
    [op |-> op, family |-> f, account |-> a, id |-> m, heir |-> h, code |-> NoCode,
     role |-> "none"]

LEMMA BeginAloneKeeps ==
    ASSUME FamilyInv, NEW r \in Request, NEW a \in Account, BeginAlone(r, a)
    PROVE  FamilyInv'
<1>0. 0 < nextId /\ 0 \in Id \cup {0}
  BY DEF FamilyInv, TypeOK
<1>1. CASE BeginCreate(r, a)
  <2>1. PICK x : x = [Idle EXCEPT !.op = "create", !.account = a] /\ Decide(r, x)
    BY <1>1 DEF BeginCreate
  <2>2. x = Plan("create", NoFamily, a, 0, 0)
    BY <2>1 DEF Plan, Idle
  <2>3. x \in Slot /\ Sound(x)
    BY <1>0, <2>2, PlanSound DEF Plan
  <2> QED
    BY <2>1, <2>3, DecideKeeps
<1>2. CASE BeginDeleteAccount(r, a)
  <2>1. PICK x : x = [Idle EXCEPT !.op = "delete_account", !.account = a] /\ Decide(r, x)
    BY <1>2 DEF BeginDeleteAccount
  <2>2. x = Plan("delete_account", NoFamily, a, 0, 0)
    BY <2>1 DEF Plan, Idle
  <2>3. x \in Slot /\ Sound(x)
    BY <1>0, <2>2, PlanSound DEF Plan
  <2> QED
    BY <2>1, <2>3, DecideKeeps
<1>3. CASE \E c \in Code : BeginAccept(r, c, a)
  BY <1>3, CodePlanSound, DecideKeeps DEF BeginAccept
<1> QED
  BY <1>1, <1>2, <1>3 DEF BeginAlone

LEMMA BeginRedeemKeeps ==
    ASSUME FamilyInv, NEW r \in Request, NEW c \in Code, BeginRedeem(r, c)
    PROVE  FamilyInv'
BY CodePlanSound, DecideKeeps DEF BeginRedeem

LEMMA BeginInFamilyKeeps ==
    ASSUME FamilyInv, NEW r \in Request, NEW f \in Family, NEW a \in Account,
           BeginInFamily(r, f, a)
    PROVE  FamilyInv'
<1>0. 0 < nextId /\ 0 \in Id \cup {0}
  BY DEF FamilyInv, TypeOK
<1>1. CASE BeginAddChild(r, f, a)
  <2>1. PICK x : x = [Idle EXCEPT !.op = "add_child", !.family = f] /\ Decide(r, x)
    BY <1>1 DEF BeginAddChild
  <2>2. x = Plan("add_child", f, NoAccount, 0, 0)
    BY <2>1 DEF Plan, Idle
  <2>3. x \in Slot /\ Sound(x)
    BY <1>0, <2>2, PlanSound DEF Plan
  <2> QED
    BY <2>1, <2>3, DecideKeeps
<1>2. CASE BeginLeave(r, f, a)
  <2>1. PICK m \in MembershipIn(f, a) : \E n \in Oldest(Remaining(f, m)) :
            Decide(r, [Idle EXCEPT !.op = "leave", !.id = m,
                                   !.heir = IF Succeeds(n, m) THEN n ELSE 0])
    BY <1>2 DEF BeginLeave
  <2>2. PICK n \in Oldest(Remaining(f, m)) :
            Decide(r, [Idle EXCEPT !.op = "leave", !.id = m,
                                   !.heir = IF Succeeds(n, m) THEN n ELSE 0])
    BY <2>1
  <2> DEFINE h == IF Succeeds(n, m) THEN n ELSE 0
  <2>3. PICK x : x = [Idle EXCEPT !.op = "leave", !.id = m, !.heir = h] /\ Decide(r, x)
    BY <2>2
  <2>4. m \in In(f) /\ n \in In(f) /\ n # m
    BY DEF MembershipIn, Oldest, Remaining
  <2>5. m \in Id /\ m < nextId /\ n \in Id /\ n < nextId
    BY <2>4, FamilyMember
  <2>6. h \in Id \cup {0} /\ h < nextId /\ h # m /\ m # 0
    BY <1>0, <2>4, <2>5 DEF Id
  <2> HIDE DEF h
  <2>7. x = Plan("leave", NoFamily, NoAccount, m, h)
    BY <2>3 DEF Plan, Idle
  <2>8. x \in Slot /\ Sound(x)
    BY <2>5, <2>6, <2>7, PlanSound DEF Plan
  <2> QED
    BY <2>3, <2>8, DecideKeeps
<1>3. CASE BeginApprove(r, f, a)
  <2> DEFINE b == IF accounts[a] = "child" THEN a ELSE NoAccount
  <2>1. PICK m \in MembershipIn(f, a) : Decide(r, Leaving(m, a))
    BY <1>3 DEF BeginApprove
  <2>2. PICK x : x = [Idle EXCEPT !.op = "approve", !.id = m, !.account = b] /\ Decide(r, x)
    BY <2>1 DEF Leaving
  <2>3. m \in Id /\ m < nextId /\ m # 0
    BY FamilyMember DEF MembershipIn, Id
  <2>4. b \in Account \cup {NoAccount}
    OBVIOUS
  <2> HIDE DEF b
  <2>5. x = Plan("approve", NoFamily, b, m, 0)
    BY <2>2 DEF Plan, Idle
  <2>6. x \in Slot /\ Sound(x)
    BY <1>0, <2>3, <2>4, <2>5, PlanSound DEF Plan
  <2> QED
    BY <2>2, <2>6, DecideKeeps
<1>4. CASE BeginDissolve(r, f, a)
  <2>1. PICK m \in MembershipIn(f, a) :
            Decide(r, [Idle EXCEPT !.op = "dissolve", !.family = f, !.id = m])
    BY <1>4 DEF BeginDissolve
  <2>2. PICK x : x = [Idle EXCEPT !.op = "dissolve", !.family = f, !.id = m] /\ Decide(r, x)
    BY <2>1
  <2>3. m \in Id /\ m < nextId /\ m # 0
    BY FamilyMember DEF MembershipIn, Id
  <2>4. x = Plan("dissolve", f, NoAccount, m, 0)
    BY <2>2 DEF Plan, Idle
  <2>5. x \in Slot /\ Sound(x)
    BY <1>0, <2>3, <2>4, PlanSound DEF Plan
  <2> QED
    BY <2>2, <2>5, DecideKeeps
<1>5. ASSUME NEW role \in {"parent", "child"}, NEW t \in Id \cup {0},
             BeginInvite(r, f, a, role, t)
      PROVE  FamilyInv'
  <2>1. PICK x : /\ x = [Idle EXCEPT !.op = "invite", !.family = f, !.role = role, !.id = t]
                 /\ Decide(r, x)
    BY <1>5 DEF BeginInvite
  <2>2. x = [op |-> "invite", family |-> f, account |-> NoAccount, id |-> t, heir |-> 0,
             code |-> NoCode, role |-> role]
    BY <2>1 DEF Idle
  <2>3. t # 0 => t < nextId /\ member[t].family = f
    BY <1>5, FamilyMember DEF BeginInvite, In
  <2>4. t < nextId
    BY <1>0, <2>3
  <2>5. x \in Slot
    BY <2>2 DEF Slot, Role
  <2>6. Sound(x)
    BY <1>0, <2>2, <2>3, <2>4 DEF Sound
  <2> QED
    BY <2>1, <2>5, <2>6, DecideKeeps
<1>6. ASSUME NEW c \in Code, BeginRevoke(r, f, a, c)
      PROVE  FamilyInv'
  <2>1. PICK x : x = [Idle EXCEPT !.op = "revoke", !.code = c] /\ Decide(r, x)
    BY <1>6 DEF BeginRevoke
  <2>2. x = [op |-> "revoke", family |-> NoFamily, account |-> NoAccount, id |-> 0, heir |-> 0,
             code |-> c, role |-> "none"]
    BY <2>1 DEF Idle
  <2>3. x \in Slot
    BY <2>2 DEF Slot, Role
  <2>4. Sound(x)
    BY <1>0, <2>2 DEF Sound
  <2> QED
    BY <2>1, <2>3, <2>4, DecideKeeps
<1>7. ASSUME NEW m \in Id, BeginRemove(r, f, a, m)
      PROVE  FamilyInv'
  <2> DEFINE b == IF member[m].role = "child" THEN member[m].account ELSE NoAccount
  <2>1. PICK x : x = [Idle EXCEPT !.op = "remove", !.id = m, !.account = b] /\ Decide(r, x)
    BY <1>7 DEF BeginRemove
  <2>2. m < nextId /\ m # 0 /\ Exists(m) /\ member[m] \in Membership
    BY <1>7, FamilyMember DEF BeginRemove, Id
  <2>3. b \in Account \cup {NoAccount}
    BY <2>2, MembershipKinds DEF Exists
  <2> HIDE DEF b
  <2>4. x = Plan("remove", NoFamily, b, m, 0)
    BY <2>1 DEF Plan, Idle
  <2>5. x \in Slot /\ Sound(x)
    BY <1>0, <2>2, <2>3, <2>4, PlanSound DEF Plan
  <2> QED
    BY <2>1, <2>5, DecideKeeps
<1>8. ASSUME NEW m \in Id, NEW op \in {"propose", "withdraw"},
             m \in In(f), Decide(r, [Idle EXCEPT !.op = op, !.id = m])
      PROVE  FamilyInv'
  <2>1. PICK x : x = [Idle EXCEPT !.op = op, !.id = m] /\ Decide(r, x)
    BY <1>8
  <2>2. m < nextId /\ m # 0
    BY <1>8, FamilyMember DEF Id
  <2>3. x = Plan(op, NoFamily, NoAccount, m, 0)
    BY <2>1 DEF Plan, Idle
  <2>4. x \in Slot /\ Sound(x)
    BY <1>0, <2>2, <2>3, PlanSound DEF Plan
  <2> QED
    BY <2>1, <2>4, DecideKeeps
<1>9. ASSUME NEW m \in Id, BeginPropose(r, f, a, m) \/ BeginWithdraw(r, f, a, m)
      PROVE  FamilyInv'
  BY <1>8, <1>9 DEF BeginPropose, BeginWithdraw
<1> QED
  BY <1>1, <1>2, <1>3, <1>4, <1>5, <1>6, <1>7, <1>9 DEF BeginInFamily

-----------------------------------------------------------------------------
(* What requests write: deletions and changes of what is there.              *)

\* What a code keeps while it is there.
SameCode(c) ==
    /\ code[c].status \in Issued
    /\ code'[c].family = code[c].family
    /\ code'[c].target = code[c].target
    /\ code'[c].role = code[c].role

\* Nothing is added, and what stays points at what stays.
Shrinking ==
    /\ nextId' = nextId
    /\ \A m \in Id : Exists(m)' =>
          /\ Exists(m)
          /\ member'[m].family = member[m].family
          /\ member'[m].family \in families'
          /\ Linked(m)' => /\ member'[m].account = member[m].account
                           /\ Alive(member[m].account)'
    /\ \A c \in Code : code[c].status # "unissued" => code'[c].status # "unissued"
    /\ \A c \in Code : code'[c].status \in Issued =>
          /\ SameCode(c)
          /\ code[c].family \in families'
          /\ code[c].target # 0 => Exists(code[c].target)'

LEMMA ShrinkingKeeps ==
    ASSUME FamilyInv, TypeOK', Shrinking
    PROVE  NothingDangles' /\ IdsAhead' /\ CodesAreWhole' /\ Forward
<1>1. Forward
  BY DEF Forward, Shrinking, SameCode, FamilyInv, TypeOK
<1>2. IdsAhead'
  BY DEF Shrinking, FamilyInv, IdsAhead
<1>3. CodesAreWhole'
  BY DEF Shrinking, SameCode, FamilyInv, CodesAreWhole
<1>4. ASSUME NEW m \in Id, Exists(m)'
      PROVE  /\ member'[m].family \in families'
             /\ Linked(m)' => Alive(member[m].account)'
             /\ \A n \in MembershipIn(member[m].family, member[m].account)' : Linked(m)' => n = m
  <2>1. ASSUME NEW n \in MembershipIn(member[m].family, member[m].account)', Linked(m)'
        PROVE  n = m
    <3>1. n \in Id /\ member'[n].family = member'[m].family /\ member'[n].account = member'[m].account
      BY <2>1 DEF MembershipIn, In
    <3>2. Exists(n)' /\ Linked(n)'
      <4>1. member'[m] \in Membership /\ member'[n] \in Membership
        BY <3>1 DEF TypeOK
      <4>2. member'[m].family \in Family
        BY <1>4, <4>1, MembershipKinds DEF Exists
      <4> QED
        BY <2>1, <3>1, <4>1, <4>2, MembershipKinds DEF Exists, Linked
    <3>3. n \in MembershipIn(member[m].family, member[m].account) /\ Exists(m) /\ Linked(m)
      BY <1>4, <2>1, <3>1, <3>2 DEF Shrinking, MembershipIn, In, Linked
    <3> QED
      BY <3>3 DEF FamilyInv, NothingDangles
  <2> QED
    BY <1>4, <2>1 DEF Shrinking
<1>5. ASSUME NEW c \in Code, code'[c].status \in Issued
      PROVE  /\ code'[c].family \in families'
             /\ code'[c].target # 0 => code'[c].target \in In(code[c].family)'
  <2>1. SameCode(c) /\ code[c].family \in families'
    BY <1>5 DEF Shrinking
  <2>2. code[c].target # 0 => code[c].target \in In(code[c].family)
    BY <2>1 DEF SameCode, FamilyInv, NothingDangles, Issued
  <2>3. code[c].target # 0 => Exists(code[c].target)'
    BY <1>5 DEF Shrinking
  <2>4. code[c].target # 0 => member'[code[c].target].family = code[c].family
    <3>1. ASSUME code[c].target # 0
          PROVE  code[c].target \in Id /\ Exists(code[c].target)' /\ code'[c].target = code[c].target
      BY <2>1, <2>2, <2>3, <3>1 DEF In, SameCode
    <3> QED
      BY <2>2, <3>1 DEF Shrinking, In, Exists
  <2> QED
    BY <2>1, <2>2, <2>4 DEF SameCode, In
<1>6. NothingDangles'
  BY <1>4, <1>5 DEF NothingDangles, Issued
<1> QED
  BY <1>1, <1>2, <1>3, <1>6

\* The end of a request that leaves the tables in order.
LEMMA CommitKeeps ==
    ASSUME FamilyInv, TypeOK', NothingDangles', IdsAhead', CodesAreWhole', Forward,
           NEW r \in Request, Finish(r)
    PROVE  FamilyInv'
BY FinishKeeps DEF FamilyInv

LEMMA FinishTyped ==
    ASSUME FamilyInv, NEW r \in Request, Finish(r)
    PROVE  slot' \in [Request -> Slot]
BY IdleSound DEF FamilyInv, TypeOK, Finish

LEMMA WithoutFacts ==
    ASSUME FamilyInv, NEW S \in SUBSET Id, NEW A \in SUBSET Account
    PROVE  /\ MembersWithout(S, A) \in [Id -> Membership]
           /\ \A m \in S : MembersWithout(S, A)[m] = Nobody
           /\ \A m \in Id \ S :
                 /\ MembersWithout(S, A)[m] = Nobody <=> member[m] = Nobody
                 /\ MembersWithout(S, A)[m].family = member[m].family
                 /\ MembersWithout(S, A)[m].role = member[m].role
                 /\ MembersWithout(S, A)[m].account =
                       IF member[m].account \in A THEN NoAccount ELSE member[m].account
<1> DEFINE w(m) == IF m \in S THEN Nobody
                   ELSE IF member[m].account \in A THEN [member[m] EXCEPT !.account = NoAccount]
                   ELSE member[m]
<1>1. ASSUME NEW m \in Id
      PROVE  /\ w(m) \in Membership
             /\ m \in S => w(m) = Nobody
             /\ m \notin S => /\ w(m) = Nobody <=> member[m] = Nobody
                              /\ w(m).family = member[m].family
                              /\ w(m).role = member[m].role
                              /\ w(m).account = IF member[m].account \in A THEN NoAccount
                                                ELSE member[m].account
  <2>1. member[m] \in Membership
    BY DEF FamilyInv, TypeOK
  <2>2. CASE m \in S
    BY <2>2 DEF Membership
  <2>3. CASE m \notin S /\ member[m].account \notin A
    BY <2>1, <2>3
  <2>4. CASE m \notin S /\ member[m].account \in A
    <3>1. member[m] # Nobody
      BY <2>1, <2>4, MembershipKinds
    <3>2. PICK f \in Family, a \in Account \cup {NoAccount}, role \in Role, p \in BOOLEAN :
              member[m] = [family |-> f, account |-> a, role |-> role, proposed |-> p]
      BY <2>1, <3>1, MembershipKinds
    <3>3. w(m) = [family |-> f, account |-> NoAccount, role |-> role, proposed |-> p]
      BY <2>4, <3>2
    <3>4. w(m) # Nobody
      BY <3>3, FamilyAssumption DEF Nobody
    <3> QED
      BY <2>4, <3>1, <3>2, <3>3, <3>4 DEF Membership
  <2> QED
    BY <2>2, <2>3, <2>4
<1>2. MembersWithout(S, A) = [m \in Id |-> w(m)]
  BY DEF MembersWithout
<1> HIDE DEF w
<1> QED
  BY <1>1, <1>2

\* Rows S, accounts A and families F are deleted.
LEMMA DeletionKeeps ==
    ASSUME FamilyInv, NEW r \in Request, Finish(r),
           NEW S \in SUBSET Id, NEW A \in SUBSET Account, NEW F \in SUBSET Family,
           nextId' = nextId, founded' = founded, families' = families \ F,
           \A m \in Id : member[m].family \in F => m \in S,
           accounts' \in [Account -> Kind],
           \A a \in Account \ A : Alive(a) => Alive(a)',
           code' = CodesWithout(F, S),
           member' \in [Id -> Membership],
           \A m \in Id : /\ Exists(m)' <=> MembersWithout(S, A)[m] # Nobody
                         /\ member'[m].family = MembersWithout(S, A)[m].family
                         /\ member'[m].account = MembersWithout(S, A)[m].account
    PROVE  FamilyInv'
<1>1. ASSUME NEW c \in Code
      PROVE  /\ code'[c] \in Invitation
             /\ code'[c] = IF code[c].family \in F \/ code[c].target \in S THEN Removed ELSE code[c]
  BY DEF CodesWithout, FamilyInv, TypeOK, Invitation, Removed
<1>2. TypeOK'
  <2>1. code' \in [Code -> Invitation]
    BY <1>1 DEF CodesWithout
  <2> QED
    BY <2>1, FinishTyped DEF FamilyInv, TypeOK
<1>3. ASSUME NEW m \in Id, Exists(m)'
      PROVE  /\ Exists(m) /\ m \notin S
             /\ member'[m].family = member[m].family
             /\ member'[m].family \in families'
             /\ Linked(m)' => /\ member'[m].account = member[m].account
                              /\ Alive(member[m].account)'
  <2>1. m \notin S /\ Exists(m) /\ member'[m].family = member[m].family
        /\ member'[m].account = IF member[m].account \in A THEN NoAccount ELSE member[m].account
    BY <1>3, WithoutFacts DEF Exists
  <2>2. member'[m].family \in families'
    BY <2>1 DEF FamilyInv, NothingDangles
  <2>3. ASSUME Linked(m)'
        PROVE  member'[m].account = member[m].account /\ Alive(member[m].account)'
    <3>1. member'[m].account = member[m].account /\ member[m].account \notin A
          /\ member[m].account # NoAccount
      BY <2>1, <2>3 DEF Linked
    <3>2. member[m].account \in Account /\ Alive(member[m].account)
      <4>1. member[m] \in Membership
        BY DEF FamilyInv, TypeOK
      <4> QED
        BY <2>1, <3>1, <4>1, MembershipKinds DEF Exists, FamilyInv, NothingDangles, Linked
    <3> QED
      BY <3>1, <3>2 DEF Alive
  <2> QED
    BY <2>1, <2>2, <2>3
<1>4. ASSUME NEW c \in Code, code'[c].status \in Issued
      PROVE  /\ SameCode(c)
             /\ code[c].family \in families'
             /\ code[c].target # 0 => Exists(code[c].target)'
  <2>1. code'[c] = code[c] /\ code[c].family \notin F /\ code[c].target \notin S
    BY <1>1, <1>4 DEF Removed, Issued
  <2>2. /\ code[c].family \in families
        /\ code[c].target # 0 => code[c].target \in In(code[c].family)
    BY <1>4, <2>1 DEF FamilyInv, NothingDangles, Issued
  <2>3. ASSUME code[c].target # 0
        PROVE  Exists(code[c].target)'
    <3>1. code[c].family \in Family
      BY <2>2 DEF FamilyInv, TypeOK
    <3>2. code[c].target \in Id /\ Exists(code[c].target)
      BY <2>2, <2>3, <3>1, FamilyMember
    <3> QED
      BY <2>1, <3>2, WithoutFacts DEF Exists
  <2> QED
    BY <1>4, <2>1, <2>2, <2>3 DEF SameCode
<1>5. \A c \in Code : code[c].status # "unissued" => code'[c].status # "unissued"
  BY <1>1 DEF Removed
<1>6. Shrinking
  BY <1>3, <1>4, <1>5 DEF Shrinking
<1> QED
  BY <1>2, <1>6, ShrinkingKeeps, CommitKeeps

LEMMA PlanOf ==
    ASSUME FamilyInv, NEW r \in Request
    PROVE  slot[r] \in Slot /\ Sound(slot[r])
BY DEF FamilyInv, TypeOK, PlansSound

LEMMA CommitLeaveKeeps ==
    ASSUME FamilyInv, NEW r \in Request, CommitLeave(r)
    PROVE  FamilyInv'
<1> DEFINE m == slot[r].id
           h == slot[r].heir
<1>1. m \in Id /\ h # m /\ h \in Id \cup {0} /\ (h # 0 => Exists(h)) /\ Finish(r)
  BY PlanOf DEF CommitLeave, Serving, Sound, Slot
<1>2. /\ member' = [n \in Id |-> IF n = h THEN [MembersWithout({m}, {})[n] EXCEPT !.role = "owner"]
                                ELSE MembersWithout({m}, {})[n]]
      /\ code' = CodesWithout({}, {m})
      /\ UNCHANGED <<accounts, founded, families, nextId>>
  BY DEF CommitLeave
<1> HIDE DEF m, h
<1> DEFINE S == {m}
<1>0. S \in SUBSET Id /\ {} \in SUBSET Account /\ {} \in SUBSET Family
  BY <1>1
<1> DEFINE left == MembersWithout(S, {})
<1>3. /\ left \in [Id -> Membership]
      /\ \A n \in Id : Exists(n) /\ n # m => left[n] # Nobody
  <2>1. \A n \in Id : n # m => n \in Id \ S
    OBVIOUS
  <2> HIDE DEF S
  <2> QED
    BY <1>0, <2>1, WithoutFacts DEF Exists
<1>9. /\ member' = [n \in Id |-> IF n = h THEN [left[n] EXCEPT !.role = "owner"] ELSE left[n]]
      /\ code' = CodesWithout({}, S)
  BY <1>2
<1>8. \A n \in Id : member[n].family \in {} => n \in S
  OBVIOUS
<1> HIDE DEF left, S
<1>4. ASSUME NEW n \in Id
      PROVE  /\ member'[n] \in Membership
             /\ Exists(n)' <=> left[n] # Nobody
             /\ member'[n].family = left[n].family
             /\ member'[n].account = left[n].account
  <2>1. CASE n # h
    BY <1>3, <1>9, <2>1 DEF Exists
  <2>2. CASE n = h
    <3>1. left[n] # Nobody /\ left[n] \in Membership
      BY <1>1, <1>3, <2>2 DEF Id
    <3>2. PICK f \in Family, a \in Account \cup {NoAccount}, role \in Role, p \in BOOLEAN :
              left[n] = [family |-> f, account |-> a, role |-> role, proposed |-> p]
      BY <3>1, MembershipKinds
    <3>3. member'[n] = [family |-> f, account |-> a, role |-> "owner", proposed |-> p]
      BY <1>9, <2>2, <3>2
    <3>4. member'[n] \in Membership /\ member'[n] # Nobody
      BY <3>3, FamilyAssumption DEF Membership, Nobody, Role
    <3> QED
      BY <3>1, <3>2, <3>3, <3>4 DEF Exists
  <2> QED
    BY <2>1, <2>2
<1>5. member' \in [Id -> Membership]
  BY <1>4, <1>9
<1>6. /\ accounts' \in [Account -> Kind]
      /\ families' = families \ {}
      /\ \A a \in Account \ {} : Alive(a) => Alive(a)'
  BY <1>2 DEF FamilyInv, TypeOK, Alive
<1>7. \A n \in Id : /\ Exists(n)' <=> MembersWithout(S, {})[n] # Nobody
                    /\ member'[n].family = MembersWithout(S, {})[n].family
                    /\ member'[n].account = MembersWithout(S, {})[n].account
  BY <1>4 DEF left
<1>10. Finish(r) /\ nextId' = nextId /\ founded' = founded /\ code' = CodesWithout({}, S)
  BY <1>1, <1>2, <1>9
<1> QED
  BY <1>0, <1>5, <1>6, <1>7, <1>8, <1>10, DeletionKeeps

LEMMA CommitRemoveKeeps ==
    ASSUME FamilyInv, NEW r \in Request, CommitRemove(r)
    PROVE  FamilyInv'
<1> DEFINE S == {slot[r].id}
           A == {slot[r].account} \ {NoAccount}
<1>1. slot[r].id \in Id /\ slot[r].account \in Account \cup {NoAccount} /\ Finish(r)
  BY PlanOf DEF CommitRemove, Serving, Sound, Slot
<1>2. /\ member' = MembersWithout(S, A)
      /\ code' = CodesWithout({}, S)
      /\ UNCHANGED <<founded, families, nextId>>
      /\ accounts' = [b \in Account |-> IF b = slot[r].account THEN "gone" ELSE accounts[b]]
  BY DEF CommitRemove, Deleting
<1>3. S \in SUBSET Id /\ A \in SUBSET Account /\ {} \in SUBSET Family
  BY <1>1
<1>4. /\ accounts' \in [Account -> Kind]
      /\ \A b \in Account \ A : Alive(b) => Alive(b)'
  BY <1>2, FamilyAssumption DEF FamilyInv, TypeOK, Kind, Alive
<1>5. families' = families \ {} /\ \A n \in Id : member[n].family \in {} => n \in S
  BY <1>2
<1> HIDE DEF S, A
<1>6. member' \in [Id -> Membership]
  BY <1>2, <1>3, WithoutFacts
<1>7. \A n \in Id : /\ Exists(n)' <=> MembersWithout(S, A)[n] # Nobody
                    /\ member'[n].family = MembersWithout(S, A)[n].family
                    /\ member'[n].account = MembersWithout(S, A)[n].account
  BY <1>2 DEF Exists
<1> QED
  BY <1>1, <1>2, <1>3, <1>4, <1>5, <1>6, <1>7, DeletionKeeps

LEMMA CommitApproveKeeps ==
    ASSUME FamilyInv, NEW r \in Request, CommitApprove(r)
    PROVE  FamilyInv'
<1> DEFINE S == {slot[r].id}
<1>1. slot[r].id \in Id /\ Finish(r)
  BY PlanOf DEF CommitApprove, Serving, Sound
<1>2. /\ member' = MembersWithout(S, {})
      /\ code' = CodesWithout({}, S)
      /\ UNCHANGED <<founded, families, nextId>>
      /\ accounts' = [a \in Account |-> IF a = slot[r].account THEN "member" ELSE accounts[a]]
  BY DEF CommitApprove
<1>3. S \in SUBSET Id /\ {} \in SUBSET Account /\ {} \in SUBSET Family
  BY <1>1
<1>4. /\ accounts' \in [Account -> Kind]
      /\ \A b \in Account \ {} : Alive(b) => Alive(b)'
  BY <1>2 DEF FamilyInv, TypeOK, Kind, Alive
<1>5. families' = families \ {} /\ \A n \in Id : member[n].family \in {} => n \in S
  BY <1>2
<1> HIDE DEF S
<1>6. member' \in [Id -> Membership]
  BY <1>2, <1>3, WithoutFacts
<1>7. \A n \in Id : /\ Exists(n)' <=> MembersWithout(S, {})[n] # Nobody
                    /\ member'[n].family = MembersWithout(S, {})[n].family
                    /\ member'[n].account = MembersWithout(S, {})[n].account
  BY <1>2 DEF Exists
<1> QED
  BY <1>1, <1>2, <1>3, <1>4, <1>5, <1>6, <1>7, DeletionKeeps

LEMMA CommitDissolveKeeps ==
    ASSUME FamilyInv, NEW r \in Request, CommitDissolve(r)
    PROVE  FamilyInv'
<1> DEFINE f == slot[r].family
           S == In(f) \cup {slot[r].id}
<1>1. f \in Family /\ slot[r].id \in Id /\ Finish(r)
  BY PlanOf DEF CommitDissolve, Serving, Sound
<1>2. /\ member' = MembersWithout(S, {})
      /\ code' = CodesWithout({f}, S)
      /\ families' = families \ {f}
      /\ UNCHANGED <<accounts, founded, nextId>>
  BY DEF CommitDissolve
<1>3. S \in SUBSET Id /\ {} \in SUBSET Account /\ {f} \in SUBSET Family
  BY <1>1 DEF In
<1>4. /\ accounts' \in [Account -> Kind]
      /\ \A b \in Account \ {} : Alive(b) => Alive(b)'
  BY <1>2 DEF FamilyInv, TypeOK, Alive
<1>5. \A n \in Id : member[n].family \in {f} => n \in S
  BY DEF In
<1> HIDE DEF f, S
<1>6. member' \in [Id -> Membership]
  BY <1>2, <1>3, WithoutFacts
<1>7. \A n \in Id : /\ Exists(n)' <=> MembersWithout(S, {})[n] # Nobody
                    /\ member'[n].family = MembersWithout(S, {})[n].family
                    /\ member'[n].account = MembersWithout(S, {})[n].account
  BY <1>2 DEF Exists
<1> QED
  BY <1>1, <1>2, <1>3, <1>4, <1>5, <1>6, <1>7, DeletionKeeps

LEMMA CommitDeleteAccountKeeps ==
    ASSUME FamilyInv, NEW r \in Request, CommitDeleteAccount(r)
    PROVE  FamilyInv'
<1> DEFINE A == {slot[r].account}
<1>1. slot[r].account \in Account /\ Finish(r)
  BY PlanOf DEF CommitDeleteAccount, Serving, Sound
<1>2. /\ member' = MembersWithout({}, A)
      /\ accounts' = [accounts EXCEPT ![slot[r].account] = "gone"]
      /\ UNCHANGED <<founded, families, nextId, code>>
  BY DEF CommitDeleteAccount
<1>3. {} \in SUBSET Id /\ A \in SUBSET Account /\ {} \in SUBSET Family
  BY <1>1
<1>4. /\ accounts' \in [Account -> Kind]
      /\ \A b \in Account \ A : Alive(b) => Alive(b)'
  BY <1>1, <1>2 DEF FamilyInv, TypeOK, Alive, Kind
<1>5. families' = families \ {} /\ \A n \in Id : member[n].family \in {} => n \in {}
  BY <1>2
<1>6. code' = CodesWithout({}, {})
  BY <1>2 DEF CodesWithout, FamilyInv, TypeOK
<1> HIDE DEF A
<1>7. member' \in [Id -> Membership]
  BY <1>2, <1>3, WithoutFacts
<1>8. \A n \in Id : /\ Exists(n)' <=> MembersWithout({}, A)[n] # Nobody
                    /\ member'[n].family = MembersWithout({}, A)[n].family
                    /\ member'[n].account = MembersWithout({}, A)[n].account
  BY <1>2 DEF Exists
<1> QED
  BY <1>1, <1>2, <1>3, <1>4, <1>5, <1>6, <1>7, <1>8, DeletionKeeps

-----------------------------------------------------------------------------
(* What requests write: participants that are new or get an account.         *)

\* Accounts and codes while somebody comes in.
Welcoming ==
    /\ accounts' \in [Account -> Kind]
    /\ \A a \in Account : Alive(a) => Alive(a)'
    /\ code' \in [Code -> Invitation]
    /\ \A c \in Code : /\ code[c].status # "unissued" => code'[c].status # "unissued"
                       /\ code'[c].status \in Issued => SameCode(c)
    /\ families \subseteq families'
    /\ families' \subseteq founded'
    /\ founded' \subseteq Family

LEMMA WelcomingKeeps ==
    ASSUME FamilyInv, NEW r \in Request, Finish(r), Welcoming,
           nextId' \in Nat, nextId <= nextId',
           member' \in [Id -> Membership],
           \A m \in Id : nextId' <= m => ~Exists(m)',
           \A m \in Id : Exists(m) => Exists(m)' /\ member'[m].family = member[m].family,
           \A m \in Id : m < nextId /\ Exists(m)' => Exists(m),
           \A m \in Id : Exists(m)' =>
              /\ member'[m].family \in families'
              /\ Linked(m)' => Alive(member[m].account)'
              /\ \A n \in MembershipIn(member[m].family, member[m].account)' : Linked(m)' => n = m
    PROVE  FamilyInv'
<1>1. TypeOK'
  <2>1. nextId' \in Nat \ {0}
    BY DEF FamilyInv, TypeOK
  <2> QED
    BY <2>1, FinishTyped DEF Welcoming, TypeOK
<1>2. Forward
  BY DEF Forward, Welcoming, SameCode
<1>3. CodesAreWhole'
  BY DEF Welcoming, SameCode, FamilyInv, CodesAreWhole
<1>4. IdsAhead'
  BY DEF IdsAhead
<1>5. ASSUME NEW c \in Code, code'[c].status \in Issued
      PROVE  /\ code'[c].family \in families'
             /\ code'[c].target # 0 => code'[c].target \in In(code[c].family)'
  <2>1. SameCode(c)
    BY <1>5 DEF Welcoming
  <2>2. /\ code[c].family \in families
        /\ code[c].target # 0 => code[c].target \in In(code[c].family)
    BY <2>1 DEF SameCode, FamilyInv, NothingDangles, Issued
  <2>3. code[c].family \in Family
    BY <2>2 DEF FamilyInv, TypeOK
  <2>4. code[c].target # 0 => /\ code[c].target \in Id
                              /\ member'[code[c].target].family = code[c].family
    BY <2>2, <2>3, FamilyMember DEF In
  <2> QED
    BY <2>1, <2>2, <2>4 DEF SameCode, Welcoming, In
<1>6. NothingDangles'
  BY <1>5 DEF NothingDangles, Issued
<1> QED
  BY <1>1, <1>2, <1>3, <1>4, <1>6, CommitKeeps

\* A participant is added.
LEMMA AddingKeeps ==
    ASSUME FamilyInv, NEW r \in Request, Finish(r), Welcoming,
           NEW f \in Family, NEW a \in Account \cup {NoAccount}, NEW role \in Role,
           AddMember(f, a, role), f \in families',
           a # NoAccount => Alive(a)' /\ MembershipIn(f, a) = {}
    PROVE  FamilyInv'
<1>1. nextId \in Id /\ ~Exists(nextId) /\ nextId' = nextId + 1 /\ nextId \in Nat
  BY DEF AddMember, FamilyInv, IdsAhead, TypeOK
<1>2. ASSUME NEW m \in Id
      PROVE  member'[m] = IF m = nextId THEN New(f, a, role) ELSE member[m]
  BY DEF AddMember, FamilyInv, TypeOK
<1>3. New(f, a, role) \in Membership /\ New(f, a, role) # Nobody
      /\ New(f, a, role).family = f /\ New(f, a, role).account = a
  BY NewMembership
<1>4. member' \in [Id -> Membership]
  BY <1>3 DEF AddMember, FamilyInv, TypeOK
<1>5. \A m \in Id : nextId' <= m => ~Exists(m)'
  BY <1>1, <1>2 DEF FamilyInv, IdsAhead, Exists, Id
<1>6. \A m \in Id : /\ Exists(m) => Exists(m)' /\ member'[m].family = member[m].family
                    /\ m < nextId /\ Exists(m)' => Exists(m)
  BY <1>1, <1>2 DEF Exists
<1>7. ASSUME NEW m \in Id, Exists(m)'
      PROVE  /\ member'[m].family \in families'
             /\ Linked(m)' => Alive(member[m].account)'
             /\ \A n \in MembershipIn(member[m].family, member[m].account)' : Linked(m)' => n = m
  <2>1. CASE m = nextId
    <3>1. member'[m].family = f /\ member'[m].account = a
      BY <1>2, <1>3, <2>1
    <3>2. ASSUME NEW n \in MembershipIn(member[m].family, member[m].account)', Linked(m)'
          PROVE  n = m
      <4>1. n \in Id /\ member'[n].family = f /\ member'[n].account = a /\ a # NoAccount
        BY <3>1, <3>2 DEF MembershipIn, In, Linked
      <4>2. n # m => n \in MembershipIn(f, a)
        BY <1>2, <2>1, <4>1 DEF MembershipIn, In
      <4> QED
        BY <4>1, <4>2
    <3>3. Linked(m)' => Alive(member[m].account)'
      BY <3>1 DEF Linked, Alive
    <3> QED
      BY <3>1, <3>2, <3>3
  <2>2. CASE m # nextId
    <3>1. member'[m] = member[m] /\ Exists(m)
      BY <1>2, <1>7, <2>2 DEF Exists
    <3>2. member'[m].family \in families'
      BY <3>1 DEF FamilyInv, NothingDangles, Welcoming
    <3>3. Linked(m)' => member[m].account \in Account /\ Alive(member[m].account)
      <4>1. member[m] \in Membership
        BY DEF FamilyInv, TypeOK
      <4> QED
        BY <3>1, <4>1, MembershipKinds DEF FamilyInv, NothingDangles, Linked, Exists
    <3>4. Linked(m)' => Alive(member[m].account)'
      BY <3>1, <3>3 DEF Welcoming, Alive
    <3>5. ASSUME NEW n \in MembershipIn(member[m].family, member[m].account)', Linked(m)'
          PROVE  n = m
      <4>1. n \in Id /\ member'[n].family = member[m].family /\ member'[n].account = member[m].account
        BY <3>1, <3>5 DEF MembershipIn, In
      <4>2. CASE n = nextId
        <5>1. member[m].family = f /\ member[m].account = a /\ a # NoAccount
          BY <1>2, <1>3, <3>1, <3>5, <4>1, <4>2 DEF Linked
        <5> QED
          BY <5>1 DEF MembershipIn, In
      <4>3. CASE n # nextId
        BY <1>2, <3>1, <3>5, <4>1, <4>3 DEF FamilyInv, NothingDangles, MembershipIn, In, Linked
      <4> QED
        BY <4>2, <4>3
    <3> QED
      BY <3>2, <3>4, <3>5
  <2> QED
    BY <2>1, <2>2
<1> QED
  BY <1>1, <1>4, <1>5, <1>6, <1>7, WelcomingKeeps

\* A participant gets an account.
LEMMA LinkingKeeps ==
    ASSUME FamilyInv, NEW r \in Request, Finish(r), Welcoming,
           NEW f \in Family, NEW a \in Account, NEW t \in In(f),
           member' = [member EXCEPT ![t].account = a], nextId' = nextId,
           Alive(a)', MembershipIn(f, a) = {}
    PROVE  FamilyInv'
<1>1. t \in Id /\ t < nextId /\ Exists(t) /\ member[t] \in Membership /\ member[t].family = f
  BY FamilyMember DEF In
<1>2. PICK b \in Account \cup {NoAccount}, role \in Role, p \in BOOLEAN :
          member[t] = [family |-> f, account |-> b, role |-> role, proposed |-> p]
  BY <1>1, MembershipKinds DEF Exists
<1>3. ASSUME NEW m \in Id
      PROVE  member'[m] = IF m = t THEN [member[t] EXCEPT !.account = a] ELSE member[m]
  BY <1>1 DEF FamilyInv, TypeOK
<1>4. member'[t] = [family |-> f, account |-> a, role |-> role, proposed |-> p]
  BY <1>1, <1>2, <1>3
<1>5. member'[t] \in Membership /\ member'[t] # Nobody
  BY <1>4, FamilyAssumption DEF Membership, Nobody
<1>6. member' \in [Id -> Membership]
  BY <1>1, <1>5 DEF FamilyInv, TypeOK
<1>7. \A m \in Id : /\ Exists(m)' <=> Exists(m)
                    /\ member'[m].family = member[m].family
  BY <1>1, <1>3, <1>4, <1>5 DEF Exists
<1>8. ASSUME NEW m \in Id, Exists(m)'
      PROVE  /\ member'[m].family \in families'
             /\ Linked(m)' => Alive(member[m].account)'
             /\ \A n \in MembershipIn(member[m].family, member[m].account)' : Linked(m)' => n = m
  <2>1. member'[m].family \in families'
    BY <1>7, <1>8 DEF FamilyInv, NothingDangles, Welcoming
  <2>2. Linked(m)' => Alive(member[m].account)'
    <3>1. CASE m = t
      BY <1>4, <3>1 DEF Alive
    <3>2. CASE m # t
      <4>1. member'[m] = member[m] /\ Exists(m) /\ member[m] \in Membership
        BY <1>1, <1>3, <1>7, <1>8, <3>2 DEF FamilyInv, TypeOK
      <4>2. Linked(m)' => member[m].account \in Account /\ Alive(member[m].account)
        BY <4>1, MembershipKinds DEF FamilyInv, NothingDangles, Linked, Exists
      <4> QED
        BY <4>1, <4>2 DEF Welcoming, Alive
    <3> QED
      BY <3>1, <3>2
  <2>3. ASSUME NEW n \in MembershipIn(member[m].family, member[m].account)', Linked(m)', n # m
        PROVE  FALSE
    <3>1. n \in Id /\ member'[n].family = member'[m].family /\ member'[n].account = member'[m].account
      BY <2>3 DEF MembershipIn, In
    <3>2. CASE m = t
      BY <1>3, <1>4, <2>3, <3>1, <3>2 DEF MembershipIn, In
    <3>3. CASE n = t
      BY <1>3, <1>4, <2>3, <3>1, <3>3 DEF MembershipIn, In
    <3>4. CASE m # t /\ n # t
      <4>1. member'[m] = member[m] /\ member'[n] = member[n] /\ Exists(m)
        BY <1>3, <1>7, <1>8, <3>1, <3>4
      <4> QED
        BY <2>3, <3>1, <4>1 DEF FamilyInv, NothingDangles, MembershipIn, In, Linked
    <3> QED
      BY <3>2, <3>3, <3>4
  <2> QED
    BY <2>1, <2>2, <2>3
<1>9. \A m \in Id : nextId' <= m => ~Exists(m)'
  BY <1>7 DEF FamilyInv, IdsAhead
<1>10. nextId' \in Nat /\ nextId <= nextId'
  BY DEF FamilyInv, TypeOK
<1> QED
  BY <1>6, <1>7, <1>8, <1>9, <1>10, WelcomingKeeps

\* consume() and the codes.
LEMMA ConsumeKeepsCodes ==
    ASSUME FamilyInv, NEW c \in Code, Consume(c)
    PROVE  /\ code' \in [Code -> Invitation]
           /\ \A d \in Code : /\ code[d].status # "unissued" => code'[d].status # "unissued"
                              /\ code'[d].status \in Issued => SameCode(d)
           /\ code[c].status = "open" /\ code'[c].status = "used"
<1>1. code[c].status = "open" /\ code' = [code EXCEPT ![c].status = "used"]
  BY DEF Consume
<1>2. code[c] \in Invitation
  BY DEF FamilyInv, TypeOK
<1>3. PICK f \in Family \cup {NoFamily}, role \in {"none", "parent", "child"}, t \in Id \cup {0} :
          code[c] = [status |-> "open", family |-> f, role |-> role, target |-> t]
  BY <1>1, <1>2 DEF Invitation
<1>4. ASSUME NEW d \in Code
      PROVE  code'[d] = IF d = c THEN [code[c] EXCEPT !.status = "used"] ELSE code[d]
  BY <1>1 DEF FamilyInv, TypeOK
<1>5. code'[c] = [status |-> "used", family |-> f, role |-> role, target |-> t]
  BY <1>3, <1>4
<1>6. code'[c] \in Invitation
  BY <1>5 DEF Invitation
<1>7. code' \in [Code -> Invitation]
  BY <1>1, <1>6 DEF FamilyInv, TypeOK
<1>8. \A d \in Code : d # c => code'[d] = code[d]
  BY <1>4
<1> QED
  BY <1>1, <1>3, <1>5, <1>7, <1>8 DEF SameCode, Issued

\* The plan of a request that brings somebody in, when its code is still open.
LEMMA PlanOfJoining ==
    ASSUME FamilyInv, NEW r \in Request, slot[r].op \in {"accept", "redeem"},
           Consume(slot[r].code)
    PROVE  /\ slot[r].code \in Code
           /\ slot[r].family \in Family /\ slot[r].family \in families
           /\ slot[r].role \in Role
           /\ slot[r].id # 0 => slot[r].id \in In(slot[r].family)
           /\ code[slot[r].code].family = slot[r].family
<1>1. /\ slot[r].code \in Code /\ slot[r].family \in Family
      /\ slot[r].role \in {"parent", "child"}
      /\ TellsOf(slot[r], slot[r].code)
  BY PlanOf DEF Sound
<1>2. /\ code[slot[r].code].status = "open"
      /\ code[slot[r].code].family = slot[r].family
      /\ code[slot[r].code].target = slot[r].id
  BY <1>1 DEF TellsOf, Consume, Issued
<1> QED
  BY <1>1, <1>2 DEF FamilyInv, NothingDangles, Role

LEMMA ParticipateKeeps ==
    ASSUME FamilyInv, NEW r \in Request, slot[r].op \in {"accept", "redeem"},
           Consume(slot[r].code), Finish(r), NEW a \in Account, Alive(a)',
           accounts' \in [Account -> Kind], \A b \in Account : Alive(b) => Alive(b)',
           UNCHANGED <<founded, families>>,
           Participate(slot[r].family, a, slot[r].role, slot[r].id)
    PROVE  FamilyInv'
<1> DEFINE f == slot[r].family
           t == slot[r].id
<1>1. /\ f \in Family /\ f \in families /\ slot[r].role \in Role
      /\ slot[r].code \in Code
      /\ t # 0 => t \in In(f)
  BY PlanOfJoining
<1>2. Welcoming
  BY <1>1, ConsumeKeepsCodes DEF Welcoming, FamilyInv, TypeOK
<1>3. MembershipIn(f, a) = {}
  BY DEF Participate
<1>4. a # NoAccount
  BY FamilyAssumption
<1>5. CASE t # 0 /\ member' = [member EXCEPT ![t].account = a] /\ UNCHANGED nextId
  BY <1>1, <1>2, <1>3, <1>5, LinkingKeeps
<1>6. CASE AddMember(f, a, slot[r].role)
  BY <1>1, <1>2, <1>3, <1>6, AddingKeeps
<1> QED
  BY <1>5, <1>6 DEF Participate

LEMMA CommitAcceptKeeps ==
    ASSUME FamilyInv, NEW r \in Request, CommitAccept(r)
    PROVE  FamilyInv'
<1>1. slot[r].op = "accept" /\ slot[r].account \in Account
  BY PlanOf DEF CommitAccept, Serving, Sound
<1>2. /\ accounts' \in [Account -> Kind]
      /\ \A b \in Account : Alive(b) => Alive(b)'
      /\ accounts'[slot[r].account] \in {"child", "member"}
  BY DEF CommitAccept, FamilyInv, TypeOK, Alive
<1>3. PICK a \in Account : a = slot[r].account
  BY <1>1
<1>4. Alive(a)'
  BY <1>2, <1>3 DEF Alive
<1> QED
  BY <1>1, <1>2, <1>3, <1>4, ParticipateKeeps DEF CommitAccept

LEMMA CommitRedeemKeeps ==
    ASSUME FamilyInv, NEW r \in Request, CommitRedeem(r)
    PROVE  FamilyInv'
<1>1. slot[r].op = "redeem"
  BY DEF CommitRedeem, Serving
<1>2. PICK a \in Account :
          /\ accounts[a] = "unborn"
          /\ accounts' = [accounts EXCEPT ![a] = IF slot[r].role = "child" THEN "child"
                                                 ELSE "member"]
          /\ Participate(slot[r].family, a, slot[r].role, slot[r].id)
  BY DEF CommitRedeem
<1>3. /\ accounts' \in [Account -> Kind]
      /\ Alive(a)'
      /\ \A b \in Account : Alive(b) => Alive(b)'
  BY <1>2 DEF FamilyInv, TypeOK, Kind, Alive
<1> QED
  BY <1>1, <1>2, <1>3, ParticipateKeeps DEF CommitRedeem

LEMMA CommitCreateKeeps ==
    ASSUME FamilyInv, NEW r \in Request, CommitCreate(r)
    PROVE  FamilyInv'
<1>1. slot[r].account \in Account /\ Alive(slot[r].account) /\ Finish(r)
  BY PlanOf DEF CommitCreate, Serving, Sound
<1>2. PICK f \in Family \ founded :
          /\ founded' = founded \cup {f}
          /\ families' = families \cup {f}
          /\ AddMember(f, slot[r].account, "owner")
  BY DEF CommitCreate
<1>3. UNCHANGED <<accounts, code>>
  BY DEF CommitCreate
<1>4. Welcoming
  BY <1>2, <1>3 DEF Welcoming, FamilyInv, TypeOK, Alive, SameCode
<1>5. PICK a \in Account : a = slot[r].account
  BY <1>1
<1>6. MembershipIn(f, a) = {}
  <2>1. ASSUME NEW m \in In(f)
        PROVE  FALSE
    <3>1. m \in Id /\ Exists(m) /\ member[m].family = f
      BY FamilyMember DEF In
    <3> QED
      BY <3>1 DEF FamilyInv, NothingDangles, TypeOK
  <2> QED
    BY <2>1 DEF MembershipIn
<1>7. Alive(a)' /\ "owner" \in Role /\ f \in families' /\ f \in Family
  BY <1>1, <1>2, <1>3, <1>5 DEF Alive, Role
<1> QED
  BY <1>1, <1>2, <1>4, <1>5, <1>6, <1>7, AddingKeeps

LEMMA CommitAddChildKeeps ==
    ASSUME FamilyInv, NEW r \in Request, CommitAddChild(r)
    PROVE  FamilyInv'
<1>1. slot[r].family \in Family /\ Finish(r)
  BY PlanOf DEF CommitAddChild, Serving, Sound
<1>2. Welcoming
  BY DEF CommitAddChild, Welcoming, FamilyInv, TypeOK, Alive, SameCode
<1>3. "child" \in Role
  BY DEF Role
<1> QED
  BY <1>1, <1>2, <1>3, AddingKeeps DEF CommitAddChild

LEMMA CommitInviteKeeps ==
    ASSUME FamilyInv, NEW r \in Request, CommitInvite(r)
    PROVE  FamilyInv'
<1> DEFINE s == slot[r]
<1>1. /\ s \in Slot /\ s.family \in Family /\ s.role \in {"parent", "child"}
      /\ s.id # 0 /\ Exists(s.id) => member[s.id].family = s.family
  BY PlanOf DEF CommitInvite, Serving, Sound
<1>2. PICK c \in Code :
          /\ code[c].status = "unissued"
          /\ code' = [code EXCEPT ![c] = [status |-> "open", family |-> s.family,
                                          role |-> s.role, target |-> s.id]]
  BY DEF CommitInvite
<1>3. /\ UNCHANGED <<accounts, founded, families, member, nextId>>
      /\ Finish(r)
      /\ s.family \in families
      /\ s.id # 0 => Exists(s.id)
  BY DEF CommitInvite
<1>4. s.id \in Id \cup {0}
  BY <1>1 DEF Slot
<1>5. /\ code' \in [Code -> Invitation]
      /\ code'[c] = [status |-> "open", family |-> s.family, role |-> s.role, target |-> s.id]
      /\ \A d \in Code : d # c => code'[d] = code[d]
  BY <1>1, <1>2, <1>4 DEF FamilyInv, TypeOK, Invitation
<1>6. TypeOK'
  BY <1>3, <1>5, FinishTyped DEF FamilyInv, TypeOK
<1>7. Forward
  BY <1>2, <1>3, <1>5 DEF Forward, Exists, Issued, FamilyInv, TypeOK
<1>8. IdsAhead' /\ CodesAreWhole'
  BY <1>1, <1>3, <1>5 DEF FamilyInv, IdsAhead, CodesAreWhole, Exists
<1>9. s.id # 0 => s.id \in In(s.family)
  BY <1>1, <1>3, <1>4 DEF In
<1>10. NothingDangles'
  <2>1. ASSUME NEW d \in Code, code'[d].status \in {"open", "used", "expired"}
        PROVE  /\ code'[d].family \in families'
               /\ code'[d].target # 0 => code'[d].target \in In(code[d].family)'
    <3>1. CASE d = c
      BY <1>3, <1>5, <1>9, <3>1 DEF In
    <3>2. CASE d # c
      BY <1>3, <1>5, <2>1, <3>2 DEF In, FamilyInv, NothingDangles
    <3> QED
      BY <3>1, <3>2
  <2>2. \A m \in Id : Exists(m)' =>
            /\ member'[m].family \in families'
            /\ Linked(m)' => Alive(member[m].account)'
            /\ \A n \in MembershipIn(member[m].family, member[m].account)' : Linked(m)' => n = m
    BY <1>3 DEF FamilyInv, NothingDangles, Exists, Linked, Alive, MembershipIn, In
  <2> QED
    BY <2>1, <2>2 DEF NothingDangles
<1> QED
  BY <1>3, <1>6, <1>7, <1>8, <1>10, CommitKeeps

-----------------------------------------------------------------------------
(* What changes neither participants nor accounts in number.                 *)

LEMMA CommitRevokeKeeps ==
    ASSUME FamilyInv, NEW r \in Request, CommitRevoke(r)
    PROVE  FamilyInv'
<1>1. /\ slot[r].code \in Code /\ Finish(r)
      /\ code' = [code EXCEPT ![slot[r].code] = Removed]
      /\ UNCHANGED <<accounts, founded, families, member, nextId>>
  BY PlanOf DEF CommitRevoke, Serving, Sound
<1>2. /\ code' \in [Code -> Invitation]
      /\ \A d \in Code : code'[d] = code[d] \/ code'[d] = Removed
  BY <1>1 DEF FamilyInv, TypeOK, Invitation, Removed
<1>3. TypeOK'
  BY <1>1, <1>2, FinishTyped DEF FamilyInv, TypeOK
<1>4. Shrinking
  <2>1. \A m \in Id : Exists(m)' =>
            /\ Exists(m)
            /\ member'[m].family = member[m].family
            /\ member'[m].family \in families'
            /\ Linked(m)' => /\ member'[m].account = member[m].account
                             /\ Alive(member[m].account)'
    BY <1>1 DEF FamilyInv, NothingDangles, Exists, Linked, Alive
  <2>2. \A d \in Code : code'[d].status \in Issued => code'[d] = code[d]
    BY <1>2 DEF Removed, Issued
  <2>3. ASSUME NEW d \in Code, code'[d].status \in Issued
        PROVE  /\ SameCode(d)
               /\ code[d].family \in families'
               /\ code[d].target # 0 => Exists(code[d].target)'
    <3>1. code'[d] = code[d] /\ code[d].family \in families
          /\ (code[d].target # 0 => code[d].target \in In(code[d].family))
      BY <2>2, <2>3 DEF FamilyInv, NothingDangles, Issued
    <3>2. code[d].target # 0 => Exists(code[d].target)
      BY <3>1, FamilyMember DEF FamilyInv, TypeOK
    <3> QED
      BY <1>1, <2>3, <3>1, <3>2 DEF SameCode, Exists
  <2> QED
    BY <1>1, <1>2, <2>1, <2>3 DEF Shrinking, Removed
<1> QED
  BY <1>1, <1>3, <1>4, ShrinkingKeeps, CommitKeeps

\* Codes and accounts stay as they are, participants keep family and account.
LEMMA SamePlacesKeep ==
    ASSUME FamilyInv, TypeOK', UNCHANGED <<accounts, families, nextId>>,
           \A m \in Id : /\ Exists(m)' <=> Exists(m)
                         /\ member'[m].family = member[m].family
                         /\ member'[m].account = member[m].account,
           \A c \in Code : /\ code[c].status # "unissued" => code'[c].status # "unissued"
                           /\ code'[c].status \in Issued => SameCode(c)
    PROVE  NothingDangles' /\ IdsAhead' /\ CodesAreWhole' /\ Forward
<1>1. \A m \in Id : Exists(m)' =>
          /\ Exists(m)
          /\ member'[m].family = member[m].family
          /\ member'[m].family \in families'
          /\ Linked(m)' => /\ member'[m].account = member[m].account
                           /\ Alive(member[m].account)'
  BY DEF FamilyInv, NothingDangles, Linked, Alive
<1>2. ASSUME NEW d \in Code, code'[d].status \in Issued
      PROVE  /\ SameCode(d)
             /\ code[d].family \in families'
             /\ code[d].target # 0 => Exists(code[d].target)'
  <2>1. SameCode(d) /\ code[d].family \in families
        /\ (code[d].target # 0 => code[d].target \in In(code[d].family))
    BY <1>2 DEF SameCode, FamilyInv, NothingDangles, Issued
  <2>2. code[d].target # 0 => code[d].target \in Id /\ Exists(code[d].target)
    BY <2>1, FamilyMember DEF FamilyInv, TypeOK
  <2>3. code'[d].target = code[d].target
    BY <2>1 DEF SameCode
  <2> QED
    BY <2>1, <2>2, <2>3 DEF Exists
<1>3. Shrinking
  BY <1>1, <1>2 DEF Shrinking
<1> QED
  BY <1>3, ShrinkingKeeps

LEMMA MarkKeeps ==
    ASSUME FamilyInv, NEW r \in Request, Finish(r), NEW t \in Id, Exists(t), NEW p \in BOOLEAN,
           member' = [member EXCEPT ![t].proposed = p],
           UNCHANGED <<accounts, founded, families, nextId, code>>
    PROVE  FamilyInv'
<1>1. member[t] \in Membership
  BY DEF FamilyInv, TypeOK
<1>2. PICK f \in Family, a \in Account \cup {NoAccount}, role \in Role, q \in BOOLEAN :
          member[t] = [family |-> f, account |-> a, role |-> role, proposed |-> q]
  BY <1>1, MembershipKinds DEF Exists
<1>3. \A m \in Id : member'[m] = IF m = t THEN [member[t] EXCEPT !.proposed = p] ELSE member[m]
  BY DEF FamilyInv, TypeOK
<1>4. member'[t] = [family |-> f, account |-> a, role |-> role, proposed |-> p]
  BY <1>2, <1>3
<1>5. member'[t] \in Membership /\ member'[t] # Nobody
  BY <1>4, FamilyAssumption DEF Membership, Nobody
<1>6. member' \in [Id -> Membership]
  BY <1>5 DEF FamilyInv, TypeOK
<1>7. TypeOK'
  BY <1>6, FinishTyped DEF FamilyInv, TypeOK
<1>8. \A m \in Id : /\ Exists(m)' <=> Exists(m)
                    /\ member'[m].family = member[m].family
                    /\ member'[m].account = member[m].account
  BY <1>2, <1>3, <1>4, <1>5 DEF Exists
<1>9. \A c \in Code : /\ code[c].status # "unissued" => code'[c].status # "unissued"
                      /\ code'[c].status \in Issued => SameCode(c)
  BY DEF SameCode
<1> QED
  BY <1>7, <1>8, <1>9, SamePlacesKeep, CommitKeeps

LEMMA CommitMarkKeeps ==
    ASSUME FamilyInv, NEW r \in Request, CommitPropose(r) \/ CommitWithdraw(r)
    PROVE  FamilyInv'
<1>1. slot[r].id \in Id /\ Exists(slot[r].id) /\ Finish(r)
  BY PlanOf DEF CommitPropose, CommitWithdraw, Serving, Sound
<1>2. PICK t \in Id : t = slot[r].id
  BY <1>1
<1> QED
  BY <1>1, <1>2, MarkKeeps DEF CommitPropose, CommitWithdraw

LEMMA RollbackKeeps ==
    ASSUME FamilyInv, NEW r \in Request, Rollback(r)
    PROVE  FamilyInv'
<1>1. UNCHANGED tables /\ Finish(r)
  BY DEF Rollback
<1>2. TypeOK'
  BY <1>1, FinishTyped DEF FamilyInv, TypeOK, tables
<1>3. \A m \in Id : Exists(m)' <=> Exists(m)
  BY <1>1 DEF Exists, tables
<1> QED
  BY <1>1, <1>2, <1>3, SamePlacesKeep, CommitKeeps DEF tables, SameCode

LEMMA ExpireKeeps ==
    ASSUME FamilyInv, NEW c \in Code, Expire(c)
    PROVE  FamilyInv'
<1>1. /\ code[c].status = "open" /\ code[c] \in Invitation
      /\ UNCHANGED <<accounts, founded, families, member, nextId, slot>>
  BY DEF Expire, FamilyInv, TypeOK
<1>2. PICK f \in Family \cup {NoFamily}, role \in {"none", "parent", "child"}, t \in Id \cup {0} :
          code[c] = [status |-> "open", family |-> f, role |-> role, target |-> t]
  BY <1>1 DEF Invitation
<1>3. \A d \in Code : code'[d] = IF d = c THEN [code[c] EXCEPT !.status = "expired"] ELSE code[d]
  BY DEF Expire, FamilyInv, TypeOK
<1>4. code'[c] = [status |-> "expired", family |-> f, role |-> role, target |-> t]
  BY <1>2, <1>3
<1>5. code'[c] \in Invitation
  BY <1>4 DEF Invitation
<1>6. code' \in [Code -> Invitation]
  BY <1>5 DEF Expire, FamilyInv, TypeOK
<1>7. TypeOK'
  BY <1>1, <1>6 DEF FamilyInv, TypeOK
<1>8. \A d \in Code : /\ code[d].status # "unissued" => code'[d].status # "unissued"
                      /\ code'[d].status \in Issued => SameCode(d)
  BY <1>2, <1>3, <1>4 DEF SameCode, Issued
<1>9. \A m \in Id : Exists(m)' <=> Exists(m)
  BY <1>1 DEF Exists
<1>10. NothingDangles' /\ IdsAhead' /\ CodesAreWhole' /\ Forward
  BY <1>1, <1>7, <1>8, <1>9, SamePlacesKeep
<1>11. \A s \in Slot : Sound(s) => Sound(s)'
  BY <1>7, <1>10, SoundStays DEF FamilyInv
<1>12. ASSUME NEW q \in Request
       PROVE  Sound(slot[q])'
  <2>1. slot'[q] \in Slot /\ Sound(slot'[q])
    BY <1>1, PlanOf
  <2> QED
    BY <1>11, <2>1 DEF Sound, TellsOf, Exists
<1> QED
  BY <1>7, <1>10, <1>12 DEF FamilyInv, PlansSound

-----------------------------------------------------------------------------
(* The invariant holds.                                                      *)

LEMMA FamilyInit == Init => FamilyInv
<1> SUFFICES ASSUME Init PROVE FamilyInv
  OBVIOUS
<1>1. TypeOK
  BY FamilyAssumption DEF Init, TypeOK, Kind, Membership, Invitation, Unissued, Slot, Idle, Id
<1>2. NothingDangles /\ IdsAhead /\ CodesAreWhole
  BY DEF Init, NothingDangles, IdsAhead, CodesAreWhole, Exists, Unissued, Issued
<1>3. PlansSound
  BY <1>1, IdleSound DEF Init, PlansSound
<1> QED
  BY <1>1, <1>2, <1>3 DEF FamilyInv

LEMMA FamilyStep == FamilyInv /\ [Next]_vars => FamilyInv'
<1> SUFFICES ASSUME FamilyInv, [Next]_vars PROVE FamilyInv'
  OBVIOUS
<1>1. CASE \E r \in Request, f \in Family, a \in Account : BeginInFamily(r, f, a)
  BY <1>1, BeginInFamilyKeeps
<1>2. CASE \E r \in Request, a \in Account : BeginAlone(r, a)
  BY <1>2, BeginAloneKeeps
<1>3. CASE \E r \in Request, c \in Code : BeginRedeem(r, c)
  BY <1>3, BeginRedeemKeeps
<1>4. ASSUME NEW r \in Request, Commit(r)
      PROVE  FamilyInv'
  BY <1>4, CommitCreateKeeps, CommitAddChildKeeps, CommitInviteKeeps, CommitRevokeKeeps,
     CommitAcceptKeeps, CommitRedeemKeeps, CommitLeaveKeeps, CommitRemoveKeeps, CommitMarkKeeps,
     CommitApproveKeeps, CommitDissolveKeeps, CommitDeleteAccountKeeps DEF Commit
<1>5. CASE \E r \in Request : Rollback(r)
  BY <1>5, RollbackKeeps
<1>6. CASE \E c \in Code : Expire(c)
  BY <1>6, ExpireKeeps
<1>7. CASE UNCHANGED vars
  <2>1. TypeOK' /\ NothingDangles' /\ IdsAhead' /\ CodesAreWhole'
    BY <1>7 DEF vars, FamilyInv, TypeOK, NothingDangles, IdsAhead, CodesAreWhole, Exists, Linked,
       Alive, MembershipIn, In
  <2>2. PlansSound'
    BY <1>7 DEF vars, FamilyInv, PlansSound, Sound, TellsOf, Exists
  <2> QED
    BY <2>1, <2>2 DEF FamilyInv
<1> QED
  BY <1>1, <1>2, <1>3, <1>4, <1>5, <1>6, <1>7 DEF Next

LEMMA FamilyAlways == Spec => []FamilyInv
BY FamilyInit, FamilyStep, PTL DEF Spec

(***************************************************************************)
(* Every reachable state of the families is well typed.                    *)
(***************************************************************************)
THEOREM FamilyTypesCorrect == Spec => []TypeOK
<1>1. FamilyInv => TypeOK
  BY DEF FamilyInv
<1> QED
  BY <1>1, FamilyAlways, PTL

(***************************************************************************)
(* Whatever requests overlap, no participation, account or code points at  *)
(* what is gone, and no account is in one family twice.                    *)
(***************************************************************************)
THEOREM ReferencesHold == Spec => []NothingDangles
<1>1. FamilyInv => NothingDangles
  BY DEF FamilyInv
<1> QED
  BY <1>1, FamilyAlways, PTL

-----------------------------------------------------------------------------
(* A code works once.                                                        *)

LEMMA NobodyEnters ==
    ASSUME \A m \in Id : Linked(m)' => member'[m].account = member[m].account,
           \A c \in Code : /\ code[c].status = "open" => code'[c].status # "used"
                           /\ code'[c].status = "open" => code[c].status \in {"open", "unissued"}
    PROVE  EntryByCode
BY DEF EntryByCode, Entering, UsedUp

\* One participant, and nobody else, gets an account; one code is used up.
LEMMA OneEnters ==
    ASSUME FamilyInv, NEW r \in Request, slot[r].op \in {"accept", "redeem"},
           Consume(slot[r].code), NEW a \in Account,
           Participate(slot[r].family, a, slot[r].role, slot[r].id)
    PROVE  EntryByCode
<1> DEFINE f == slot[r].family
           t == slot[r].id
           c == slot[r].code
<1>1. /\ f \in Family /\ slot[r].role \in Role /\ c \in Code
      /\ t # 0 => t \in In(f)
      /\ code[c].family = f
  BY PlanOfJoining
<1>2. /\ code[c].status = "open" /\ code'[c].status = "used"
      /\ \A d \in Code : d # c => code'[d] = code[d]
  BY <1>1, ConsumeKeepsCodes DEF Consume, FamilyInv, TypeOK
<1>3. ASSUME NEW e \in Id, member'[e].account = a, member'[e].family = f,
             member[e].account # a, \A m \in Id : m # e => member'[m] = member[m]
      PROVE  EntryByCode
  <2>1. Entering(e) /\ \A m \in Id : Entering(m) => m = e
    BY <1>3, FamilyAssumption DEF Entering, Linked
  <2>2. UsedUp(c) /\ code[c].family = member'[e].family
    BY <1>1, <1>2, <1>3 DEF UsedUp
  <2>3. \A d \in Code : code'[d].status = "open" => code[d].status \in {"open", "unissued"}
    BY <1>2
  <2> QED
    BY <1>1, <2>1, <2>2, <2>3 DEF EntryByCode
<1>4. MembershipIn(f, a) = {}
  BY DEF Participate
<1>5. CASE t # 0 /\ member' = [member EXCEPT ![t].account = a]
  <2>1. t \in Id /\ member[t].family = f /\ member[t].account # a /\ Exists(t)
        /\ member[t] \in Membership
    BY <1>1, <1>4, <1>5, FamilyMember DEF MembershipIn, In
  <2>2. PICK b \in Account \cup {NoAccount}, role \in Role, p \in BOOLEAN :
            member[t] = [family |-> f, account |-> b, role |-> role, proposed |-> p]
    BY <2>1, MembershipKinds DEF Exists
  <2>3. \A m \in Id : member'[m] = IF m = t THEN [member[t] EXCEPT !.account = a] ELSE member[m]
    BY <1>5, <2>1 DEF FamilyInv, TypeOK
  <2>4. member'[t] = [family |-> f, account |-> a, role |-> role, proposed |-> p]
    BY <2>1, <2>2, <2>3
  <2> HIDE DEF f, t, c
  <2> QED
    BY <1>3, <2>1, <2>3, <2>4
<1>6. CASE AddMember(f, a, slot[r].role)
  <2>1. nextId \in Id /\ ~Exists(nextId)
    BY <1>6 DEF AddMember, FamilyInv, IdsAhead, TypeOK
  <2>2. \A m \in Id : member'[m] = IF m = nextId THEN New(f, a, slot[r].role) ELSE member[m]
    BY <1>6 DEF AddMember, FamilyInv, TypeOK
  <2>3. member'[nextId].account = a /\ member'[nextId].family = f
    BY <2>1, <2>2 DEF New
  <2>4. member[nextId].account # a
    BY <2>1, FamilyAssumption DEF Exists, Nobody
  <2> HIDE DEF f, t, c
  <2>5. PICK e \in Id : e = nextId
    BY <2>1
  <2> QED
    BY <1>3, <2>2, <2>3, <2>4, <2>5
<1> QED
  BY <1>5, <1>6 DEF Participate

\* Participants that are deleted or stay, accounts that go or stay.
LEMMA DeletionEnters ==
    ASSUME FamilyInv, NEW S \in SUBSET Id, NEW A \in SUBSET Account, NEW F,
           \A m \in Id : member'[m].account = MembersWithout(S, A)[m].account,
           code' = CodesWithout(F, S)
    PROVE  EntryByCode
<1>1. ASSUME NEW m \in Id, Linked(m)'
      PROVE  member'[m].account = member[m].account
  <2>1. CASE m \in S
    BY <1>1, <2>1, WithoutFacts DEF Linked, Nobody
  <2>2. CASE m \notin S
    BY <1>1, <2>2, WithoutFacts DEF Linked
  <2> QED
    BY <2>1, <2>2
<1>2. \A c \in Code : code'[c] = code[c] \/ code'[c] = Removed
  BY DEF CodesWithout
<1> QED
  BY <1>1, <1>2, NobodyEnters DEF Removed

LEMMA UnchangedEnters ==
    ASSUME UNCHANGED <<member, code>>
    PROVE  EntryByCode
BY NobodyEnters

\* A request that begins writes nothing.
LEMMA BeginTables ==
    ASSUME NEW r \in Request,
           \/ \E f \in Family, a \in Account : BeginInFamily(r, f, a)
           \/ \E a \in Account : BeginAlone(r, a)
           \/ \E c \in Code : BeginRedeem(r, c)
    PROVE  UNCHANGED tables
<1>1. ASSUME NEW f \in Family, NEW a \in Account, BeginInFamily(r, f, a)
      PROVE  UNCHANGED tables
  BY <1>1 DEF BeginInFamily, BeginAddChild, BeginLeave, BeginApprove, BeginDissolve, BeginInvite,
     BeginRevoke, BeginRemove, BeginPropose, BeginWithdraw, Decide
<1>2. ASSUME NEW a \in Account, BeginAlone(r, a)
      PROVE  UNCHANGED tables
  BY <1>2 DEF BeginAlone, BeginCreate, BeginDeleteAccount, BeginAccept, Decide
<1>3. ASSUME NEW c \in Code, BeginRedeem(r, c)
      PROVE  UNCHANGED tables
  BY <1>3 DEF BeginRedeem, Decide
<1> QED
  BY <1>1, <1>2, <1>3

LEMMA RoleOnly ==
    ASSUME NEW x \in Membership, NEW y, y = [x EXCEPT !.role = "owner"]
    PROVE  y.account = x.account
BY DEF Membership, Nobody

LEMMA CommitEnters ==
    ASSUME FamilyInv, NEW r \in Request, Commit(r)
    PROVE  EntryByCode
<1>1. CASE CommitCreate(r)
  <2>1. slot[r].account \in Account
    BY <1>1, PlanOf DEF CommitCreate, Serving, Sound
  <2>2. PICK f \in Family \ founded :
            /\ families' = families \cup {f}
            /\ AddMember(f, slot[r].account, "owner")
    BY <1>1 DEF CommitCreate
  <2>3. f \in families' \ families /\ code' = code
    BY <1>1, <2>2 DEF CommitCreate, FamilyInv, TypeOK
  <2>4. /\ nextId \in Id
        /\ \A m \in Id : member'[m] = IF m = nextId THEN New(f, slot[r].account, "owner")
                                      ELSE member[m]
    BY <2>2 DEF AddMember, FamilyInv, TypeOK
  <2>5. /\ member'[nextId].family = f
        /\ \A m \in Id : Entering(m) => m = nextId
    BY <2>4 DEF New, Entering
  <2> QED
    BY <2>3, <2>5 DEF EntryByCode, UsedUp
<1>2. CASE CommitAddChild(r)
  <2>1. \A m \in Id : member'[m] = IF m = nextId THEN New(slot[r].family, NoAccount, "child")
                                   ELSE member[m]
    BY <1>2 DEF CommitAddChild, AddMember, FamilyInv, TypeOK
  <2>2. \A m \in Id : Linked(m)' => member'[m].account = member[m].account
    BY <2>1 DEF New, Linked
  <2> QED
    BY <1>2, <2>2, NobodyEnters DEF CommitAddChild
<1>3. CASE CommitInvite(r)
  <2>1. PICK c \in Code : /\ code[c].status = "unissued"
                          /\ \A d \in Code : d # c => code'[d] = code[d]
                          /\ code'[c].status = "open"
    BY <1>3 DEF CommitInvite, FamilyInv, TypeOK
  <2> QED
    BY <1>3, <2>1, NobodyEnters DEF CommitInvite
<1>4. CASE CommitRevoke(r)
  <2>1. \A d \in Code : code'[d] = code[d] \/ code'[d] = Removed
    BY <1>4 DEF CommitRevoke, FamilyInv, TypeOK
  <2> QED
    BY <1>4, <2>1, NobodyEnters DEF CommitRevoke, Removed
<1>5. CASE CommitAccept(r)
  <2>1. slot[r].op = "accept" /\ slot[r].account \in Account
    BY <1>5, PlanOf DEF CommitAccept, Serving, Sound
  <2>2. PICK a \in Account : a = slot[r].account
    BY <2>1
  <2> QED
    BY <1>5, <2>1, <2>2, OneEnters DEF CommitAccept
<1>6. CASE CommitRedeem(r)
  <2>1. PICK a \in Account : Participate(slot[r].family, a, slot[r].role, slot[r].id)
    BY <1>6 DEF CommitRedeem
  <2> QED
    BY <1>6, <2>1, OneEnters DEF CommitRedeem, Serving
<1>7. CASE CommitLeave(r)
  <2>1. PICK S \in SUBSET Id : S = {slot[r].id}
    BY <1>7, PlanOf DEF CommitLeave, Serving, Sound
  <2>2. {} \in SUBSET Account /\ code' = CodesWithout({}, S)
    BY <1>7, <2>1 DEF CommitLeave
  <2>3. MembersWithout(S, {}) \in [Id -> Membership]
    BY <2>2, WithoutFacts
  <2>4. ASSUME NEW n \in Id
        PROVE  member'[n].account = MembersWithout(S, {})[n].account
    <3>1. \/ member'[n] = MembersWithout(S, {})[n]
          \/ member'[n] = [MembersWithout(S, {})[n] EXCEPT !.role = "owner"]
      BY <1>7, <2>1 DEF CommitLeave
    <3> QED
      BY <2>3, <3>1, RoleOnly
  <2> QED
    BY <2>2, <2>4, DeletionEnters
<1>8. CASE CommitRemove(r) \/ CommitApprove(r) \/ CommitDissolve(r)
  <2>1. PICK S \in SUBSET Id, A \in SUBSET Account, F \in SUBSET Family :
            member' = MembersWithout(S, A) /\ code' = CodesWithout(F, S)
    <3>1. slot[r] \in Slot /\ slot[r].id \in Id /\ (Serving(r, "dissolve") => slot[r].family \in Family)
      BY <1>8, PlanOf DEF CommitRemove, CommitApprove, CommitDissolve, Serving, Sound
    <3>2. {slot[r].id} \in SUBSET Id /\ {slot[r].account} \ {NoAccount} \in SUBSET Account
          /\ {} \in SUBSET Account /\ {} \in SUBSET Family
      BY <3>1 DEF Slot
    <3>3. CASE CommitRemove(r)
      BY <3>2, <3>3 DEF CommitRemove
    <3>4. CASE CommitApprove(r)
      BY <3>2, <3>4 DEF CommitApprove
    <3>5. CASE CommitDissolve(r)
      <4>1. /\ {slot[r].family} \in SUBSET Family
            /\ In(slot[r].family) \cup {slot[r].id} \in SUBSET Id
        BY <3>1, <3>5 DEF CommitDissolve, In
      <4> QED
        BY <3>2, <3>5, <4>1 DEF CommitDissolve
    <3> QED
      BY <1>8, <3>3, <3>4, <3>5
  <2> QED
    BY <2>1, DeletionEnters
<1>9. CASE CommitDeleteAccount(r)
  <2>1. PICK A \in SUBSET Account : A = {slot[r].account}
    BY <1>9, PlanOf DEF CommitDeleteAccount, Serving, Sound
  <2>2. {} \in SUBSET Id /\ member' = MembersWithout({}, A) /\ code' = code
    BY <1>9, <2>1 DEF CommitDeleteAccount
  <2>3. code' = CodesWithout({}, {})
    BY <2>2 DEF CodesWithout, FamilyInv, TypeOK
  <2> QED
    BY <2>2, <2>3, DeletionEnters
<1>10. CASE CommitPropose(r) \/ CommitWithdraw(r)
  <2>1. PICK p \in BOOLEAN : member' = [member EXCEPT ![slot[r].id].proposed = p]
    BY <1>10 DEF CommitPropose, CommitWithdraw
  <2>2. ASSUME NEW m \in Id
        PROVE  member'[m].account = member[m].account
    <3>1. member[m] \in Membership
      BY DEF FamilyInv, TypeOK
    <3>2. member'[m] = member[m] \/ member'[m] = [member[m] EXCEPT !.proposed = p]
      BY <2>1 DEF FamilyInv, TypeOK
    <3>3. \A y : y = [member[m] EXCEPT !.proposed = p] => y.account = member[m].account
      BY <3>1 DEF Membership, Nobody
    <3> QED
      BY <3>2, <3>3
  <2> QED
    BY <1>10, <2>2, NobodyEnters DEF CommitPropose, CommitWithdraw
<1> QED
  BY <1>1, <1>2, <1>3, <1>4, <1>5, <1>6, <1>7, <1>8, <1>9, <1>10 DEF Commit

LEMMA EntryStep ==
    ASSUME FamilyInv, [Next]_vars
    PROVE  [EntryByCode]_vars
<1>1. CASE \E r \in Request, f \in Family, a \in Account : BeginInFamily(r, f, a)
  BY <1>1, BeginTables, UnchangedEnters DEF tables
<1>2. CASE \E r \in Request, a \in Account : BeginAlone(r, a)
  BY <1>2, BeginTables, UnchangedEnters DEF tables
<1>3. CASE \E r \in Request, c \in Code : BeginRedeem(r, c)
  BY <1>3, BeginTables, UnchangedEnters DEF tables
<1>4. CASE \E r \in Request : Commit(r)
  BY <1>4, CommitEnters
<1>5. CASE \E r \in Request : Rollback(r)
  BY <1>5, UnchangedEnters DEF Rollback, tables
<1>6. ASSUME NEW c \in Code, Expire(c)
      PROVE  EntryByCode
  <2>1. \A d \in Code : d # c => code'[d] = code[d]
    BY <1>6 DEF Expire, FamilyInv, TypeOK
  <2>2. \A y : y = [code[c] EXCEPT !.status = "expired"] => y.status = "expired"
    BY DEF FamilyInv, TypeOK, Invitation
  <2>3. code'[c].status = "expired"
    BY <1>6, <2>2 DEF Expire, FamilyInv, TypeOK
  <2> QED
    BY <1>6, <2>1, <2>3, NobodyEnters DEF Expire
<1> QED
  BY <1>1, <1>2, <1>3, <1>4, <1>5, <1>6 DEF Next

(***************************************************************************)
(* Whatever requests overlap, nobody comes into a family but with an open  *)
(* code of that family, which brings in one account and never opens again. *)
(***************************************************************************)
THEOREM CodesAdmitOnce == Spec => CodesWorkOnce
BY FamilyAlways, EntryStep, PTL DEF Spec, CodesWorkOnce

-----------------------------------------------------------------------------
(* Requests that do not overlap.                                             *)

\* What the snapshot of a request showed is still so when it commits.
Fresh(s) ==
    /\ s.op \in {"create", "accept"} => \A m \in Id : member[m].account # s.account
    /\ s.op = "leave" =>
          IF member[s.id].role = "owner"
          THEN s.heir \in Id /\ member[s.heir].family = member[s.id].family /\ Linked(s.heir)
          ELSE s.heir = 0
    /\ s.op = "remove" =>
          /\ member[s.id].role # "owner"
          /\ s.account # NoAccount => \A m \in Id : member[m].account = s.account => m = s.id
    /\ s.op = "approve" => member[s.id].role = "child" /\ member[s.id].proposed
    /\ s.op = "dissolve" =>
          /\ member[s.id].role = "owner"
          /\ \A m \in Id : member[m].family = s.family <=> m = s.id
    /\ s.op = "delete_account" => \A m \in Id : member[m].account = s.account
                                                   => member[m].role # "owner"

AllFresh == \A r \in Request : Fresh(slot[r])

Quiet == OwnerRuns /\ OneFamilyPerAccount

CalmInv == FamilyInv /\ (calm => Alone /\ Quiet /\ AllFresh)

-----------------------------------------------------------------------------
(* What requests decide, in a snapshot that is not disturbed.                *)

LEMMA DecidedPlan ==
    ASSUME FamilyInv, NEW r \in Request, NEW x, Decide(r, x)
    PROVE  slot'[r] = x /\ \A q \in Request : q # r => slot'[q] = slot[q]
BY DEF Decide, FamilyInv, TypeOK

\* The one owner of a family somebody is in.
LEMMA OneOwner ==
    ASSUME FamilyInv, OwnerRuns, NEW f \in Family, NEW m \in In(f), NEW n \in In(f),
           member[m].role = "owner", member[n].role = "owner"
    PROVE  m = n
<1>1. m \in Id /\ n \in Id /\ member[m].family = f /\ member[n].family = f /\ Exists(m)
  BY FamilyMember DEF In
<1>2. f \in families
  BY <1>1 DEF FamilyInv, NothingDangles
<1>3. PICK o \in Owners(f) : Owners(f) = {o}
  BY <1>2 DEF OwnerRuns
<1>4. m \in Owners(f) /\ n \in Owners(f)
  BY DEF Owners
<1> QED
  BY <1>3, <1>4

LEMMA AloneFresh ==
    ASSUME FamilyInv, NEW r \in Request, NEW a \in Account, BeginAlone(r, a)
    PROVE  Fresh(slot'[r]) /\ ~Serving(r, "idle")'
<1>1. CASE BeginCreate(r, a)
  <2>1. PICK x : x = [Idle EXCEPT !.op = "create", !.account = a] /\ Decide(r, x)
    BY <1>1 DEF BeginCreate
  <2>2. x.op = "create" /\ x.account = a
    BY <2>1 DEF Idle
  <2>3. Fresh(x)
    BY <1>1, <2>2 DEF BeginCreate, ListForAccount, Fresh
  <2> QED
    BY <2>1, <2>2, <2>3, DecidedPlan DEF Serving
<1>2. CASE BeginDeleteAccount(r, a)
  <2>1. PICK x : x = [Idle EXCEPT !.op = "delete_account", !.account = a] /\ Decide(r, x)
    BY <1>2 DEF BeginDeleteAccount
  <2>2. x.op = "delete_account" /\ x.account = a
    BY <2>1 DEF Idle
  <2>3. Fresh(x)
    BY <1>2, <2>2 DEF BeginDeleteAccount, ListForAccount, Fresh
  <2> QED
    BY <2>1, <2>2, <2>3, DecidedPlan DEF Serving
<1>3. ASSUME NEW c \in Code, BeginAccept(r, c, a)
      PROVE  Fresh(slot'[r]) /\ ~Serving(r, "idle")'
  <2>1. PICK x : x = Joining("accept", c, a) /\ Decide(r, x)
    BY <1>3 DEF BeginAccept
  <2>2. x.op = "accept" /\ x.account = a
    BY <2>1 DEF Joining
  <2>3. Fresh(x)
    BY <1>3, <2>2 DEF BeginAccept, ListForAccount, Fresh
  <2> QED
    BY <2>1, <2>2, <2>3, DecidedPlan DEF Serving
<1> QED
  BY <1>1, <1>2, <1>3 DEF BeginAlone

LEMMA RedeemFresh ==
    ASSUME FamilyInv, NEW r \in Request, NEW c \in Code, BeginRedeem(r, c)
    PROVE  Fresh(slot'[r]) /\ ~Serving(r, "idle")'
<1>1. PICK x : x = Joining("redeem", c, NoAccount) /\ Decide(r, x)
  BY DEF BeginRedeem
<1>2. x.op = "redeem"
  BY <1>1 DEF Joining
<1> QED
  BY <1>1, <1>2, DecidedPlan DEF Serving, Fresh

LEMMA LeaveFresh ==
    ASSUME FamilyInv, Quiet, NEW r \in Request, NEW f \in Family, NEW a \in Account,
           BeginLeave(r, f, a)
    PROVE  Fresh(slot'[r]) /\ ~Serving(r, "idle")'
<1>1. PICK m \in MembershipIn(f, a) : \E n \in Oldest(Remaining(f, m)) :
          Decide(r, [Idle EXCEPT !.op = "leave", !.id = m,
                                 !.heir = IF Succeeds(n, m) THEN n ELSE 0])
  BY DEF BeginLeave
<1>2. PICK n \in Oldest(Remaining(f, m)) :
          Decide(r, [Idle EXCEPT !.op = "leave", !.id = m,
                                 !.heir = IF Succeeds(n, m) THEN n ELSE 0])
  BY <1>1
<1> DEFINE h == IF Succeeds(n, m) THEN n ELSE 0
<1>3. PICK x : x = [Idle EXCEPT !.op = "leave", !.id = m, !.heir = h] /\ Decide(r, x)
  BY <1>2
<1>4. m \in In(f) /\ n \in In(f) /\ n # m /\ Linked(n)
  BY DEF MembershipIn, Oldest, Remaining
<1>5. n \in Id /\ member[n].family = f /\ member[m].family = f
  BY <1>4 DEF In
<1>6. member[m].role = "owner" => h = n
  BY <1>4, OneOwner DEF Quiet, Succeeds
<1>7. member[m].role # "owner" => h = 0
  BY DEF Succeeds
<1> HIDE DEF h
<1>8. x.op = "leave" /\ x.id = m /\ x.heir = h
  BY <1>3 DEF Idle
<1>9. Fresh(x)
  BY <1>4, <1>5, <1>6, <1>7, <1>8 DEF Fresh
<1> QED
  BY <1>3, <1>8, <1>9, DecidedPlan DEF Serving

LEMMA ApproveFresh ==
    ASSUME FamilyInv, NEW r \in Request, NEW f \in Family, NEW a \in Account,
           BeginApprove(r, f, a)
    PROVE  Fresh(slot'[r]) /\ ~Serving(r, "idle")'
<1>1. PICK m \in MembershipIn(f, a) : /\ member[m].role = "child" /\ member[m].proposed
                                      /\ Decide(r, Leaving(m, a))
  BY DEF BeginApprove
<1>2. PICK x : x = Leaving(m, a) /\ Decide(r, x)
  BY <1>1
<1>3. x.op = "approve" /\ x.id = m
  BY <1>2 DEF Leaving, Idle
<1>4. Fresh(x)
  BY <1>1, <1>3 DEF Fresh
<1> QED
  BY <1>2, <1>3, <1>4, DecidedPlan DEF Serving

LEMMA DissolveFresh ==
    ASSUME FamilyInv, Quiet, NEW r \in Request, NEW f \in Family, NEW a \in Account,
           BeginDissolve(r, f, a)
    PROVE  Fresh(slot'[r]) /\ ~Serving(r, "idle")'
<1>1. PICK m \in MembershipIn(f, a) :
          Decide(r, [Idle EXCEPT !.op = "dissolve", !.family = f, !.id = m])
  BY DEF BeginDissolve
<1>2. PICK x : x = [Idle EXCEPT !.op = "dissolve", !.family = f, !.id = m] /\ Decide(r, x)
  BY <1>1
<1>3. x.op = "dissolve" /\ x.id = m /\ x.family = f
  BY <1>2 DEF Idle
<1>4. m \in Id /\ member[m].account = a /\ member[m].family = f
  BY DEF MembershipIn, In
<1>5. \A n \in In(f) : n \in Id /\ member[n].account = a
  BY DEF BeginDissolve, MembershipIn, In
<1>6. \A n \in In(f) : n = m
  BY <1>4, <1>5 DEF Quiet, OneFamilyPerAccount, ListForAccount
<1>7. member[m].role = "owner"
  <2>1. PICK o \in Id : Managing(f, a, o) /\ member[o].role = "owner"
    BY DEF BeginDissolve, Owning
  <2>2. o \in In(f)
    BY <2>1 DEF Managing, MembershipIn
  <2> QED
    BY <1>6, <2>1, <2>2
<1>8. Fresh(x)
  BY <1>3, <1>4, <1>6, <1>7 DEF Fresh, In
<1> QED
  BY <1>2, <1>3, <1>8, DecidedPlan DEF Serving

LEMMA RemoveFresh ==
    ASSUME FamilyInv, Quiet, NEW r \in Request, NEW f \in Family, NEW a \in Account, NEW m \in Id,
           BeginRemove(r, f, a, m)
    PROVE  Fresh(slot'[r]) /\ ~Serving(r, "idle")'
<1> DEFINE b == IF member[m].role = "child" THEN member[m].account ELSE NoAccount
<1>1. PICK x : x = [Idle EXCEPT !.op = "remove", !.id = m, !.account = b] /\ Decide(r, x)
  BY DEF BeginRemove
<1>2. x.op = "remove" /\ x.id = m /\ x.account = b
  BY <1>1 DEF Idle
<1>3. m \in In(f) /\ m \notin MembershipIn(f, a)
  BY DEF BeginRemove
<1>4. member[m].role # "owner"
  <2>1. PICK o \in Id : Managing(f, a, o) /\ member[o].role = "owner"
    BY DEF BeginRemove, Owning
  <2>2. o \in In(f) /\ o \in MembershipIn(f, a)
    BY <2>1 DEF Managing, MembershipIn
  <2> QED
    BY <1>3, <2>1, <2>2, OneOwner DEF Quiet
<1>5. ASSUME b # NoAccount, NEW n \in Id, member[n].account = b
      PROVE  n = m
  <2>1. b \in Account /\ member[m].account = b
    BY <1>3, <1>5, FamilyMember, MembershipKinds DEF Exists
  <2> QED
    BY <1>5, <2>1 DEF Quiet, OneFamilyPerAccount, ListForAccount
<1> HIDE DEF b
<1>6. Fresh(x)
  BY <1>2, <1>4, <1>5 DEF Fresh
<1> QED
  BY <1>1, <1>2, <1>6, DecidedPlan DEF Serving

LEMMA InFamilyFresh ==
    ASSUME FamilyInv, Quiet, NEW r \in Request, NEW f \in Family, NEW a \in Account,
           BeginInFamily(r, f, a)
    PROVE  Fresh(slot'[r]) /\ ~Serving(r, "idle")'
<1>1. ASSUME NEW x, Decide(r, x),
             x.op \in {"add_child", "invite", "revoke", "propose", "withdraw"}
      PROVE  Fresh(slot'[r]) /\ ~Serving(r, "idle")'
  BY <1>1, DecidedPlan DEF Fresh, Serving
<1>2. ASSUME BeginAddChild(r, f, a)
      PROVE  Fresh(slot'[r]) /\ ~Serving(r, "idle")'
  <2>1. PICK x : x = [Idle EXCEPT !.op = "add_child", !.family = f] /\ Decide(r, x)
    BY <1>2 DEF BeginAddChild
  <2>2. x.op = "add_child"
    BY <2>1 DEF Idle
  <2> QED
    BY <1>1, <2>1, <2>2
<1>3. ASSUME NEW role \in {"parent", "child"}, NEW t \in Id \cup {0},
             BeginInvite(r, f, a, role, t)
      PROVE  Fresh(slot'[r]) /\ ~Serving(r, "idle")'
  <2>1. PICK x : /\ x = [Idle EXCEPT !.op = "invite", !.family = f, !.role = role, !.id = t]
                 /\ Decide(r, x)
    BY <1>3 DEF BeginInvite
  <2>2. x.op = "invite"
    BY <2>1 DEF Idle
  <2> QED
    BY <1>1, <2>1, <2>2
<1>4. ASSUME NEW c \in Code, BeginRevoke(r, f, a, c)
      PROVE  Fresh(slot'[r]) /\ ~Serving(r, "idle")'
  <2>1. PICK x : x = [Idle EXCEPT !.op = "revoke", !.code = c] /\ Decide(r, x)
    BY <1>4 DEF BeginRevoke
  <2>2. x.op = "revoke"
    BY <2>1 DEF Idle
  <2> QED
    BY <1>1, <2>1, <2>2
<1>5. ASSUME NEW m \in Id, BeginPropose(r, f, a, m) \/ BeginWithdraw(r, f, a, m)
      PROVE  Fresh(slot'[r]) /\ ~Serving(r, "idle")'
  <2>1. PICK op \in {"propose", "withdraw"} : Decide(r, [Idle EXCEPT !.op = op, !.id = m])
    BY <1>5 DEF BeginPropose, BeginWithdraw
  <2>2. PICK x : x = [Idle EXCEPT !.op = op, !.id = m] /\ Decide(r, x)
    BY <2>1
  <2>3. x.op = op
    BY <2>2 DEF Idle
  <2> QED
    BY <1>1, <2>2, <2>3
<1> QED
  BY <1>2, <1>3, <1>4, <1>5, LeaveFresh, ApproveFresh, DissolveFresh, RemoveFresh DEF BeginInFamily

-----------------------------------------------------------------------------
(* What commits write, when nothing came in between.                         *)

\* Owners stay what and where they are, and nobody becomes one.
LEMMA OwnersKept ==
    ASSUME OwnerRuns, families' \subseteq families,
           \A m \in Id : member'[m].role = "owner" =>
               member[m].role = "owner" /\ member'[m].family = member[m].family,
           \A m \in Id : member[m].role = "owner" /\ Linked(m) /\ member[m].family \in families' =>
               /\ member'[m].role = "owner"
               /\ member'[m].family = member[m].family
               /\ Linked(m)'
    PROVE  OwnerRuns'
<1> SUFFICES ASSUME NEW f \in families'
             PROVE  \E m \in Owners(f)' : Linked(m)' /\ Owners(f)' = {m}
  BY DEF OwnerRuns
<1>1. PICK m \in Owners(f) : Linked(m) /\ Owners(f) = {m}
  BY DEF OwnerRuns
<1>2. m \in Id /\ member[m].family = f /\ member[m].role = "owner"
  BY DEF Owners, In
<1>3. m \in Owners(f)' /\ Linked(m)'
  BY <1>1, <1>2 DEF Owners, In
<1>4. ASSUME NEW n \in Owners(f)'
      PROVE  n = m
  <2>1. n \in Id /\ member'[n].family = f /\ member'[n].role = "owner"
    BY DEF Owners, In
  <2>2. n \in Owners(f)
    BY <2>1 DEF Owners, In
  <2> QED
    BY <1>1, <2>2
<1> QED
  BY <1>3, <1>4

\* Nobody gets an account.
LEMMA AccountsKept ==
    ASSUME OneFamilyPerAccount,
           \A a \in Account : \A m \in Id : member'[m].account = a => member[m].account = a
    PROVE  OneFamilyPerAccount'
BY DEF OneFamilyPerAccount, ListForAccount

\* One participant gets an account nobody has.
LEMMA AccountArrives ==
    ASSUME OneFamilyPerAccount, NEW a \in Account, NEW e \in Id,
           \A m \in Id : member[m].account # a,
           \A m \in Id : m # e => member'[m].account = member[m].account,
           member'[e].account = a
    PROVE  OneFamilyPerAccount'
BY DEF OneFamilyPerAccount, ListForAccount

\* Participants S go, accounts A go: quiet when no owner is among either.
LEMMA DeletionQuiet ==
    ASSUME FamilyInv, Quiet, NEW S \in SUBSET Id, NEW A \in SUBSET Account,
           member' = MembersWithout(S, A), families' \subseteq families,
           \A m \in S : member[m].role = "owner" => member[m].family \notin families',
           \A m \in Id : member[m].role = "owner" => member[m].account \notin A
    PROVE  Quiet'
<1>1. ASSUME NEW m \in Id
      PROVE  /\ m \in S => member'[m] = Nobody
             /\ m \notin S => /\ member'[m].family = member[m].family
                              /\ member'[m].role = member[m].role
                              /\ member'[m].account = IF member[m].account \in A THEN NoAccount
                                                      ELSE member[m].account
  <2>1. m \notin S => m \in Id \ S
    OBVIOUS
  <2> QED
    BY <2>1, WithoutFacts
<1>2. Nobody.role # "owner" /\ Nobody.account = NoAccount
  BY DEF Nobody
<1>3. \A m \in Id : member'[m].role = "owner" =>
          member[m].role = "owner" /\ member'[m].family = member[m].family
  BY <1>1, <1>2
<1>4. \A m \in Id : member[m].role = "owner" /\ Linked(m) /\ member[m].family \in families' =>
          /\ member'[m].role = "owner"
          /\ member'[m].family = member[m].family
          /\ Linked(m)'
  BY <1>1 DEF Linked
<1>5. \A a \in Account : \A m \in Id : member'[m].account = a => member[m].account = a
  BY <1>1, <1>2, FamilyAssumption
<1> QED
  BY <1>3, <1>4, <1>5, OwnersKept, AccountsKept DEF Quiet

LEMMA CreateQuiet ==
    ASSUME FamilyInv, Quiet, NEW r \in Request, Fresh(slot[r]), CommitCreate(r)
    PROVE  Quiet'
<1>1. slot[r].account \in Account /\ \A m \in Id : member[m].account # slot[r].account
  BY PlanOf DEF CommitCreate, Serving, Sound, Fresh
<1>2. PICK a \in Account : a = slot[r].account
  BY <1>1
<1>3. PICK f \in Family \ founded :
          /\ families' = families \cup {f}
          /\ AddMember(f, a, "owner")
  BY <1>2 DEF CommitCreate
<1>4. PICK e \in Id : /\ e = nextId /\ ~Exists(e)
                      /\ \A m \in Id : member'[m] = IF m = e THEN New(f, a, "owner")
                                                    ELSE member[m]
  BY <1>3 DEF AddMember, FamilyInv, IdsAhead, TypeOK
<1>5. member'[e].family = f /\ member'[e].account = a /\ member'[e].role = "owner"
  BY <1>4 DEF New
<1>6. \A m \in Id : member[m].family # f
  <2>1. SUFFICES ASSUME NEW m \in Id, member[m].family = f PROVE FALSE
    OBVIOUS
  <2>2. Exists(m)
    BY <2>1, FamilyMember DEF In
  <2> QED
    BY <2>1, <2>2 DEF FamilyInv, NothingDangles, TypeOK
<1>7. OwnerRuns'
  <2> SUFFICES ASSUME NEW g \in families'
               PROVE  \E m \in Owners(g)' : Linked(m)' /\ Owners(g)' = {m}
    BY DEF OwnerRuns
  <2>1. CASE g = f
    <3>1. e \in Owners(g)' /\ Linked(e)'
      BY <1>5, <2>1, FamilyAssumption DEF Owners, In, Linked
    <3>2. \A n \in Owners(g)' : n = e
      BY <1>4, <1>6, <2>1 DEF Owners, In
    <3> QED
      BY <3>1, <3>2
  <2>2. CASE g # f
    <3>1. g \in families
      BY <1>3, <2>2
    <3>2. PICK m \in Owners(g) : Linked(m) /\ Owners(g) = {m}
      BY <3>1 DEF Quiet, OwnerRuns
    <3>3. g \in Family /\ m # e
      BY <1>4, <3>1, <3>2, FamilyMember DEF Owners, FamilyInv, TypeOK
    <3>4. m \in Owners(g)' /\ Linked(m)'
      BY <1>4, <3>2, <3>3 DEF Owners, In, Linked
    <3>5. ASSUME NEW n \in Owners(g)'
          PROVE  n = m
      <4>1. n \in Id /\ n # e /\ member'[n].family = g /\ member'[n].role = "owner"
        BY <1>5, <2>2 DEF Owners, In
      <4>2. n \in Owners(g)
        BY <1>4, <4>1 DEF Owners, In
      <4> QED
        BY <3>2, <4>2
    <3> QED
      BY <3>4, <3>5
  <2> QED
    BY <2>1, <2>2
<1>8. OneFamilyPerAccount'
  BY <1>1, <1>2, <1>4, <1>5, AccountArrives DEF Quiet
<1> QED
  BY <1>7, <1>8 DEF Quiet

LEMMA AddChildQuiet ==
    ASSUME FamilyInv, Quiet, NEW r \in Request, CommitAddChild(r)
    PROVE  Quiet'
<1>1. PICK e \in Id : /\ e = nextId /\ ~Exists(e)
                      /\ \A m \in Id : member'[m] = IF m = e
                                                    THEN New(slot[r].family, NoAccount, "child")
                                                    ELSE member[m]
  BY DEF CommitAddChild, AddMember, FamilyInv, IdsAhead, TypeOK
<1>2. member'[e].account = NoAccount /\ member'[e].role = "child" /\ member[e] = Nobody
  BY <1>1 DEF New, Exists
<1>3. families' = families
  BY DEF CommitAddChild
<1>4. Nobody.role # "owner"
  BY DEF Nobody
<1>5. OwnerRuns'
  BY <1>1, <1>2, <1>3, <1>4, OwnersKept DEF Quiet, Linked
<1>6. OneFamilyPerAccount'
  BY <1>1, <1>2, AccountsKept, FamilyAssumption DEF Quiet
<1> QED
  BY <1>5, <1>6 DEF Quiet

\* An account that is in no family takes a place.
LEMMA JoiningQuiet ==
    ASSUME FamilyInv, Quiet, NEW r \in Request, slot[r].op \in {"accept", "redeem"},
           Consume(slot[r].code), NEW a \in Account, \A m \in Id : member[m].account # a,
           Participate(slot[r].family, a, slot[r].role, slot[r].id), families' = families
    PROVE  Quiet'
<1> DEFINE f == slot[r].family
           t == slot[r].id
<1>1. /\ f \in Family
      /\ slot[r].role \in {"parent", "child"}
      /\ t # 0 => t \in In(f)
  BY PlanOfJoining, PlanOf DEF Sound
<1>2. ASSUME NEW e \in Id, member'[e].account = a,
             member[e].role = "owner" => /\ member'[e].role = "owner"
                                         /\ member'[e].family = member[e].family,
             member'[e].role = "owner" => /\ member[e].role = "owner"
                                          /\ member'[e].family = member[e].family,
             \A m \in Id : m # e => member'[m] = member[m]
      PROVE  Quiet'
  <2>1. OwnerRuns'
    BY <1>2, OwnersKept, FamilyAssumption DEF Quiet, Linked
  <2>2. OneFamilyPerAccount'
    BY <1>2, AccountArrives DEF Quiet
  <2> QED
    BY <2>1, <2>2 DEF Quiet
<1>3. CASE t # 0 /\ member' = [member EXCEPT ![t].account = a]
  <2>1. t \in Id /\ member[t].family = f /\ Exists(t) /\ member[t] \in Membership
    BY <1>1, <1>3, FamilyMember DEF In
  <2>2. PICK b \in Account \cup {NoAccount}, role \in Role, p \in BOOLEAN :
            member[t] = [family |-> f, account |-> b, role |-> role, proposed |-> p]
    BY <2>1, MembershipKinds DEF Exists
  <2>3. \A m \in Id : member'[m] = IF m = t THEN [member[t] EXCEPT !.account = a] ELSE member[m]
    BY <1>3, <2>1 DEF FamilyInv, TypeOK
  <2>4. member'[t] = [family |-> f, account |-> a, role |-> role, proposed |-> p]
    BY <2>1, <2>2, <2>3
  <2> HIDE DEF f, t
  <2> QED
    BY <1>2, <2>1, <2>2, <2>3, <2>4
<1>4. CASE AddMember(f, a, slot[r].role)
  <2>1. PICK e \in Id : /\ e = nextId /\ ~Exists(e)
                        /\ \A m \in Id : member'[m] = IF m = e THEN New(f, a, slot[r].role)
                                                      ELSE member[m]
    BY <1>4 DEF AddMember, FamilyInv, IdsAhead, TypeOK
  <2>2. member'[e].account = a /\ member'[e].role = slot[r].role
    BY <2>1 DEF New
  <2>3. member[e].role # "owner"
    BY <2>1 DEF Exists, Nobody
  <2> HIDE DEF f, t
  <2> QED
    BY <1>1, <1>2, <2>1, <2>2, <2>3
<1> QED
  BY <1>3, <1>4 DEF Participate

LEMMA AcceptQuiet ==
    ASSUME FamilyInv, Quiet, NEW r \in Request, Fresh(slot[r]), CommitAccept(r)
    PROVE  Quiet'
<1>1. /\ slot[r].op = "accept" /\ slot[r].account \in Account
      /\ \A m \in Id : member[m].account # slot[r].account
  BY PlanOf DEF CommitAccept, Serving, Sound, Fresh
<1>2. PICK a \in Account : a = slot[r].account
  BY <1>1
<1> QED
  BY <1>1, <1>2, JoiningQuiet DEF CommitAccept

\* A new account is in no family.
LEMMA RedeemQuiet ==
    ASSUME FamilyInv, Quiet, NEW r \in Request, CommitRedeem(r)
    PROVE  Quiet'
<1>1. PICK a \in Account : /\ accounts[a] = "unborn"
                           /\ Participate(slot[r].family, a, slot[r].role, slot[r].id)
  BY DEF CommitRedeem
<1>2. ASSUME NEW m \in Id, member[m].account = a
      PROVE  FALSE
  <2>1. Exists(m) /\ Linked(m)
    BY <1>2, FamilyAssumption DEF Exists, Linked, Nobody
  <2> QED
    BY <1>1, <1>2, <2>1 DEF FamilyInv, NothingDangles, Alive
<1> QED
  BY <1>1, <1>2, JoiningQuiet DEF CommitRedeem, Serving

LEMMA RemoveQuiet ==
    ASSUME FamilyInv, Quiet, NEW r \in Request, Fresh(slot[r]), CommitRemove(r)
    PROVE  Quiet'
<1>1. /\ slot[r] \in Slot /\ slot[r].id \in Id /\ member[slot[r].id].role # "owner"
      /\ slot[r].account # NoAccount =>
            \A m \in Id : member[m].account = slot[r].account => m = slot[r].id
  BY PlanOf DEF CommitRemove, Serving, Sound, Fresh
<1>2. PICK S \in SUBSET Id, A \in SUBSET Account :
          S = {slot[r].id} /\ A = {slot[r].account} \ {NoAccount}
  BY <1>1 DEF Slot
<1>3. member' = MembersWithout(S, A) /\ families' = families
  BY <1>2 DEF CommitRemove
<1>4. \A m \in Id : member[m].role = "owner" => member[m].account \notin A
  BY <1>1, <1>2
<1> QED
  BY <1>1, <1>2, <1>3, <1>4, DeletionQuiet

LEMMA ApproveQuiet ==
    ASSUME FamilyInv, Quiet, NEW r \in Request, Fresh(slot[r]), CommitApprove(r)
    PROVE  Quiet'
<1>1. slot[r].id \in Id /\ member[slot[r].id].role = "child"
  BY PlanOf DEF CommitApprove, Serving, Sound, Fresh
<1>2. PICK S \in SUBSET Id : S = {slot[r].id}
  BY <1>1
<1>3. member' = MembersWithout(S, {}) /\ families' = families /\ {} \in SUBSET Account
  BY <1>2 DEF CommitApprove
<1> QED
  BY <1>1, <1>2, <1>3, DeletionQuiet

\* What a dissolution takes along: the owner, who is alone.
LEMMA DissolvedAlone ==
    ASSUME FamilyInv, NEW r \in Request, Fresh(slot[r]), CommitDissolve(r)
    PROVE  /\ slot[r].id \in Id
           /\ In(slot[r].family) \cup {slot[r].id} = {slot[r].id}
           /\ member[slot[r].id].role = "owner"
           /\ member[slot[r].id].family = slot[r].family
BY PlanOf DEF CommitDissolve, Serving, Sound, Fresh, In

LEMMA DissolveQuiet ==
    ASSUME FamilyInv, Quiet, NEW r \in Request, Fresh(slot[r]), CommitDissolve(r)
    PROVE  Quiet'
<1>1. PICK S \in SUBSET Id : S = {slot[r].id}
  BY DissolvedAlone
<1>2. member' = MembersWithout(S, {}) /\ families' = families \ {slot[r].family}
  BY <1>1, DissolvedAlone DEF CommitDissolve
<1>3. {} \in SUBSET Account /\ families' \subseteq families
      /\ \A m \in S : member[m].family \notin families'
  BY <1>1, <1>2, DissolvedAlone
<1> QED
  BY <1>2, <1>3, DeletionQuiet

LEMMA DeleteAccountQuiet ==
    ASSUME FamilyInv, Quiet, NEW r \in Request, Fresh(slot[r]), CommitDeleteAccount(r)
    PROVE  Quiet'
<1>1. /\ slot[r].account \in Account
      /\ \A m \in Id : member[m].account = slot[r].account => member[m].role # "owner"
  BY PlanOf DEF CommitDeleteAccount, Serving, Sound, Fresh
<1>2. PICK A \in SUBSET Account : A = {slot[r].account}
  BY <1>1
<1>3. member' = MembersWithout({}, A) /\ families' = families /\ {} \in SUBSET Id
  BY <1>2 DEF CommitDeleteAccount
<1> QED
  BY <1>1, <1>2, <1>3, DeletionQuiet

\* The heir has an account and is of the family the owner leaves.
LEMMA LeaveQuiet ==
    ASSUME FamilyInv, Quiet, NEW r \in Request, Fresh(slot[r]), CommitLeave(r)
    PROVE  Quiet'
<1> DEFINE t == slot[r].id
           h == slot[r].heir
<1>1. /\ t \in Id /\ h # t /\ h \in Id \cup {0} /\ families' = families
      /\ IF member[t].role = "owner"
         THEN h \in Id /\ member[h].family = member[t].family /\ Linked(h)
         ELSE h = 0
  BY PlanOf DEF CommitLeave, Serving, Sound, Slot, Fresh
<1>2. PICK S \in SUBSET Id : S = {t}
  BY <1>1
<1> DEFINE left == MembersWithout(S, {})
<1>3. member' = [n \in Id |-> IF n = h THEN [left[n] EXCEPT !.role = "owner"] ELSE left[n]]
  BY <1>2 DEF CommitLeave
<1>4. CASE member[t].role # "owner"
  <2>1. left \in [Id -> Membership] /\ {} \in SUBSET Account
    BY WithoutFacts
  <2>2. \A n \in Id : n # h
    BY <1>1, <1>4 DEF Id
  <2>3. member' = left
    BY <1>3, <2>1, <2>2
  <2> QED
    BY <1>1, <1>2, <1>4, <2>1, <2>3, DeletionQuiet
<1>5. CASE member[t].role = "owner"
  <2>1. ASSUME NEW n \in Id
        PROVE  /\ left[n] \in Membership
               /\ n = t => left[n] = Nobody
               /\ n # t => /\ left[n].family = member[n].family
                           /\ left[n].role = member[n].role
                           /\ left[n].account = member[n].account
                           /\ left[n] = Nobody <=> member[n] = Nobody
    <3>1. n # t => n \in Id \ S
      BY <1>2
    <3>2. {} \in SUBSET Account
      OBVIOUS
    <3> QED
      BY <1>2, <3>1, <3>2, WithoutFacts
  <2>2. PICK f : f = member[t].family
    OBVIOUS
  <2>3. f \in Family /\ t \in In(f)
    <3>1. member[t] # Nobody /\ member[t] \in Membership
      BY <1>1, <1>5 DEF Nobody, FamilyInv, TypeOK
    <3> QED
      BY <1>1, <2>2, <3>1, MembershipKinds DEF In
  <2>4. PICK e \in Id : e = h
    BY <1>1, <1>5
  <2> HIDE DEF left, t, h
  <2>5. member[e] # Nobody /\ member[e].account # NoAccount /\ e # t /\ member[e].family = f
    BY <1>1, <1>5, <2>2, <2>4 DEF Linked, Nobody
  <2>6. PICK g \in Family, b \in Account \cup {NoAccount}, role \in Role, p \in BOOLEAN :
            left[e] = [family |-> g, account |-> b, role |-> role, proposed |-> p]
    BY <2>1, <2>5, MembershipKinds
  <2>7. member'[e] = [family |-> g, account |-> b, role |-> "owner", proposed |-> p]
    BY <1>3, <2>4, <2>6
  <2>8. /\ member'[e].family = f /\ member'[e].role = "owner"
        /\ member'[e].account = member[e].account /\ Linked(e)'
    BY <2>1, <2>5, <2>6, <2>7 DEF Linked
  <2>9. \A n \in Id : n # e => member'[n] = left[n]
    BY <1>3, <2>4
  <2>10. \A n \in Id : n # t /\ member[n].role = "owner" => member[n].family # f
    BY <1>5, <2>3, OneOwner DEF Quiet, In
  <2>11. OwnerRuns'
    <3> SUFFICES ASSUME NEW k \in families'
                 PROVE  \E m \in Owners(k)' : Linked(m)' /\ Owners(k)' = {m}
      BY DEF OwnerRuns
    <3>1. ASSUME NEW n \in Id, n # e
          PROVE  n \in Owners(k)' <=> (n \in Owners(k) /\ n # t)
      <4>1. CASE n = t
        BY <2>1, <2>9, <3>1, <4>1 DEF Owners, In, Nobody
      <4>2. CASE n # t
        BY <2>1, <2>9, <3>1, <4>2 DEF Owners, In
      <4> QED
        BY <4>1, <4>2
    <3>2. Owners(k)' \subseteq Id /\ Owners(k) \subseteq Id
      BY DEF Owners, In
    <3>3. CASE k = f
      <4>1. e \in Owners(k)' /\ Linked(e)'
        BY <2>8, <3>3 DEF Owners, In
      <4>2. \A n \in Owners(k)' : n = e
        BY <2>10, <3>1, <3>2, <3>3 DEF Owners, In
      <4> QED
        BY <4>1, <4>2
    <3>4. CASE k # f
      <4>1. PICK m \in Owners(k) : Linked(m) /\ Owners(k) = {m}
        BY <1>1 DEF Quiet, OwnerRuns
      <4>2. m \in Id /\ m # e /\ m # t
        BY <2>2, <2>5, <3>4, <4>1 DEF Owners, In
      <4>3. m \in Owners(k)' /\ Linked(m)'
        BY <2>1, <2>9, <3>1, <4>1, <4>2 DEF Linked
      <4>4. e \notin Owners(k)'
        BY <2>8, <3>4 DEF Owners, In
      <4> QED
        BY <3>1, <3>2, <4>1, <4>3, <4>4
    <3> QED
      BY <3>3, <3>4
  <2>12. ASSUME NEW a \in Account, NEW m \in Id, member'[m].account = a
         PROVE  member[m].account = a
    <3>1. CASE m = e
      BY <2>8, <2>12, <3>1
    <3>2. CASE m = t /\ m # e
      BY <2>1, <2>9, <2>12, <3>2, FamilyAssumption DEF Nobody
    <3>3. CASE m # t /\ m # e
      BY <2>1, <2>9, <2>12, <3>3
    <3> QED
      BY <3>1, <3>2, <3>3
  <2> QED
    BY <2>11, <2>12, AccountsKept DEF Quiet
<1> QED
  BY <1>4, <1>5

LEMMA MarkQuiet ==
    ASSUME FamilyInv, Quiet, NEW r \in Request, CommitPropose(r) \/ CommitWithdraw(r)
    PROVE  Quiet'
<1>1. PICK p \in BOOLEAN : member' = [member EXCEPT ![slot[r].id].proposed = p]
  BY DEF CommitPropose, CommitWithdraw
<1>2. families' = families
  BY DEF CommitPropose, CommitWithdraw
<1>3. ASSUME NEW m \in Id
      PROVE  /\ member'[m].family = member[m].family
             /\ member'[m].account = member[m].account
             /\ member'[m].role = member[m].role
  <2>1. member[m] \in Membership
    BY DEF FamilyInv, TypeOK
  <2>2. member'[m] = member[m] \/ member'[m] = [member[m] EXCEPT !.proposed = p]
    BY <1>1 DEF FamilyInv, TypeOK
  <2>3. \A y : y = [member[m] EXCEPT !.proposed = p] =>
            /\ y.family = member[m].family /\ y.account = member[m].account
            /\ y.role = member[m].role
    BY <2>1 DEF Membership, Nobody
  <2> QED
    BY <2>2, <2>3
<1>4. OwnerRuns'
  BY <1>2, <1>3, OwnersKept DEF Quiet, Linked
<1>5. OneFamilyPerAccount'
  BY <1>3, AccountsKept DEF Quiet
<1> QED
  BY <1>4, <1>5 DEF Quiet

LEMMA SameTablesQuiet ==
    ASSUME Quiet, UNCHANGED <<families, member>>
    PROVE  Quiet'
BY DEF Quiet, OwnerRuns, OneFamilyPerAccount, Owners, In, Linked, ListForAccount

LEMMA CommitQuiet ==
    ASSUME FamilyInv, Quiet, NEW r \in Request, Fresh(slot[r]), Commit(r)
    PROVE  Quiet'
<1>1. CASE CommitInvite(r) \/ CommitRevoke(r)
  BY <1>1, SameTablesQuiet DEF CommitInvite, CommitRevoke
<1> QED
  BY <1>1, CreateQuiet, AddChildQuiet, AcceptQuiet, RedeemQuiet, LeaveQuiet, RemoveQuiet,
     MarkQuiet, ApproveQuiet, DissolveQuiet, DeleteAccountQuiet DEF Commit

-----------------------------------------------------------------------------
(* The invariant while nothing has overlapped.                               *)

LEMMA CalmStart == CalmInit => CalmInv
<1> SUFFICES ASSUME CalmInit PROVE CalmInv
  OBVIOUS
<1>1. FamilyInv
  BY FamilyInit DEF CalmInit
<1>2. \A r \in Request : slot[r].op = "idle"
  BY DEF CalmInit, Init, Idle
<1>3. Alone /\ AllFresh
  BY <1>2 DEF Alone, Serving, AllFresh, Fresh
<1>4. OwnerRuns
  BY DEF CalmInit, Init, OwnerRuns
<1>5. \A m \in Id : member[m] = Nobody
  BY DEF CalmInit, Init
<1>6. OneFamilyPerAccount
  BY <1>5, FamilyAssumption DEF OneFamilyPerAccount, ListForAccount, Nobody
<1> QED
  BY <1>1, <1>3, <1>4, <1>6 DEF CalmInv, Quiet

\* A request that has begun is the only one, and fresh.
LEMMA BegunFresh ==
    ASSUME Quiet, Alone', NEW r \in Request, UNCHANGED tables,
           Fresh(slot'[r]), ~Serving(r, "idle")'
    PROVE  Quiet' /\ AllFresh'
<1>1. Quiet'
  BY SameTablesQuiet DEF tables
<1>2. ASSUME NEW q \in Request
      PROVE  Fresh(slot[q])'
  <2>1. CASE q = r
    BY <2>1 DEF Fresh, tables, Linked
  <2>2. CASE q # r
    BY <2>2 DEF Alone, Serving, Fresh
  <2> QED
    BY <2>1, <2>2
<1> QED
  BY <1>1, <1>2 DEF AllFresh

\* Between two requests nothing is planned.
LEMMA EndedFresh ==
    ASSUME FamilyInv, Alone, NEW r \in Request, ~Serving(r, "idle"), Finish(r)
    PROVE  AllFresh'
<1>1. \A q \in Request : slot'[q].op = "idle"
  BY DEF Alone, Serving, Finish, FamilyInv, TypeOK, Idle
<1> QED
  BY <1>1 DEF AllFresh, Fresh

LEMMA CommitEnds ==
    ASSUME NEW r \in Request, Commit(r)
    PROVE  ~Serving(r, "idle") /\ Finish(r)
BY DEF Commit, Serving, CommitCreate, CommitAddChild, CommitInvite, CommitRevoke, CommitAccept,
   CommitRedeem, CommitLeave, CommitRemove, CommitPropose, CommitWithdraw, CommitApprove,
   CommitDissolve, CommitDeleteAccount

LEMMA CalmStep == CalmInv /\ [CalmNext]_<<vars, calm>> => CalmInv'
<1> SUFFICES ASSUME CalmInv, [CalmNext]_<<vars, calm>> PROVE CalmInv'
  OBVIOUS
<1>1. FamilyInv'
  BY FamilyStep DEF CalmInv, CalmNext
<1> SUFFICES ASSUME calm'
             PROVE  Alone' /\ Quiet' /\ AllFresh'
  BY <1>1 DEF CalmInv
<1>2. CASE UNCHANGED <<vars, calm>>
  <2>1. Alone' /\ AllFresh'
    BY <1>2 DEF CalmInv, vars, Alone, Serving, AllFresh, Fresh, Linked
  <2>2. Quiet'
    BY <1>2, SameTablesQuiet DEF CalmInv, vars
  <2> QED
    BY <2>1, <2>2
<1>3. CASE CalmNext
  <2>1. calm /\ Alone' /\ FamilyInv /\ Alone /\ Quiet /\ AllFresh
    BY <1>3 DEF CalmNext, CalmInv
  <2>2. ASSUME NEW r \in Request, NEW f \in Family, NEW a \in Account, BeginInFamily(r, f, a)
        PROVE  Quiet' /\ AllFresh'
    BY <2>1, <2>2, InFamilyFresh, BeginTables, BegunFresh
  <2>3. ASSUME NEW r \in Request, NEW a \in Account, BeginAlone(r, a)
        PROVE  Quiet' /\ AllFresh'
    BY <2>1, <2>3, AloneFresh, BeginTables, BegunFresh
  <2>4. ASSUME NEW r \in Request, NEW c \in Code, BeginRedeem(r, c)
        PROVE  Quiet' /\ AllFresh'
    BY <2>1, <2>4, RedeemFresh, BeginTables, BegunFresh
  <2>5. ASSUME NEW r \in Request, Commit(r)
        PROVE  Quiet' /\ AllFresh'
    BY <2>1, <2>5, CommitQuiet, CommitEnds, EndedFresh DEF AllFresh
  <2>6. ASSUME NEW r \in Request, Rollback(r)
        PROVE  Quiet' /\ AllFresh'
    BY <2>1, <2>6, EndedFresh, SameTablesQuiet DEF Rollback, tables
  <2>7. ASSUME NEW c \in Code, Expire(c)
        PROVE  Quiet' /\ AllFresh'
    <3>1. UNCHANGED <<families, member, slot>>
      BY <2>7 DEF Expire
    <3> QED
      BY <2>1, <3>1, SameTablesQuiet DEF AllFresh, Fresh, Linked
  <2> QED
    BY <1>3, <2>1, <2>2, <2>3, <2>4, <2>5, <2>6, <2>7 DEF CalmNext, Next
<1> QED
  BY <1>2, <1>3

LEMMA CalmAlways == CalmSpec => []CalmInv
BY CalmStart, CalmStep, PTL DEF CalmSpec

(***************************************************************************)
(* However many families, accounts, codes and requests: until two requests *)
(* have been open at the same time, every family has exactly one owner,    *)
(* who can sign in, and nobody is in two families.                         *)
(***************************************************************************)
THEOREM OwnersAreKept == CalmSpec => []OnlyOverlapLosesOwners
<1>1. CalmInv => OnlyOverlapLosesOwners
  BY DEF CalmInv, Quiet, OnlyOverlapLosesOwners
<1> QED
  BY <1>1, CalmAlways, PTL

-----------------------------------------------------------------------------
(* Nobody is swept away.                                                     *)

LEMMA NobodyGoes ==
    ASSUME UNCHANGED member
    PROVE  SweepsNobody
BY DEF SweepsNobody, Exists

LEMMA CommitSweeps ==
    ASSUME FamilyInv, Alone, AllFresh, NEW r \in Request, Commit(r)
    PROVE  SweepsNobody
<1> SUFFICES ASSUME NEW q \in Request, NEW m \in Id, Exists(m), ~Exists(m)'
             PROVE  /\ Serving(q, "dissolve") => member[m].role = "owner"
                    /\ Serving(q, "approve") => member[m].proposed
  BY DEF SweepsNobody
<1>1. ~Serving(r, "idle") /\ Fresh(slot[r])
  BY CommitEnds DEF AllFresh
<1>2. CASE q # r
  BY <1>1, <1>2 DEF Alone, Serving
<1>3. CASE q = r /\ Serving(r, "dissolve")
  <2>1. CommitDissolve(r)
    BY <1>3 DEF Commit, Serving, CommitCreate, CommitAddChild, CommitInvite, CommitRevoke,
       CommitAccept, CommitRedeem, CommitLeave, CommitRemove, CommitPropose, CommitWithdraw,
       CommitApprove, CommitDeleteAccount
  <2>2. PICK S \in SUBSET Id : S = {slot[r].id}
    BY <1>1, <2>1, DissolvedAlone
  <2>3. member' = MembersWithout(S, {}) /\ {} \in SUBSET Account
    BY <1>1, <2>1, <2>2, DissolvedAlone DEF CommitDissolve
  <2>4. m \in S
    BY <2>3, WithoutFacts DEF Exists
  <2> QED
    BY <1>1, <1>3, <2>1, <2>2, <2>4, DissolvedAlone DEF Serving
<1>4. CASE q = r /\ Serving(r, "approve")
  <2>1. CommitApprove(r)
    BY <1>4 DEF Commit, Serving, CommitCreate, CommitAddChild, CommitInvite, CommitRevoke,
       CommitAccept, CommitRedeem, CommitLeave, CommitRemove, CommitPropose, CommitWithdraw,
       CommitDissolve, CommitDeleteAccount
  <2>2. slot[r].id \in Id /\ member[slot[r].id].proposed
    BY <1>1, <1>4, PlanOf DEF Serving, Sound, Fresh
  <2>3. PICK S \in SUBSET Id : S = {slot[r].id}
    BY <2>2
  <2>4. member' = MembersWithout(S, {}) /\ {} \in SUBSET Account
    BY <2>1, <2>3 DEF CommitApprove
  <2>5. m \in S
    BY <2>4, WithoutFacts DEF Exists
  <2> QED
    BY <1>4, <2>2, <2>3, <2>5 DEF Serving
<1> QED
  BY <1>2, <1>3, <1>4

LEMMA SweepStep ==
    ASSUME CalmInv, [CalmNext]_<<vars, calm>>
    PROVE  [calm => SweepsNobody]_<<vars, calm>>
<1> SUFFICES ASSUME CalmNext, calm PROVE SweepsNobody
  OBVIOUS
<1>1. FamilyInv /\ Alone /\ AllFresh
  BY DEF CalmInv
<1>2. ASSUME NEW r \in Request,
             \/ \E f \in Family, a \in Account : BeginInFamily(r, f, a)
             \/ \E a \in Account : BeginAlone(r, a)
             \/ \E c \in Code : BeginRedeem(r, c)
      PROVE  SweepsNobody
  BY <1>2, BeginTables, NobodyGoes DEF tables
<1>3. ASSUME NEW r \in Request, Commit(r)
      PROVE  SweepsNobody
  BY <1>1, <1>3, CommitSweeps
<1>4. ASSUME NEW r \in Request, Rollback(r)
      PROVE  SweepsNobody
  BY <1>4, NobodyGoes DEF Rollback, tables
<1>5. ASSUME NEW c \in Code, Expire(c)
      PROVE  SweepsNobody
  BY <1>5, NobodyGoes DEF Expire
<1> QED
  BY <1>2, <1>3, <1>4, <1>5 DEF CalmNext, Next

(***************************************************************************)
(* However many families, accounts, codes and requests: until two requests *)
(* have been open at the same time, a dissolution takes nobody but the     *)
(* owner along, and a child goes only while its proposal stands.           *)
(***************************************************************************)
THEOREM NobodyIsSweptAway == CalmSpec => OnlyOverlapSweepsAway
BY CalmAlways, SweepStep, PTL DEF CalmSpec, OnlyOverlapSweepsAway
=============================================================================
