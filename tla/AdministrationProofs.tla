-------------------------- MODULE AdministrationProofs --------------------------
(***************************************************************************)
(* Proofs about what administrators do: Administration, for every number   *)
(* of accounts, roles and requests that overlap, and RuntimeSettings, for  *)
(* every number of workers, every set of names and every bound.            *)
(*                                                                         *)
(* The argument about people: somebody who can manage users stays one as   *)
(* long as the account is active and one of its roles keeps granting it.   *)
(* Only a commit takes such a thing away, and each kind of commit either   *)
(* leaves the one who asked for it as it was or is excused.                *)
(*                                                                         *)
(* About settings: what restarts cost, that saved settings fit each other, *)
(* and that every worker follows a save in time, each from an invariant of *)
(* its own.                                                                *)
(***************************************************************************)
EXTENDS Administration, RuntimeSettings, TLAPS

-----------------------------------------------------------------------------
(* The inductive invariant.                                                  *)

\* A change of one's own roles keeps the power, by the rows it was decided on.
KeepsTheHand(s) ==
    s.op = "roles" /\ s.user = s.by => \E r \in s.to : "user:manage" \in s.grants[r]

\* Nobody has a role that is not there.
RolesAreThere == \A u \in User, r \in Role : <<u, r>> \in has => r \in roles

AdminInv ==
    /\ PeopleTypeOK
    /\ RolesAreThere
    /\ \A c \in Request : KeepsTheHand(slot[c])

Call == UserCall \cup RoleCall

\* What a request that is served holds, by its operation.
LEMMA CallKinds ==
    ASSUME NEW s \in {Idle} \cup Call
    PROVE  /\ s = Idle \/ s.op # "idle"
           /\ s # Idle => s \in Call /\ s.by \in User
           /\ s.op = "create" => s.user \in User /\ s.to \in SUBSET Role
           /\ s.op = "roles" => /\ s.user \in User /\ s.from \in SUBSET Role
                                /\ s.to \in SUBSET Role /\ s.grants \in [Role -> SUBSET Code]
           /\ s.op = "active" => s.user \in User /\ s.to \in {"active", "stopped"}
           /\ s.op = "delete" => s.user \in User /\ s.from \in SUBSET Role
           /\ s.op = "role" => s.role \in Role /\ s.to \in SUBSET Code
           /\ s.op = "grant" => s.role \in Role /\ s.from \in SUBSET Code /\ s.to \in SUBSET Code
           /\ s.op = "drop" => s.role \in Role /\ s.from \in SUBSET Code
<1>1. CASE s = Idle
  BY <1>1 DEF Idle
<1>2. CASE s \in UserCall
  BY <1>2 DEF UserCall, Call, Idle
<1>3. CASE s \in RoleCall
  BY <1>3 DEF RoleCall, Call, Idle
<1> QED
  BY <1>1, <1>2, <1>3 DEF Call

LEMMA SlotKinds ==
    ASSUME PeopleTypeOK, NEW c \in Request
    PROVE  slot[c] \in {Idle} \cup Call
BY DEF PeopleTypeOK, Call

-----------------------------------------------------------------------------
(* Who manages users, and what keeps it so.                                  *)

LEMMA ManagerMeans ==
    ASSUME NEW u
    PROVE  u \in Managers <=> /\ u \in User /\ status[u] = "active"
                              /\ \E r \in Role : <<u, r>> \in has /\ "user:manage" \in grants[r]
BY DEF Managers, CodesOf, RolesOf

LEMMA ManagerMeansThen ==
    ASSUME NEW u
    PROVE  u \in Managers' <=> /\ u \in User /\ status'[u] = "active"
                               /\ \E r \in Role : <<u, r>> \in has' /\ "user:manage" \in grants'[r]
BY DEF Managers, CodesOf, RolesOf

\* Nobody is kept from it by a step that takes nothing away.
LEMMA GrowingKeeps ==
    ASSUME \A u \in User : status[u] = "active" => status'[u] = "active",
           has \subseteq has',
           \A r \in Role : (\E u \in User : <<u, r>> \in has) => grants[r] \subseteq grants'[r]
    PROVE  ~Closes
<1>1. ASSUME NEW u \in Managers
      PROVE  u \in Managers'
  <2>1. u \in User /\ status[u] = "active"
    BY ManagerMeans
  <2>2. PICK r \in Role : <<u, r>> \in has /\ "user:manage" \in grants[r]
    BY ManagerMeans
  <2>3. status'[u] = "active" /\ <<u, r>> \in has' /\ "user:manage" \in grants'[r]
    BY <2>1, <2>2
  <2> QED
    BY <2>1, <2>3, ManagerMeansThen
<1> QED
  BY <1>1 DEF Closes

LEMMA UnchangedKeeps ==
    ASSUME UNCHANGED tables
    PROVE  ~Closes
BY GrowingKeeps DEF tables

\* One who manages users and keeps the account, the roles and what they grant.
LEMMA OneStays ==
    ASSUME NEW u \in Managers, status'[u] = "active", UNCHANGED grants,
           \A r \in Role : <<u, r>> \in has => <<u, r>> \in has'
    PROVE  ~Closes
<1>1. u \in Managers'
  BY ManagerMeans, ManagerMeansThen
<1> QED
  BY <1>1 DEF Closes

-----------------------------------------------------------------------------
(* The invariant is kept.                                                    *)

LEMMA InitAdmin ==
    ASSUME PeopleInit
    PROVE  AdminInv
<1>1. PeopleTypeOK
  <2>1. status \in [User -> {"none", "active", "stopped", "gone"}]
    BY DEF PeopleInit
  <2>2. has \subseteq User \X Role
    <3>1. PICK others \in SUBSET ((User \ {First}) \X DOMAIN Seeded) :
              has = others \cup {<<First, AdminRole>>}
      BY DEF PeopleInit
    <3>2. DOMAIN Seeded \subseteq Role /\ First \in User /\ AdminRole \in Role
      BY AdministrationAssumption
    <3>3. others \subseteq User \X Role
      BY <3>2
    <3> QED
      BY <3>1, <3>2, <3>3
  <2>3. roles \subseteq Role /\ grants \in [Role -> SUBSET Code]
    BY AdministrationAssumption DEF PeopleInit
  <2>4. token \in [User -> SUBSET Code]
    BY DEF PeopleInit
  <2>6. turns \in 0 .. MaxTurns
    <3>1. turns = 0
      BY DEF PeopleInit
    <3>2. MaxTurns \in Nat
      BY AdministrationAssumption
    <3> QED
      BY <3>1, <3>2
  <2>5. slot \in [Request -> {Idle} \cup UserCall \cup RoleCall]
    BY DEF PeopleInit
  <2> QED
    BY <2>1, <2>2, <2>3, <2>4, <2>5, <2>6 DEF PeopleTypeOK
<1>2. \A c \in Request : KeepsTheHand(slot[c])
  BY DEF PeopleInit, Idle, KeepsTheHand
<1>3. RolesAreThere
  <2>1. PICK others \in SUBSET ((User \ {First}) \X DOMAIN Seeded) :
            has = others \cup {<<First, AdminRole>>}
    BY DEF PeopleInit
  <2>2. ASSUME NEW u, NEW r, <<u, r>> \in has
        PROVE  r \in DOMAIN Seeded
    BY <2>1, <2>2, AdministrationAssumption
  <2> QED
    BY <2>2 DEF RolesAreThere, PeopleInit
<1> QED
  BY <1>1, <1>2, <1>3 DEF AdminInv

\* A request begins: its slot is well-formed, and the rows stay.
LEMMA OpenKeeps ==
    ASSUME AdminInv, NEW c \in Request, NEW call \in Call,
           KeepsTheHand(call), Open(c, call)
    PROVE  AdminInv' /\ ~Closes
<1>1. UNCHANGED tables /\ token' = token
  BY DEF Open
<1>2. slot' \in [Request -> {Idle} \cup UserCall \cup RoleCall]
  BY DEF Open, AdminInv, PeopleTypeOK, Call
<1>3. turns' \in 0 .. MaxTurns
  BY AdministrationAssumption DEF Open, AdminInv, PeopleTypeOK
<1>4. PeopleTypeOK'
  BY <1>1, <1>2, <1>3 DEF AdminInv, PeopleTypeOK, tables
<1>5. ASSUME NEW d \in Request
      PROVE  KeepsTheHand(slot'[d])
  <2>1. slot'[d] = IF d = c THEN call ELSE slot[d]
    BY DEF Open, AdminInv, PeopleTypeOK
  <2> QED
    BY <2>1 DEF AdminInv
<1> QED
  BY <1>1, <1>4, <1>5, UnchangedKeeps DEF AdminInv, KeepsTheHand, RolesAreThere, tables

\* A request ends: nothing is to be shown but that the rows are well-formed.
LEMMA CloseKeeps ==
    ASSUME AdminInv, NEW c \in Request, Close(c),
           status' \in [User -> {"none", "active", "stopped", "gone"}],
           has' \subseteq User \X Role, roles' \subseteq Role, grants' \in [Role -> SUBSET Code],
           RolesAreThere'
    PROVE  AdminInv' /\ (slot[c].op # "idle" => Done(c))
<1>1. slot' \in [Request -> {Idle} \cup UserCall \cup RoleCall]
  BY DEF Close, AdminInv, PeopleTypeOK
<1>2. PeopleTypeOK'
  BY <1>1 DEF Close, AdminInv, PeopleTypeOK
<1>3. ASSUME NEW d \in Request
      PROVE  KeepsTheHand(slot'[d])
  <2>1. slot'[d] = IF d = c THEN Idle ELSE slot[d]
    BY DEF Close, AdminInv, PeopleTypeOK
  <2> QED
    BY <2>1 DEF AdminInv, KeepsTheHand, Idle
<1>4. slot[c].op # "idle" => Done(c)
  BY DEF Done, Close, Idle, AdminInv, PeopleTypeOK
<1> QED
  BY <1>2, <1>3, <1>4 DEF AdminInv, KeepsTheHand

-----------------------------------------------------------------------------
(* The commits.                                                              *)

LEMMA CreateKeeps ==
    ASSUME AdminInv, NEW c \in Request, CommitCreate(c)
    PROVE  AdminInv' /\ ~Closes
<1> DEFINE s == slot[c]
<1>1. s.user \in User /\ s.to \in SUBSET Role /\ s.to \subseteq roles
  BY CallKinds, SlotKinds DEF CommitCreate, AdminInv
<1>2. /\ status' = [status EXCEPT ![s.user] = "active"]
      /\ has' = has \cup ({s.user} \X s.to)
      /\ UNCHANGED <<roles, grants>> /\ Close(c)
  BY DEF CommitCreate
<1> HIDE DEF s
<1>3. RolesAreThere'
  BY <1>1, <1>2 DEF AdminInv, RolesAreThere
<1>4. AdminInv'
  <2>1. has' \subseteq User \X Role
    BY <1>1, <1>2 DEF AdminInv, PeopleTypeOK
  <2> QED
    BY <1>1, <1>2, <1>3, <2>1, CloseKeeps DEF AdminInv, PeopleTypeOK
<1>5. \A u \in User : status[u] = "active" => status'[u] = "active"
  BY <1>1, <1>2 DEF AdminInv, PeopleTypeOK
<1> QED
  BY <1>2, <1>4, <1>5, GrowingKeeps

LEMMA RolesKeeps ==
    ASSUME AdminInv, NEW c \in Request, CommitRoles(c)
    PROVE  AdminInv' /\ (Closes => Excused(c))
<1> DEFINE s == slot[c]
           old == s.from \ s.to
           new == s.to \ s.from
<1>1. /\ s.op = "roles" /\ s.by \in User /\ s.user \in User /\ s.from \in SUBSET Role
      /\ s.to \in SUBSET Role /\ s.grants \in [Role -> SUBSET Code]
  <2>1. s \in {Idle} \cup Call /\ s.op = "roles"
    BY SlotKinds DEF CommitRoles, AdminInv
  <2> QED
    BY <2>1, CallKinds DEF Idle
<1>2. /\ has' = (has \ ({s.user} \X old)) \cup ({s.user} \X new)
      /\ new \subseteq roles
      /\ UNCHANGED <<status, roles, grants>> /\ Close(c)
  BY DEF CommitRoles
<1>3. KeepsTheHand(s)
  BY DEF AdminInv
<1>4. (s.grants # grants \/ s.from # RolesOf(s.user)) => OutOfDate(c)
  BY <1>1 DEF OutOfDate
<1>5. s.by \notin Managers \/ OutOfDate(c) => (Done(c) => Excused(c))
  BY DEF Excused
<1>6. AdminInv' /\ Done(c)
  <2>1. RolesAreThere'
    BY <1>1, <1>2 DEF AdminInv, RolesAreThere
  <2>2. has' \subseteq User \X Role
    BY <1>1, <1>2 DEF AdminInv, PeopleTypeOK
  <2> QED
    BY <1>1, <1>2, <2>1, <2>2, CloseKeeps DEF AdminInv, PeopleTypeOK
<1>7. ASSUME s.by \in Managers, s.grants = grants, s.from = RolesOf(s.user)
      PROVE  ~Closes
  <2>1. status[s.by] = "active"
    BY <1>7, ManagerMeans
  <2>2. CASE s.user # s.by
    <3>1. \A r \in Role : <<s.by, r>> \in has => <<s.by, r>> \in has'
      BY <1>2, <2>2
    <3> HIDE DEF s
    <3> QED
      BY <1>2, <1>7, <2>1, <3>1, OneStays
  <2>3. CASE s.user = s.by
    <3>1. PICK r \in s.to : "user:manage" \in grants[r]
      BY <1>1, <1>3, <1>7, <2>3 DEF KeepsTheHand
    <3>2. r \in Role
      BY <1>1
    <3>3. <<s.by, r>> \in has'
      <4>1. CASE r \in s.from
        <5>1. <<s.by, r>> \in has
          BY <1>7, <2>3, <4>1 DEF RolesOf
        <5> QED
          BY <1>2, <5>1
      <4>2. CASE r \notin s.from
        BY <1>2, <2>3, <4>2
      <4> QED
        BY <4>1, <4>2
    <3>4. s.by \in Managers'
      <4> HIDE DEF s
      <4> QED
        BY <1>1, <1>2, <2>1, <3>1, <3>2, <3>3, ManagerMeansThen
    <3> QED
      BY <3>4 DEF Closes
  <2> QED
    BY <2>2, <2>3
<1> QED
  BY <1>4, <1>5, <1>6, <1>7

LEMMA ActiveKeeps ==
    ASSUME AdminInv, NEW c \in Request, CommitActive(c)
    PROVE  AdminInv' /\ (Closes => Excused(c))
<1> DEFINE s == slot[c]
<1>1. s.op = "active" /\ s.by \in User /\ s.user \in User /\ s.to \in {"active", "stopped"}
  <2>1. s \in {Idle} \cup Call /\ s.op = "active"
    BY SlotKinds DEF CommitActive, AdminInv
  <2> QED
    BY <2>1, CallKinds DEF Idle
<1>2. /\ status' = [status EXCEPT ![s.user] = s.to]
      /\ UNCHANGED <<has, roles, grants>> /\ Close(c)
  BY DEF CommitActive
<1>3. s.by \notin Managers \/ s.user = s.by => (Done(c) => Excused(c))
  BY <1>1 DEF Excused, OnOneself
<1> HIDE DEF s
<1>4. AdminInv' /\ Done(c)
  <2>1. RolesAreThere'
    BY <1>2 DEF AdminInv, RolesAreThere
  <2> QED
    BY <1>1, <1>2, <2>1, CloseKeeps DEF AdminInv, PeopleTypeOK, s
<1>5. ASSUME s.by \in Managers, s.user # s.by
      PROVE  ~Closes
  <2>1. status'[s.by] = "active"
    BY <1>1, <1>2, <1>5, ManagerMeans DEF AdminInv, PeopleTypeOK
  <2> QED
    BY <1>2, <1>5, <2>1, OneStays
<1> QED
  BY <1>3, <1>4, <1>5

LEMMA DeleteKeeps ==
    ASSUME AdminInv, NEW c \in Request, CommitDelete(c)
    PROVE  AdminInv' /\ (Closes => Excused(c))
<1> DEFINE s == slot[c]
<1>1. s.op = "delete" /\ s.by \in User /\ s.user \in User
  <2>1. s \in {Idle} \cup Call /\ s.op = "delete"
    BY SlotKinds DEF CommitDelete, AdminInv
  <2> QED
    BY <2>1, CallKinds DEF Idle
<1>2. /\ status' = [status EXCEPT ![s.user] = "gone"]
      /\ has' = has \ ({s.user} \X Role)
      /\ UNCHANGED <<roles, grants>> /\ Close(c)
  BY DEF CommitDelete
<1>3. s.by \notin Managers \/ s.user = s.by => (Done(c) => Excused(c))
  BY <1>1 DEF Excused, OnOneself
<1> HIDE DEF s
<1>4. AdminInv' /\ Done(c)
  <2>1. RolesAreThere'
    BY <1>2 DEF AdminInv, RolesAreThere
  <2>2. has' \subseteq User \X Role
    BY <1>2 DEF AdminInv, PeopleTypeOK
  <2> QED
    BY <1>1, <1>2, <2>1, <2>2, CloseKeeps DEF AdminInv, PeopleTypeOK, s
<1>5. ASSUME s.by \in Managers, s.user # s.by
      PROVE  ~Closes
  <2>1. status'[s.by] = "active"
    BY <1>1, <1>2, <1>5, ManagerMeans DEF AdminInv, PeopleTypeOK
  <2>2. \A r \in Role : <<s.by, r>> \in has => <<s.by, r>> \in has'
    BY <1>2, <1>5
  <2> QED
    BY <1>2, <1>5, <2>1, <2>2, OneStays
<1> QED
  BY <1>3, <1>4, <1>5

LEMMA RoleKeeps ==
    ASSUME AdminInv, NEW c \in Request, CommitRole(c)
    PROVE  AdminInv' /\ ~Closes
<1> DEFINE s == slot[c]
<1>1. s.role \in Role /\ s.to \in SUBSET Code /\ s.role \notin roles
  BY CallKinds, SlotKinds DEF CommitRole, AdminInv
<1>2. /\ roles' = roles \cup {s.role}
      /\ grants' = [grants EXCEPT ![s.role] = s.to]
      /\ UNCHANGED <<status, has>> /\ Close(c)
  BY DEF CommitRole
<1> HIDE DEF s
<1>3. AdminInv'
  <2>1. RolesAreThere'
    BY <1>2 DEF AdminInv, RolesAreThere
  <2> QED
    BY <1>1, <1>2, <2>1, CloseKeeps DEF AdminInv, PeopleTypeOK
<1>4. \A r \in Role : (\E u \in User : <<u, r>> \in has) => grants[r] \subseteq grants'[r]
  BY <1>1, <1>2 DEF AdminInv, PeopleTypeOK, RolesAreThere
<1> QED
  BY <1>2, <1>3, <1>4, GrowingKeeps

LEMMA GrantKeeps ==
    ASSUME AdminInv, NEW c \in Request, CommitGrant(c)
    PROVE  AdminInv' /\ Excused(c)
<1> DEFINE s == slot[c]
           old == s.from \ s.to
           new == s.to \ s.from
<1>1. s.op = "grant" /\ s.role \in Role /\ s.from \in SUBSET Code /\ s.to \in SUBSET Code
  BY CallKinds, SlotKinds DEF CommitGrant, AdminInv
<1>2. /\ grants' = [grants EXCEPT ![s.role] = (@ \ old) \cup new]
      /\ UNCHANGED <<status, has, roles>> /\ Close(c)
  BY DEF CommitGrant
<1>3. grants' \in [Role -> SUBSET Code]
  BY <1>1, <1>2 DEF AdminInv, PeopleTypeOK
<1>4. RolesAreThere'
  BY <1>2 DEF AdminInv, RolesAreThere
<1>5. AdminInv' /\ Done(c)
  BY <1>1, <1>2, <1>3, <1>4, CloseKeeps DEF AdminInv, PeopleTypeOK
<1> QED
  BY <1>1, <1>5 DEF Excused

LEMMA DropKeeps ==
    ASSUME AdminInv, NEW c \in Request, CommitDrop(c)
    PROVE  AdminInv' /\ ~Closes
<1> DEFINE s == slot[c]
<1>1. s.role \in Role
  BY CallKinds, SlotKinds DEF CommitDrop, AdminInv
<1>2. /\ roles' = roles \ {s.role} /\ grants' = [grants EXCEPT ![s.role] = {}]
      /\ \A u \in User : <<u, s.role>> \notin has
      /\ UNCHANGED <<status, has>> /\ Close(c)
  BY DEF CommitDrop
<1> HIDE DEF s
<1>3. AdminInv'
  <2>1. RolesAreThere'
    BY <1>2 DEF AdminInv, RolesAreThere
  <2> QED
    BY <1>1, <1>2, <2>1, CloseKeeps DEF AdminInv, PeopleTypeOK
<1>4. \A r \in Role : (\E u \in User : <<u, r>> \in has) => grants[r] \subseteq grants'[r]
  BY <1>1, <1>2 DEF AdminInv, PeopleTypeOK
<1> QED
  BY <1>2, <1>3, <1>4, GrowingKeeps

LEMMA CommitKeeps ==
    ASSUME AdminInv, NEW c \in Request, Commit(c)
    PROVE  AdminInv' /\ (Closes => Excused(c))
BY CreateKeeps, RolesKeeps, ActiveKeeps, DeleteKeeps, RoleKeeps, GrantKeeps, DropKeeps DEF Commit

-----------------------------------------------------------------------------
(* The other steps.                                                          *)

LEMMA RollBackKeeps ==
    ASSUME AdminInv, NEW c \in Request, RollBackRequest(c)
    PROVE  AdminInv' /\ ~Closes
<1>1. Close(c) /\ UNCHANGED tables
  BY DEF RollBackRequest
<1>2. RolesAreThere'
  BY <1>1 DEF AdminInv, RolesAreThere, tables
<1> QED
  BY <1>1, <1>2, CloseKeeps, UnchangedKeeps DEF AdminInv, PeopleTypeOK, tables

LEMMA ObtainKeeps ==
    ASSUME AdminInv, NEW u \in User, Obtain(u)
    PROVE  AdminInv' /\ ~Closes
<1>1. UNCHANGED tables
  BY DEF Obtain
<1>2. CodesOf(RolesOf(u)) \in SUBSET Code
  <2>1. \A r \in RolesOf(u) : grants[r] \in SUBSET Code
    BY DEF RolesOf, AdminInv, PeopleTypeOK
  <2>2. ASSUME NEW x \in CodesOf(RolesOf(u))
        PROVE  x \in Code
    BY <2>1 DEF CodesOf
  <2> QED
    BY <2>2
<1>3. PeopleTypeOK'
  BY <1>2 DEF Obtain, AdminInv, PeopleTypeOK, tables
<1>4. RolesAreThere' /\ \A c \in Request : KeepsTheHand(slot'[c])
  BY DEF Obtain, AdminInv, RolesAreThere, tables
<1> QED
  BY <1>1, <1>3, <1>4, UnchangedKeeps DEF AdminInv, KeepsTheHand

LEMMA SeedKeeps ==
    ASSUME AdminInv, Seed
    PROVE  AdminInv' /\ ~Closes
<1>1. /\ roles' = roles \cup DOMAIN Seeded /\ UNCHANGED <<token, slot, turns>>
      /\ grants' = [r \in Role |-> IF r \in DOMAIN Seeded THEN grants[r] \cup Seeded[r]
                                                           ELSE grants[r]]
      /\ \/ status' = [status EXCEPT ![First] = "active"] /\ has' = has \cup {<<First, AdminRole>>}
         \/ UNCHANGED <<status, has>>
  BY DEF Seed
<1>2. grants' \in [Role -> SUBSET Code]
  BY <1>1, AdministrationAssumption DEF AdminInv, PeopleTypeOK
<1>3. status' \in [User -> {"none", "active", "stopped", "gone"}]
  BY <1>1 DEF AdminInv, PeopleTypeOK
<1>4. has' \subseteq User \X Role /\ roles' \subseteq Role
  BY <1>1, AdministrationAssumption DEF AdminInv, PeopleTypeOK
<1>5. RolesAreThere'
  BY <1>1, AdministrationAssumption DEF AdminInv, RolesAreThere
<1>6. \A u \in User : status[u] = "active" => status'[u] = "active"
  BY <1>1 DEF AdminInv, PeopleTypeOK
<1>7. \A r \in Role : grants[r] \subseteq grants'[r]
  BY <1>1
<1>8. has \subseteq has'
  BY <1>1
<1>9. AdminInv'
  BY <1>1, <1>2, <1>3, <1>4, <1>5 DEF AdminInv, PeopleTypeOK, KeepsTheHand
<1> QED
  BY <1>6, <1>7, <1>8, <1>9, GrowingKeeps

\* What a request decides is recorded as it is.
LEMMA BeginUsersKeeps ==
    ASSUME AdminInv, NEW c \in Request, NEW a \in User, BeginUsers(c, a)
    PROVE  AdminInv' /\ ~Closes
<1>1. PICK u \in User :
        \/ \E wanted \in Wanted : BeginCreate(c, a, u, wanted) \/ BeginRoles(c, a, u, wanted)
        \/ \E to \in {"active", "stopped"} : BeginActive(c, a, u, to)
        \/ BeginDelete(c, a, u)
  BY DEF BeginUsers
<1>2. ASSUME NEW wanted \in Wanted, BeginCreate(c, a, u, wanted)
      PROVE  AdminInv' /\ ~Closes
  <2> DEFINE call == [op |-> "create", by |-> a, user |-> u, to |-> wanted]
  <2>1. call \in Call
    BY DEF Call, UserCall, Wanted, AdminInv, PeopleTypeOK
  <2> QED
    BY <1>2, <2>1, OpenKeeps DEF BeginCreate, KeepsTheHand
<1>3. ASSUME NEW wanted \in Wanted, BeginRoles(c, a, u, wanted)
      PROVE  AdminInv' /\ ~Closes
  <2> DEFINE call == [op |-> "roles", by |-> a, user |-> u, from |-> RolesOf(u), to |-> wanted,
                      grants |-> grants]
  <2>1. call \in Call
    BY DEF Call, UserCall, Wanted, RolesOf, AdminInv, PeopleTypeOK
  <2>2. u = a => \E r \in wanted : "user:manage" \in grants[r]
    BY <1>3 DEF BeginRoles, LocksOut, CodesOf
  <2> QED
    BY <1>3, <2>1, <2>2, OpenKeeps DEF BeginRoles, KeepsTheHand
<1>4. ASSUME NEW to \in {"active", "stopped"}, BeginActive(c, a, u, to)
      PROVE  AdminInv' /\ ~Closes
  <2> DEFINE call == [op |-> "active", by |-> a, user |-> u, to |-> to]
  <2>1. call \in Call
    BY DEF Call, UserCall
  <2> QED
    BY <1>4, <2>1, OpenKeeps DEF BeginActive, KeepsTheHand
<1>5. CASE BeginDelete(c, a, u)
  <2> DEFINE call == [op |-> "delete", by |-> a, user |-> u, from |-> RolesOf(u)]
  <2>1. call \in Call
    BY DEF Call, UserCall, RolesOf
  <2> QED
    BY <1>5, <2>1, OpenKeeps DEF BeginDelete, KeepsTheHand
<1> QED
  BY <1>1, <1>2, <1>3, <1>4, <1>5

LEMMA BeginARoleKeeps ==
    ASSUME AdminInv, NEW c \in Request, NEW a \in User, BeginARole(c, a)
    PROVE  AdminInv' /\ ~Closes
<1>1. PICK r \in Role :
        \/ \E codes \in WantedCodes : BeginRole(c, a, r, codes) \/ BeginGrant(c, a, r, codes)
        \/ BeginDrop(c, a, r)
  BY DEF BeginARole
<1>2. ASSUME NEW codes \in WantedCodes, BeginRole(c, a, r, codes)
      PROVE  AdminInv' /\ ~Closes
  <2> DEFINE call == [op |-> "role", by |-> a, role |-> r, to |-> codes]
  <2>1. call \in Call
    BY DEF Call, RoleCall, WantedCodes
  <2> QED
    BY <1>2, <2>1, OpenKeeps DEF BeginRole, KeepsTheHand
<1>3. ASSUME NEW codes \in WantedCodes, BeginGrant(c, a, r, codes)
      PROVE  AdminInv' /\ ~Closes
  <2> DEFINE call == [op |-> "grant", by |-> a, role |-> r, from |-> grants[r], to |-> codes]
  <2>1. call \in Call
    BY DEF Call, RoleCall, WantedCodes, AdminInv, PeopleTypeOK
  <2> QED
    BY <1>3, <2>1, OpenKeeps DEF BeginGrant, KeepsTheHand
<1>4. CASE BeginDrop(c, a, r)
  <2> DEFINE call == [op |-> "drop", by |-> a, role |-> r, from |-> grants[r]]
  <2>1. call \in Call
    BY DEF Call, RoleCall, AdminInv, PeopleTypeOK
  <2> QED
    BY <1>4, <2>1, OpenKeeps DEF BeginDrop, KeepsTheHand
<1> QED
  BY <1>1, <1>2, <1>3, <1>4

-----------------------------------------------------------------------------
(* The theorems.                                                             *)

LEMMA AdminStep ==
    ASSUME AdminInv, [PeopleNext]_people
    PROVE  AdminInv' /\ [Closes => \E c \in Request : Excused(c)]_people
<1>1. CASE \E c \in Request, a \in User : BeginUsers(c, a) \/ BeginARole(c, a)
  BY <1>1, BeginUsersKeeps, BeginARoleKeeps
<1>2. CASE \E c \in Request : Commit(c) \/ RollBackRequest(c)
  BY <1>2, CommitKeeps, RollBackKeeps
<1>3. CASE \E u \in User : Obtain(u)
  BY <1>3, ObtainKeeps
<1>4. CASE Seed
  BY <1>4, SeedKeeps
<1>5. CASE UNCHANGED people
  <2>1. UNCHANGED <<status, has, roles, grants, token, slot, turns>>
    BY <1>5 DEF people, tables
  <2> QED
    BY <1>5, <2>1 DEF AdminInv, PeopleTypeOK, RolesAreThere, KeepsTheHand
<1> QED
  BY <1>1, <1>2, <1>3, <1>4, <1>5 DEF PeopleNext

(***************************************************************************)
(* The inductive invariant: roles and calls of every interleaving of the   *)
(* requests of administrators (users.py, roles.py).                        *)
(***************************************************************************)
THEOREM AdminAlways == PeopleSpec => []AdminInv
<1>1. PeopleInit => AdminInv
  BY InitAdmin
<1>2. AdminInv /\ [PeopleNext]_people => AdminInv'
  BY AdminStep
<1> QED
  BY <1>1, <1>2, PTL DEF PeopleSpec

(***************************************************************************)
(* Whatever requests overlap, accounts have roles and calls that are well- *)
(* formed (users.py, roles.py).                                            *)
(***************************************************************************)
THEOREM AdministrationTypesCorrect == PeopleSpec => []PeopleTypeOK
<1>1. AdminInv => PeopleTypeOK
  BY DEF AdminInv
<1> QED
  BY <1>1, AdminAlways, PTL

(***************************************************************************)
(* However many administrators work at once and however old their tokens   *)
(* and lists are, only a stale hand, a change of what a role grants or the *)
(* end of one's own account leaves nobody who can manage users (users.py,  *)
(* _reject_self_lockout).                                                  *)
(***************************************************************************)
THEOREM TheHandStays == PeopleSpec => OnlyAStaleHandCloses
<1>1. AdminInv /\ [PeopleNext]_people => [Closes => \E c \in Request : Excused(c)]_people
  BY AdminStep
<1> QED
  BY <1>1, AdminAlways, PTL DEF PeopleSpec, OnlyAStaleHandCloses

-----------------------------------------------------------------------------
(* Arithmetic of the bounds, the account of restarts and the deadlines.      *)

LEMMA UpByOne ==
    ASSUME NEW n \in Nat, NEW x \in 0 .. n, x < n
    PROVE  x + 1 \in 0 .. n
OBVIOUS

LEMMA DeadlineInRange ==
    ASSUME NEW n \in Nat, NEW k \in Nat, NEW x \in 0 .. n
    PROVE  x + k \in 0 .. n + k
OBVIOUS

LEMMA MoreIsPaid ==
    ASSUME NEW r \in Nat, NEW q \in Nat, NEW b \in Nat
    PROVE  /\ r <= q + b => r <= (q + 1) + b /\ r <= q + (b + 1) /\ r + 1 <= q + (b + 1)
           /\ \A z \in Nat : z <= q => z <= q + 1
OBVIOUS

\* A watcher that saw an older request ends the container at the cost of the newer one.
LEMMA NewerPays ==
    ASSUME NEW r \in Nat, NEW old \in Nat, NEW new \in Nat, NEW b \in Nat,
           old <= new, old # new, r <= old + b \/ r + 1 <= new + b
    PROVE  r + 1 <= new + b
OBVIOUS

\* What was replaced less than ttl ago, seen from its deadline.
LEMMA DeadlineTells ==
    ASSUME NEW n \in Nat, NEW until \in Nat, NEW r \in Nat, NEW ttl \in Nat,
           until <= r + ttl, ~(n >= until)
    PROVE  n - r < ttl
OBVIOUS

LEMMA DeadlineWaits ==
    ASSUME NEW n \in Nat, NEW until \in Nat, NEW ttl \in Nat
    PROVE  /\ until <= n + ttl => until <= (n + 1) + ttl
           /\ 0 <= n + ttl
OBVIOUS

LEMMA Bounds ==
    /\ MaxTime \in Nat /\ MaxSaves \in Nat /\ MaxRequests \in Nat /\ MaxFaults \in Nat
    /\ TTL \in Nat /\ TTL # 0
    /\ None \notin Version
BY SettingsAssumption DEF Version

-----------------------------------------------------------------------------
(* Types.                                                                    *)

LEMMA EmptyTypes ==
    /\ Empty \in Payload
    /\ NoCache \in Cached /\ NoCache.until = 0 /\ NoCache.version = None
    /\ 0 \in Version /\ 0 \in Token
<1>1. Empty \in Payload
  BY DEF Empty, Payload
<1>2. 0 \in 0 .. MaxTime + TTL /\ 0 \in Version /\ 0 \in Token
  BY Bounds DEF Version, Token
<1> QED
  BY <1>1, <1>2 DEF NoCache, Cached

LEMMA OverTypes ==
    ASSUME NEW form \in Form, NEW payload \in Payload
    PROVE  Over(form, payload) \in Payload
<1>1. PICK keys \in SUBSET Key : form \in [keys -> Domain \cup {None}]
  BY SettingsAssumption
<1> QED
  BY <1>1 DEF Over, Payload

LEMMA InitTypes ==
    ASSUME Init
    PROVE  TypeOK
<1>1. now \in 0 .. MaxTime /\ outages \in 0 .. MaxFaults /\ deaths \in 0 .. MaxFaults
      /\ restarts \in Nat /\ blind \in Nat /\ up \in BOOLEAN
  BY Bounds DEF Init
<1>2. stored \in Read /\ replaced \in [Version -> 0 .. MaxTime \cup {None}]
      /\ request \in Token /\ asked \in [Token -> Version]
  BY EmptyTypes DEF Init, Read
<1>3. worker \in [Worker -> {"down", "booting", "booted", "up"}]
      /\ boot \in [Worker -> Version \cup {None}] /\ baseline \in [Worker -> Token]
      /\ cache \in [Worker -> Cached] /\ loading \in [Worker -> Read \cup {None, Settled}]
      /\ emptied \in [Worker -> 0 .. MaxTime \cup {None}] /\ save \in [Worker -> Saving \cup {NoSave}]
  BY EmptyTypes DEF Init
<1> QED
  BY <1>1, <1>2, <1>3 DEF TypeOK

LEMMA StopTypes ==
    ASSUME TypeOK, NEW ended, NEW state \in {"down", "booting"}, Stop(ended, state)
    PROVE  /\ worker' \in [Worker -> {"down", "booting", "booted", "up"}]
           /\ boot' \in [Worker -> Version \cup {None}] /\ baseline' \in [Worker -> Token]
           /\ cache' \in [Worker -> Cached] /\ loading' \in [Worker -> Read \cup {None, Settled}]
           /\ emptied' \in [Worker -> 0 .. MaxTime \cup {None}]
           /\ save' \in [Worker -> Saving \cup {NoSave}]
BY EmptyTypes DEF Stop, TypeOK

LEMMA WorkerTypes ==
    ASSUME TypeOK, NEW w \in Worker,
           \/ BeginRefresh(w) \/ StorePayload(w) \/ EndRefresh(w)
           \/ \E form \in Form : BeginSave(w, form)
           \/ DropPayload(w) \/ DropExpiry(w) \/ CommitSave(w) \/ RollBack(w)
           \/ Boot(w) \/ Watch(w) \/ RequestRestart(w) \/ Poll(w) \/ WorkerDies(w)
    PROVE  TypeOK'
<1> USE DEF database, process, kept, faults, counts
<1>1. CASE BeginRefresh(w)
  BY <1>1 DEF BeginRefresh, TypeOK
<1>2. CASE StorePayload(w) \/ EndRefresh(w)
  <2>1. now + TTL \in 0 .. MaxTime + TTL
    BY Bounds, DeadlineInRange DEF TypeOK
  <2>2. ASSUME NEW u \in 0 .. MaxTime + TTL
        PROVE  [cache[w] EXCEPT !.until = u] \in Cached
    BY DEF TypeOK, Cached
  <2>3. ASSUME NEW p \in Payload, NEW v \in Version
        PROVE  [cache[w] EXCEPT !.payload = p, !.version = v] \in Cached
    BY DEF TypeOK, Cached
  <2>4. StorePayload(w) => loading[w].payload \in Payload /\ loading[w].version \in Version
    BY DEF StorePayload, TypeOK, Read
  <2>5. CASE StorePayload(w)
    <3>1. cache' = [cache EXCEPT ![w] =
                      [@ EXCEPT !.payload = loading[w].payload, !.version = loading[w].version]]
      BY <2>5 DEF StorePayload, TypeOK
    <3>2. cache' \in [Worker -> Cached]
      BY <2>3, <2>4, <2>5, <3>1 DEF TypeOK
    <3> QED
      BY <2>5, <3>2 DEF StorePayload, TypeOK
  <2>6. CASE EndRefresh(w)
    BY <2>1, <2>2, <2>6 DEF EndRefresh, TypeOK
  <2> QED
    BY <1>2, <2>5, <2>6
<1>3. ASSUME NEW form \in Form, BeginSave(w, form)
      PROVE  TypeOK'
  <2>1. Over(form, stored.payload) \in Payload
    BY OverTypes DEF TypeOK, Read
  <2>2. [at |-> "read", payload |-> Over(form, stored.payload), form |-> form] \in Saving
    BY <2>1 DEF Saving
  <2> QED
    BY <1>3, <2>2 DEF BeginSave, TypeOK
<1>4. CASE DropPayload(w) \/ DropExpiry(w)
  <2>1. save[w] \in Saving
    BY <1>4 DEF DropPayload, DropExpiry, TypeOK, NoSave
  <2>2. \A at \in {"dropping", "flushed"} : [save[w] EXCEPT !.at = at] \in Saving
    BY <2>1 DEF Saving
  <2>3. /\ [cache[w] EXCEPT !.payload = Empty, !.version = None] \in Cached
        /\ [cache[w] EXCEPT !.until = 0] \in Cached
    <3>1. 0 \in 0 .. MaxTime + TTL
      BY EmptyTypes DEF NoCache, Cached
    <3> QED
      BY <3>1, EmptyTypes DEF TypeOK, Cached
  <2>4. save' \in [Worker -> Saving \cup {NoSave}]
    BY <1>4, <2>2 DEF DropPayload, DropExpiry, TypeOK
  <2>5. CASE DropPayload(w)
    <3>1. cache' = [cache EXCEPT ![w] = [@ EXCEPT !.payload = Empty, !.version = None]]
      BY <2>5 DEF DropPayload, TypeOK
    <3>2. cache' \in [Worker -> Cached]
      BY <2>3, <3>1 DEF TypeOK
    <3> QED
      BY <2>4, <2>5, <3>2 DEF DropPayload, TypeOK
  <2>6. CASE DropExpiry(w)
    BY <2>3, <2>4, <2>6 DEF DropExpiry, TypeOK
  <2> QED
    BY <1>4, <2>5, <2>6
<1>5. CASE CommitSave(w)
  <2>1. save[w] \in Saving
    BY <1>5 DEF CommitSave, TypeOK, NoSave
  <2>2. stored.version + 1 \in Version
    BY <1>5, Bounds, UpByOne DEF CommitSave, TypeOK, Read, Version
  <2>3. stored' \in Read
    BY <1>5, <2>1, <2>2 DEF CommitSave, Saved, Saving, Read
  <2>4. replaced' \in [Version -> 0 .. MaxTime \cup {None}] /\ save' \in [Worker -> Saving \cup {NoSave}]
    BY <1>5 DEF CommitSave, TypeOK
  <2> QED
    BY <1>5, <2>3, <2>4 DEF CommitSave, TypeOK
<1>6. CASE RollBack(w)
  BY <1>6 DEF RollBack, TypeOK
<1>7. CASE Boot(w)
  <2>1. now + TTL \in 0 .. MaxTime + TTL
    BY Bounds, DeadlineInRange DEF TypeOK
  <2>2. [NoCache EXCEPT !.until = now + TTL] \in Cached
    BY <2>1, EmptyTypes DEF Cached
  <2>3. [payload |-> stored.payload, version |-> stored.version, until |-> now + TTL] \in Cached
    BY <2>1 DEF TypeOK, Read, Cached
  <2>4. cache' \in [Worker -> Cached]
    BY <1>7, <2>2, <2>3 DEF Boot, TypeOK
  <2>5. boot' \in [Worker -> Version \cup {None}]
    BY <1>7 DEF Boot, TypeOK, Read
  <2> QED
    BY <1>7, <2>4, <2>5 DEF Boot, TypeOK
<1>8. CASE Watch(w)
  <2>1. blind' \in Nat
    BY <1>8 DEF Watch, TypeOK
  <2>2. baseline' \in [Worker -> Token]
    BY <1>8, EmptyTypes DEF Watch, TypeOK
  <2> QED
    BY <1>8, <2>1, <2>2 DEF Watch, TypeOK
<1>9. CASE RequestRestart(w)
  <2>1. request' \in Token
    BY <1>9, Bounds, UpByOne DEF RequestRestart, TypeOK, Token
  <2>2. asked' \in [Token -> Version]
    BY <1>9 DEF RequestRestart, TypeOK, Read
  <2> QED
    BY <1>9, <2>1, <2>2 DEF RequestRestart, TypeOK
<1>10. CASE Poll(w)
  <2>1. restarts' \in Nat
    BY <1>10 DEF Poll, TypeOK
  <2> QED
    BY <1>10, <2>1, StopTypes DEF Poll, TypeOK
<1>11. CASE WorkerDies(w)
  <2>1. deaths < MaxFaults
    BY <1>11, Bounds DEF WorkerDies, TypeOK
  <2>2. deaths' \in 0 .. MaxFaults
    BY <1>11, <2>1, Bounds, UpByOne DEF WorkerDies, TypeOK
  <2> QED
    BY <1>11, <2>2, StopTypes DEF WorkerDies, TypeOK
<1> QED
  BY <1>1, <1>2, <1>3, <1>4, <1>5, <1>6, <1>7, <1>8, <1>9, <1>10, <1>11

LEMMA TypesKept ==
    ASSUME TypeOK, [Next]_vars
    PROVE  TypeOK'
<1> USE DEF database, process, kept, faults, counts
<1>1. CASE StartAgain
  BY <1>1 DEF StartAgain, TypeOK
<1>2. CASE GoDown
  <2>1. outages < MaxFaults
    BY <1>2, Bounds DEF GoDown, TypeOK
  <2>2. outages' \in 0 .. MaxFaults
    BY <1>2, <2>1, Bounds, UpByOne DEF GoDown, TypeOK
  <2> QED
    BY <1>2, <2>2 DEF GoDown, TypeOK
<1>3. CASE ComeUp
  BY <1>3 DEF ComeUp, TypeOK
<1>4. CASE Tick
  <2>1. now' \in 0 .. MaxTime
    BY <1>4, Bounds, UpByOne DEF Tick, TypeOK
  <2> QED
    BY <1>4, <2>1 DEF Tick, TypeOK
<1>5. CASE UNCHANGED vars
  BY <1>5 DEF vars, TypeOK
<1> QED
  BY <1>1, <1>2, <1>3, <1>4, <1>5, WorkerTypes DEF Next

-----------------------------------------------------------------------------
(* Restarts: each one is paid for by a request that came after the watcher   *)
(* that saw it began, or by a watcher that began blindly.                    *)

\* A watcher may end the container once more: its request is still to come, or is there.
Paid(w) == restarts <= baseline[w] + blind \/ restarts + 1 <= request + blind

RestartInv ==
    /\ RestartsAreCounted
    /\ \A w \in Worker : baseline[w] <= request
    /\ \A w \in Worker : worker[w] = "up" => Paid(w)

LEMMA CountsAreNumbers ==
    ASSUME TypeOK
    PROVE  /\ request \in Nat /\ restarts \in Nat /\ blind \in Nat
           /\ \A w \in Worker : baseline[w] \in Nat
BY Bounds DEF TypeOK, Token

\* Steps that leave the watchers as they are.
LEMMA SamePays ==
    ASSUME RestartInv, UNCHANGED <<request, worker, baseline, restarts, blind>>
    PROVE  RestartInv'
BY DEF RestartInv, RestartsAreCounted, Paid

\* Workers that end have no watcher.
LEMMA StopPays ==
    ASSUME TypeOK, RestartInv, NEW ended, NEW state \in {"down", "booting"}, Stop(ended, state),
           UNCHANGED <<request, restarts, blind>>
    PROVE  RestartInv'
<1>1. ASSUME NEW w \in Worker
      PROVE  baseline'[w] <= request /\ (worker'[w] = "up" => Paid(w)')
  <2>1. w \in ended => baseline'[w] = 0 /\ worker'[w] # "up"
    BY DEF Stop
  <2>2. w \notin ended => baseline'[w] = baseline[w] /\ worker'[w] = worker[w]
    BY DEF Stop
  <2>3. 0 <= request
    BY CountsAreNumbers
  <2> QED
    BY <2>1, <2>2, <2>3 DEF RestartInv, Paid
<1> QED
  BY <1>1 DEF RestartInv, RestartsAreCounted

LEMMA WatchPays ==
    ASSUME TypeOK, RestartInv, NEW w \in Worker, Watch(w)
    PROVE  RestartInv'
<1>1. /\ request' = request /\ restarts' = restarts
      /\ baseline' = [baseline EXCEPT ![w] = IF up THEN request ELSE 0]
      /\ worker' = [worker EXCEPT ![w] = "up"]
      /\ blind' = IF up THEN blind ELSE blind + 1
  BY DEF Watch, database
<1>2. restarts <= request + blind
  BY DEF RestartInv, RestartsAreCounted
<1>3. CASE up
  <2>1. blind' = blind /\ baseline' = [baseline EXCEPT ![w] = request]
    BY <1>1, <1>3
  <2>2. ASSUME NEW v \in Worker
        PROVE  baseline'[v] <= request /\ (worker'[v] = "up" => Paid(v)')
    <3>1. CASE v = w
      <4>1. baseline'[v] = request
        BY <2>1, <3>1 DEF TypeOK
      <4> QED
        BY <1>1, <1>2, <2>1, <4>1, CountsAreNumbers DEF Paid
    <3>2. CASE v # w
      BY <1>1, <2>1, <3>2 DEF RestartInv, Paid, TypeOK
    <3> QED
      BY <3>1, <3>2
  <2> QED
    BY <1>1, <1>2, <2>1, <2>2 DEF RestartInv, RestartsAreCounted
<1>4. CASE ~up
  <2>1. blind' = blind + 1 /\ baseline' = [baseline EXCEPT ![w] = 0]
    BY <1>1, <1>4
  <2>2. restarts <= request + blind' /\ restarts + 1 <= request + blind'
    BY <1>2, <2>1, CountsAreNumbers, MoreIsPaid
  <2>3. ASSUME NEW v \in Worker
        PROVE  baseline'[v] <= request
    <3>1. 0 <= request
      BY CountsAreNumbers
    <3> QED
      BY <2>1, <3>1 DEF RestartInv, TypeOK
  <2> QED
    BY <1>1, <2>2, <2>3 DEF RestartInv, RestartsAreCounted, Paid
<1> QED
  BY <1>3, <1>4

LEMMA RequestPays ==
    ASSUME TypeOK, RestartInv, NEW w \in Worker, RequestRestart(w)
    PROVE  RestartInv'
<1>1. /\ request' = request + 1
      /\ UNCHANGED <<worker, baseline, restarts, blind>>
  BY DEF RequestRestart, process, counts
<1>2. restarts <= (request + 1) + blind
  BY CountsAreNumbers, MoreIsPaid DEF RestartInv, RestartsAreCounted
<1>3. ASSUME NEW v \in Worker
      PROVE  baseline[v] <= request + 1
  BY CountsAreNumbers, MoreIsPaid DEF RestartInv
<1>4. restarts + 1 <= request + blind => restarts + 1 <= (request + 1) + blind
  <2>1. restarts + 1 \in Nat
    BY CountsAreNumbers
  <2> QED
    BY <2>1, CountsAreNumbers, MoreIsPaid
<1> QED
  BY <1>1, <1>2, <1>3, <1>4 DEF RestartInv, RestartsAreCounted, Paid

\* The container is ended by a watcher that has paid.
LEMMA PollPays ==
    ASSUME TypeOK, RestartInv, NEW w \in Worker, Poll(w)
    PROVE  RestartInv'
<1>1. /\ worker[w] = "up" /\ request # baseline[w]
      /\ Stop(Worker, "down") /\ restarts' = restarts + 1
      /\ UNCHANGED <<request, blind>>
  BY DEF Poll, ShouldRestart, Ended, database
<1>2. restarts + 1 <= request + blind
  <2>1. baseline[w] <= request /\ Paid(w)
    BY <1>1 DEF RestartInv
  <2> QED
    BY <1>1, <2>1, CountsAreNumbers, NewerPays DEF Paid
<1>3. ASSUME NEW v \in Worker
      PROVE  baseline'[v] <= request /\ worker'[v] # "up"
  <2>1. baseline'[v] = 0 /\ worker'[v] = "down"
    BY <1>1 DEF Stop
  <2>2. 0 <= request
    BY CountsAreNumbers
  <2> QED
    BY <2>1, <2>2
<1> QED
  BY <1>1, <1>2, <1>3 DEF RestartInv, RestartsAreCounted

LEMMA StepPays ==
    ASSUME TypeOK, RestartInv, [Next]_vars
    PROVE  RestartInv'
<1> USE DEF database, process, kept, faults, counts
<1>1. ASSUME NEW w \in Worker,
             \/ BeginRefresh(w) \/ StorePayload(w) \/ EndRefresh(w)
             \/ DropPayload(w) \/ DropExpiry(w) \/ CommitSave(w) \/ RollBack(w)
             \/ \E form \in Form : BeginSave(w, form)
      PROVE  RestartInv'
  BY <1>1, SamePays DEF BeginRefresh, StorePayload, EndRefresh, BeginSave, DropPayload, DropExpiry,
     CommitSave, RollBack
<1>2. ASSUME NEW w \in Worker, Boot(w)
      PROVE  RestartInv'
  BY <1>2 DEF Boot, RestartInv, RestartsAreCounted, Paid, TypeOK
<1>3. ASSUME NEW w \in Worker, WorkerDies(w)
      PROVE  RestartInv'
  BY <1>3, StopPays DEF WorkerDies
<1>4. CASE StartAgain
  <2>1. \A w \in Worker : worker'[w] = "up" => worker[w] = "up"
    BY <1>4 DEF StartAgain
  <2> QED
    BY <1>4, <2>1 DEF StartAgain, RestartInv, RestartsAreCounted, Paid
<1>5. CASE GoDown \/ ComeUp \/ Tick
  BY <1>5, SamePays DEF GoDown, ComeUp, Tick
<1>6. CASE UNCHANGED vars
  BY <1>6, SamePays DEF vars
<1> QED
  BY <1>1, <1>2, <1>3, <1>4, <1>5, <1>6, WatchPays, RequestPays, PollPays DEF Next

LEMMA InitPays ==
    ASSUME Init
    PROVE  RestartInv
BY DEF Init, RestartInv, RestartsAreCounted, Paid

-----------------------------------------------------------------------------
(* The settings that have to fit each other.                                 *)

\* Where the environment is silent, what is stored and what is about to be fit.
FitInv ==
    Env = Empty =>
        /\ Fits(Resolved(stored.payload))
        /\ \A w \in Worker : save[w] # NoSave => Fits(Resolved(save[w].payload))

LEMMA SilentEnv ==
    ASSUME Env = Empty, NEW payload
    PROVE  EffectiveAfterSave(payload) = Resolved(payload)
BY DEF EffectiveAfterSave, Resolved, Empty

LEMMA InitFits ==
    ASSUME Init
    PROVE  FitInv
<1>1. Env = Empty => Fits(Resolved(Empty))
  BY DEF Fits, Resolved, Empty, Key
<1> QED
  BY <1>1 DEF Init, FitInv

LEMMA SameFits ==
    ASSUME FitInv, stored' = stored, \A w \in Worker : save'[w] \in {save[w], NoSave}
    PROVE  FitInv'
BY DEF FitInv

LEMMA StepFits ==
    ASSUME TypeOK, FitInv, [Next]_vars
    PROVE  FitInv'
<1> USE DEF database
<1>1. ASSUME NEW w \in Worker, NEW form \in Form, BeginSave(w, form)
      PROVE  FitInv'
  <2> DEFINE payload == Over(form, stored.payload)
  <2>1. Env = Empty => Fits(Resolved(payload))
    BY <1>1, SilentEnv DEF BeginSave
  <2>2. ASSUME NEW v \in Worker
        PROVE  save'[v] = save[v] \/ save'[v].payload = payload
    BY <1>1 DEF BeginSave, TypeOK
  <2>3. stored' = stored
    BY <1>1 DEF BeginSave
  <2> QED
    BY <2>1, <2>2, <2>3 DEF FitInv
<1>2. ASSUME NEW w \in Worker, DropPayload(w) \/ DropExpiry(w)
      PROVE  FitInv'
  <2>1. save[w] \in Saving /\ save[w] # NoSave
    BY <1>2 DEF DropPayload, DropExpiry, TypeOK, NoSave, Saving
  <2>2. \A y \in {[save[w] EXCEPT !.at = "dropping"], [save[w] EXCEPT !.at = "flushed"]} :
           y.payload = save[w].payload
    BY <2>1 DEF Saving
  <2>3. ASSUME NEW v \in Worker, v # w
        PROVE  save'[v] = save[v]
    BY <1>2, <2>3 DEF DropPayload, DropExpiry, TypeOK
  <2>4. save'[w].payload = save[w].payload
    BY <1>2, <2>2 DEF DropPayload, DropExpiry, TypeOK
  <2> QED
    BY <1>2, <2>1, <2>3, <2>4 DEF DropPayload, DropExpiry, FitInv
<1>3. ASSUME NEW w \in Worker, CommitSave(w)
      PROVE  FitInv'
  <2>1. save[w] # NoSave /\ stored'.payload = save[w].payload
    BY <1>3 DEF CommitSave, NoSave, Saved
  <2>2. \A v \in Worker : save'[v] \in {save[v], NoSave}
    BY <1>3 DEF CommitSave, TypeOK
  <2> QED
    BY <2>1, <2>2 DEF FitInv
<1>4. ASSUME NEW w \in Worker,
             \/ BeginRefresh(w) \/ StorePayload(w) \/ EndRefresh(w) \/ RollBack(w)
             \/ Boot(w) \/ Watch(w) \/ RequestRestart(w)
      PROVE  FitInv'
  BY <1>4, SameFits
     DEF BeginRefresh, StorePayload, EndRefresh, RollBack, Boot, Watch, RequestRestart, TypeOK
<1>5. ASSUME NEW w \in Worker, Poll(w) \/ WorkerDies(w)
      PROVE  FitInv'
  BY <1>5, SameFits DEF Poll, WorkerDies, Stop
<1>6. CASE StartAgain \/ GoDown \/ ComeUp \/ Tick \/ UNCHANGED vars
  BY <1>6, SameFits DEF StartAgain, GoDown, ComeUp, Tick, vars
<1> QED
  BY <1>1, <1>2, <1>3, <1>4, <1>5, <1>6 DEF Next

-----------------------------------------------------------------------------
(* A save arrives at every worker.                                           *)

\* What a worker keeps was replaced, or emptied by a save, at most TTL before its deadline.
InTime(w) ==
    \/ outages # 0
    \/ /\ cache[w].version # None
       /\ \/ replaced[cache[w].version] = None
          \/ /\ replaced[cache[w].version] \in Nat
             /\ cache[w].until <= replaced[cache[w].version] + TTL
    \/ /\ cache[w].version = None
       /\ \/ cache[w].until = 0
          \/ emptied[w] # None /\ emptied[w] \in Nat /\ cache[w].until <= emptied[w] + TTL

\* What a worker keeps was neither replaced nor emptied before now.
Current(w) ==
    \/ outages # 0
    \/ cache[w].version # None /\ replaced[cache[w].version] \in {None, now}
    \/ cache[w].version = None /\ emptied[w] = now

\* What a thread is about to store was not replaced before now; nor was what it has stored,
\* unless a save has emptied it now.
JustRead(w) ==
    loading[w] # None =>
        IF loading[w] = Settled THEN Current(w)
        ELSE replaced[loading[w].version] \in {None, now}

Arrived(w) == JustRead(w) /\ InTime(w) /\ cache[w].until <= now + TTL

ArrivalInv ==
    /\ ~up => outages # 0
    /\ \A v \in Version : v >= stored.version => replaced[v] = None
    /\ \A w \in Worker : Arrived(w)

LEMMA TimesAreNumbers ==
    ASSUME TypeOK
    PROVE  /\ now \in Nat /\ now # None /\ outages \in Nat
           /\ stored.version \in Version /\ stored.version \in Nat
           /\ \A w \in Worker : cache[w].until \in Nat
           /\ \A v \in Version : v \in Nat /\ (replaced[v] = None \/ replaced[v] \in Nat)
BY Bounds, SettingsAssumption DEF TypeOK, Read, Cached, Version

LEMMA NowIsInTime ==
    ASSUME TypeOK
    PROVE  now + TTL <= now + TTL /\ 0 <= now + TTL
  BY TimesAreNumbers, Bounds, DeadlineWaits

\* Workers whose values, read and clock stay, or that have none.
LEMMA SameArrives ==
    ASSUME TypeOK, ArrivalInv, UNCHANGED <<now, stored, replaced, up, outages>>,
           \A w \in Worker :
              \/ cache'[w] = cache[w] /\ loading'[w] = loading[w] /\ emptied'[w] = emptied[w]
              \/ cache'[w] = NoCache /\ loading'[w] = None
    PROVE  ArrivalInv'
<1>1. ASSUME NEW w \in Worker
      PROVE  Arrived(w)'
  <2>1. Arrived(w)
    BY DEF ArrivalInv
  <2>2. CASE cache'[w] = cache[w] /\ loading'[w] = loading[w] /\ emptied'[w] = emptied[w]
    BY <2>1, <2>2 DEF Arrived, JustRead, InTime, Current
  <2>3. CASE cache'[w] = NoCache /\ loading'[w] = None
    BY <2>3, EmptyTypes, NowIsInTime DEF Arrived, JustRead, InTime
  <2> QED
    BY <2>2, <2>3
<1> QED
  BY <1>1 DEF ArrivalInv

\* A step of one worker that leaves the database alone.
LEMMA OneArrives ==
    ASSUME ArrivalInv, NEW w \in Worker, UNCHANGED <<now, stored, replaced, up, outages>>,
           \A v \in Worker \ {w} :
              cache'[v] = cache[v] /\ loading'[v] = loading[v] /\ emptied'[v] = emptied[v],
           Arrived(w)'
    PROVE  ArrivalInv'
<1>1. ASSUME NEW v \in Worker \ {w}
      PROVE  Arrived(v)'
  BY DEF ArrivalInv, Arrived, JustRead, InTime, Current
<1> QED
  BY <1>1 DEF ArrivalInv

LEMMA BeginRefreshArrives ==
    ASSUME TypeOK, ArrivalInv, NEW w \in Worker, BeginRefresh(w)
    PROVE  ArrivalInv'
<1>1. /\ UNCHANGED <<now, stored, replaced, up, outages, cache, emptied>>
      /\ loading' = [loading EXCEPT ![w] = IF up THEN stored ELSE Settled]
  BY DEF BeginRefresh, database, faults
<1>2. Arrived(w) /\ (~up => outages # 0)
  BY DEF ArrivalInv
<1>3. JustRead(w)'
  <2>1. CASE up
    <3>1. loading'[w] = stored
      BY <1>1, <2>1 DEF TypeOK
    <3>2. stored.version \in Version /\ stored.version >= stored.version
      BY TimesAreNumbers
    <3>3. replaced[stored.version] = None
      BY <3>2 DEF ArrivalInv
    <3>4. stored # Settled
      BY <3>2, Bounds DEF Settled
    <3> QED
      BY <1>1, <3>1, <3>3, <3>4 DEF JustRead
  <2>2. CASE ~up
    <3>1. loading'[w] = Settled
      BY <1>1, <2>2 DEF TypeOK
    <3> QED
      BY <1>1, <1>2, <2>2, <3>1 DEF JustRead, Current
  <2> QED
    BY <2>1, <2>2
<1>4. Arrived(w)'
  BY <1>1, <1>2, <1>3 DEF Arrived, InTime
<1> QED
  BY <1>1, <1>4, OneArrives DEF TypeOK

LEMMA StorePayloadArrives ==
    ASSUME TypeOK, ArrivalInv, NEW w \in Worker, StorePayload(w)
    PROVE  ArrivalInv'
<1>1. /\ UNCHANGED <<now, stored, replaced, up, outages>>
      /\ loading[w] # None /\ loading[w] # Settled
      /\ cache' = [cache EXCEPT ![w].payload = loading[w].payload, ![w].version = loading[w].version]
      /\ loading' = [loading EXCEPT ![w] = Settled]
      /\ emptied' = [emptied EXCEPT ![w] = None]
  BY DEF StorePayload, database, faults
<1>2. Arrived(w) /\ loading[w] \in Read /\ loading[w].version # None
  BY <1>1, Bounds DEF ArrivalInv, TypeOK, Read
<1>3. cache'[w].version = loading[w].version /\ cache'[w].until = cache[w].until
  <2>1. cache[w] \in Cached
    BY DEF TypeOK
  <2>2. \A y : y = [cache[w] EXCEPT !.payload = loading[w].payload, !.version = loading[w].version]
               => y.version = loading[w].version /\ y.until = cache[w].until
    BY <2>1 DEF Cached
  <2> QED
    BY <1>1, <2>2 DEF TypeOK
<1>4. replaced[loading[w].version] \in {None, now} /\ cache[w].until <= now + TTL
  BY <1>1, <1>2 DEF Arrived, JustRead
<1>5. loading'[w] = Settled
  BY <1>1 DEF TypeOK
<1>6. JustRead(w)'
  BY <1>1, <1>2, <1>3, <1>4, <1>5 DEF JustRead, Current
<1>7. InTime(w)'
  BY <1>1, <1>2, <1>3, <1>4, TimesAreNumbers DEF InTime
<1>8. Arrived(w)'
  BY <1>1, <1>3, <1>4, <1>6, <1>7 DEF Arrived
<1> QED
  BY <1>1, <1>8, OneArrives DEF TypeOK

LEMMA EndRefreshArrives ==
    ASSUME TypeOK, ArrivalInv, NEW w \in Worker, EndRefresh(w)
    PROVE  ArrivalInv'
<1>1. /\ UNCHANGED <<now, stored, replaced, up, outages, emptied>>
      /\ loading[w] = Settled
      /\ cache' = [cache EXCEPT ![w].until = now + TTL]
      /\ loading' = [loading EXCEPT ![w] = None]
  BY DEF EndRefresh, database, faults
<1>2. cache'[w].version = cache[w].version /\ cache'[w].until = now + TTL
  <2>1. cache[w] \in Cached
    BY DEF TypeOK
  <2>2. \A y : y = [cache[w] EXCEPT !.until = now + TTL]
               => y.version = cache[w].version /\ y.until = now + TTL
    BY <2>1 DEF Cached
  <2> QED
    BY <1>1, <2>2 DEF TypeOK
<1>3. Current(w)
  BY <1>1, SettingsAssumption DEF ArrivalInv, Arrived, JustRead
<1>4. InTime(w)'
  BY <1>1, <1>2, <1>3, TimesAreNumbers, NowIsInTime DEF InTime, Current
<1>5. Arrived(w)'
  BY <1>1, <1>2, <1>4, NowIsInTime DEF Arrived, JustRead, TypeOK
<1> QED
  BY <1>1, <1>5, OneArrives DEF TypeOK

\* A save may empty what is being read: that is as good as new.
LEMMA DropPayloadArrives ==
    ASSUME TypeOK, ArrivalInv, NEW w \in Worker, DropPayload(w)
    PROVE  ArrivalInv'
<1>1. /\ UNCHANGED <<now, stored, replaced, up, outages, loading>>
      /\ cache' = [cache EXCEPT ![w].payload = Empty, ![w].version = None]
      /\ emptied' = [emptied EXCEPT ![w] = now]
  BY DEF DropPayload, database, faults
<1>2. cache'[w].version = None /\ cache'[w].until = cache[w].until /\ emptied'[w] = now
  <2>1. cache[w] \in Cached
    BY DEF TypeOK
  <2>2. \A y : y = [cache[w] EXCEPT !.payload = Empty, !.version = None]
               => y.version = None /\ y.until = cache[w].until
    BY <2>1 DEF Cached
  <2> QED
    BY <1>1, <2>2 DEF TypeOK
<1>3. Arrived(w)
  BY DEF ArrivalInv
<1>4. InTime(w)'
  BY <1>1, <1>2, <1>3, TimesAreNumbers DEF Arrived, InTime
<1>5. JustRead(w)'
  BY <1>1, <1>2, <1>3 DEF Arrived, JustRead, Current
<1>6. Arrived(w)'
  BY <1>1, <1>2, <1>3, <1>4, <1>5 DEF Arrived
<1> QED
  BY <1>1, <1>6, OneArrives DEF TypeOK

LEMMA DropExpiryArrives ==
    ASSUME TypeOK, ArrivalInv, NEW w \in Worker, DropExpiry(w)
    PROVE  ArrivalInv'
<1>1. /\ UNCHANGED <<now, stored, replaced, up, outages, loading, emptied>>
      /\ cache' = [cache EXCEPT ![w].until = 0]
  BY DEF DropExpiry, database, faults
<1>2. cache'[w].version = cache[w].version /\ cache'[w].until = 0
  <2>1. cache[w] \in Cached
    BY DEF TypeOK
  <2>2. \A y : y = [cache[w] EXCEPT !.until = 0] => y.version = cache[w].version /\ y.until = 0
    BY <2>1 DEF Cached
  <2> QED
    BY <1>1, <2>2 DEF TypeOK
<1>3. Arrived(w)
  BY DEF ArrivalInv
<1>4. \A r \in Nat : 0 <= r + TTL
  BY Bounds, DeadlineWaits
<1>5. InTime(w)'
  BY <1>1, <1>2, <1>3, <1>4 DEF Arrived, InTime
<1>6. Arrived(w)'
  BY <1>1, <1>2, <1>3, <1>5, NowIsInTime DEF Arrived, JustRead, Current
<1> QED
  BY <1>1, <1>6, OneArrives DEF TypeOK

LEMMA CommitArrives ==
    ASSUME TypeOK, ArrivalInv, NEW w \in Worker, CommitSave(w)
    PROVE  ArrivalInv'
<1>1. /\ UNCHANGED <<now, cache, loading, emptied, up, outages>>
      /\ stored'.version = stored.version + 1
      /\ replaced' = [replaced EXCEPT ![stored.version] = now]
  BY DEF CommitSave, kept, faults
<1>2. \A v \in Version : v # stored.version => replaced'[v] = replaced[v]
  BY <1>1 DEF TypeOK
<1>3. replaced'[stored.version] = now
  BY <1>1, TimesAreNumbers DEF TypeOK
<1>4. ASSUME NEW v \in Version, v >= stored.version + 1
      PROVE  replaced'[v] = None
  <2>1. v >= stored.version /\ v # stored.version
    <3>1. \A x, y \in Nat : x >= y + 1 => x >= y /\ x # y
      OBVIOUS
    <3> QED
      BY <1>4, <3>1, TimesAreNumbers
  <2> QED
    BY <1>2, <2>1 DEF ArrivalInv
<1>5. ASSUME NEW v \in Worker
      PROVE  Arrived(v)'
  <2>1. Arrived(v) /\ cache[v].version \in Version \cup {None}
        /\ loading[v] \in Read \cup {None, Settled}
    BY DEF ArrivalInv, TypeOK, Cached
  <2>2. \A u \in Version : replaced'[u] \in {replaced[u], now}
    BY <1>2, <1>3
  <2>3. Current(v) => Current(v)'
    BY <1>1, <2>1, <2>2 DEF Current
  <2>4. JustRead(v)'
    <3>1. CASE loading[v] \in {None, Settled}
      BY <1>1, <2>1, <2>3, <3>1 DEF Arrived, JustRead
    <3>2. CASE loading[v] \in Read
      <4>1. loading[v].version \in Version
        BY <3>2 DEF Read
      <4> QED
        BY <1>1, <2>1, <2>2, <2>3, <4>1 DEF Arrived, JustRead
    <3> QED
      BY <2>1, <3>1, <3>2
  <2>5. InTime(v)'
    <3>1. CASE cache[v].version = None
      BY <1>1, <2>1, <3>1 DEF Arrived, InTime
    <3>2. CASE cache[v].version \in Version
      <4>1. cache[v].version # None
        BY <3>2, Bounds
      <4>2. CASE replaced'[cache[v].version] = now
        BY <1>1, <2>1, <4>1, <4>2, TimesAreNumbers DEF Arrived, InTime
      <4>3. CASE replaced'[cache[v].version] = replaced[cache[v].version]
        BY <1>1, <2>1, <4>1, <4>3 DEF Arrived, InTime
      <4> QED
        BY <2>2, <3>2, <4>2, <4>3
    <3> QED
      BY <2>1, <3>1, <3>2
  <2> QED
    BY <1>1, <2>1, <2>4, <2>5 DEF Arrived
<1> QED
  BY <1>1, <1>4, <1>5 DEF ArrivalInv

LEMMA BootArrives ==
    ASSUME TypeOK, ArrivalInv, NEW w \in Worker, Boot(w)
    PROVE  ArrivalInv'
<1> DEFINE first == IF up THEN [payload |-> stored.payload, version |-> stored.version,
                                until |-> now + TTL]
                    ELSE [NoCache EXCEPT !.until = now + TTL]
<1>1. /\ UNCHANGED <<now, stored, replaced, loading, up, outages>>
      /\ cache' = [cache EXCEPT ![w] = first]
      /\ emptied' = [emptied EXCEPT ![w] = None]
  BY DEF Boot, database, faults
<1>2. cache'[w] = first
  BY <1>1 DEF TypeOK
<1>3. first.until = now + TTL
  <2>1. \A y : y = [NoCache EXCEPT !.until = now + TTL] => y.until = now + TTL
    BY DEF NoCache
  <2> QED
    BY <2>1
<1>4. outages # 0 \/ (first.version # None /\ replaced[first.version] = None)
  <2>1. CASE up
    <3>1. first.version = stored.version /\ stored.version \in Version
          /\ stored.version >= stored.version
      BY <2>1, TimesAreNumbers
    <3> QED
      BY <3>1, Bounds DEF ArrivalInv
  <2>2. CASE ~up
    BY <2>2 DEF ArrivalInv
  <2> QED
    BY <2>1, <2>2
<1> HIDE DEF first
<1>5. Arrived(w)
  BY DEF ArrivalInv
<1>6. InTime(w)' /\ JustRead(w)'
  BY <1>1, <1>2, <1>4, <1>5 DEF InTime, Arrived, JustRead, Current
<1>7. Arrived(w)'
  BY <1>1, <1>2, <1>3, <1>6, NowIsInTime DEF Arrived
<1> QED
  BY <1>1, <1>7, OneArrives DEF TypeOK

\* Time passes only when nothing is being read.
LEMMA TickArrives ==
    ASSUME TypeOK, ArrivalInv, Tick
    PROVE  ArrivalInv'
<1>1. /\ UNCHANGED <<stored, replaced, cache, loading, emptied, up, outages>>
      /\ now' = now + 1 /\ \A w \in Worker : loading[w] = None
  BY DEF Tick, database, kept, faults
<1>2. ASSUME NEW w \in Worker
      PROVE  Arrived(w)'
  <2>1. Arrived(w)
    BY DEF ArrivalInv
  <2>2. cache[w].until <= (now + 1) + TTL
    BY <2>1, Bounds, TimesAreNumbers, DeadlineWaits DEF Arrived
  <2> QED
    BY <1>1, <2>1, <2>2 DEF Arrived, JustRead, InTime
<1> QED
  BY <1>1, <1>2 DEF ArrivalInv

\* An outage excuses whatever is kept, and is never forgotten.
LEMMA OutageArrives ==
    ASSUME TypeOK, ArrivalInv, GoDown \/ ComeUp
    PROVE  ArrivalInv'
<1>1. /\ UNCHANGED <<now, stored, replaced, cache, loading, emptied>>
      /\ outages' \in {outages, outages + 1} /\ (outages' = outages => up')
  <2>1. outages + 1 # outages
    BY TimesAreNumbers
  <2> QED
    BY <2>1 DEF GoDown, ComeUp, database, kept, TypeOK
<1>2. outages # 0 => outages' # 0
  BY <1>1, TimesAreNumbers
<1>3. ~up' => outages' # 0
  BY <1>1, TimesAreNumbers
<1> QED
  BY <1>1, <1>2, <1>3 DEF ArrivalInv, Arrived, JustRead, InTime, Current

LEMMA StepArrives ==
    ASSUME TypeOK, ArrivalInv, [Next]_vars
    PROVE  ArrivalInv'
<1> USE DEF database, kept, faults
<1>1. ASSUME NEW w \in Worker,
             \/ RollBack(w) \/ Watch(w) \/ RequestRestart(w)
             \/ \E form \in Form : BeginSave(w, form)
      PROVE  ArrivalInv'
  BY <1>1, SameArrives DEF BeginSave, RollBack, Watch, RequestRestart
<1>2. ASSUME NEW w \in Worker, Poll(w) \/ WorkerDies(w)
      PROVE  ArrivalInv'
  BY <1>2, SameArrives DEF Poll, WorkerDies, Stop
<1>3. CASE StartAgain \/ UNCHANGED vars
  BY <1>3, SameArrives DEF StartAgain, vars
<1> QED
  BY <1>1, <1>2, <1>3, BeginRefreshArrives, StorePayloadArrives, EndRefreshArrives,
     DropPayloadArrives, DropExpiryArrives, CommitArrives, BootArrives, TickArrives, OutageArrives
     DEF Next

LEMMA InitArrives ==
    ASSUME Init
    PROVE  ArrivalInv
<1>1. 0 <= 0 + TTL
  BY Bounds
<1> QED
  BY <1>1, EmptyTypes DEF Init, ArrivalInv, Arrived, JustRead, InTime

-----------------------------------------------------------------------------
(* The theorems.                                                             *)

(***************************************************************************)
(* Settings, what workers keep of them, saves and restarts are well-formed.*)
(***************************************************************************)
THEOREM SettingsTypesCorrect == Spec => []TypeOK
BY InitTypes, TypesKept, PTL DEF Spec

(***************************************************************************)
(* With any number of workers, requests and blind watchers, the container  *)
(* is ended no more often than it was asked to or a watcher was blind      *)
(* (shared/kernel/restart/watcher.py).                                     *)
(***************************************************************************)
THEOREM RestartsStayCounted == Spec => []RestartsAreCounted
<1>1. RestartInv => RestartsAreCounted
  BY DEF RestartInv
<1> QED
  BY <1>1, InitPays, StepPays, SettingsTypesCorrect, PTL DEF Spec

(***************************************************************************)
(* Whatever saves overlap, the stored settings fit each other where the    *)
(* environment names neither (system_settings_validation.py).              *)
(***************************************************************************)
THEOREM SavedSettingsAlwaysFit == Spec => []SavedSettingsFit
<1>1. FitInv => SavedSettingsFit
  BY DEF FitInv, SavedSettingsFit
<1> QED
  BY <1>1, InitFits, StepFits, SettingsTypesCorrect, PTL DEF Spec

(***************************************************************************)
(* Settings that were replaced are in use for less than TTL, at every      *)
(* worker, as long as the database is there; and a worker goes without     *)
(* stored settings only because a save of its own has emptied them less    *)
(* than TTL ago (shared/kernel/settings).                                  *)
(***************************************************************************)
THEOREM SavesAlwaysArrive == Spec => []SavesArriveInTime
<1>1. ASSUME TypeOK, ArrivalInv
      PROVE  SavesArriveInTime
  <2>1. SUFFICES ASSUME NEW w \in Worker, ~(now >= cache[w].until), outages = 0
                 PROVE  IF cache[w].version # None THEN Recent(replaced[cache[w].version])
                        ELSE emptied[w] # None /\ Recent(emptied[w])
    BY DEF SavesArriveInTime, Expired
  <2>2. InTime(w) /\ cache[w].until \in Nat /\ now \in Nat
    BY <1>1, TimesAreNumbers DEF ArrivalInv, Arrived
  <2>3. \A r \in Nat : cache[w].until <= r + TTL => now - r < TTL
    BY <2>1, <2>2, Bounds, DeadlineTells
  <2>4. cache[w].until # 0
    BY <2>1, <2>2
  <2> QED
    BY <2>1, <2>2, <2>3, <2>4 DEF InTime, Recent
<1> QED
  BY <1>1, InitArrives, StepArrives, SettingsTypesCorrect, PTL DEF Spec
=================================================================================
