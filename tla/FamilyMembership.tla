--------------------------- MODULE FamilyMembership ---------------------------
(***************************************************************************)
(* Families, the participants in them and the invitation codes that bring  *)
(* accounts in (ADR-0009, ADR-0013, ADR-0014, ADR-0018, ADR-0020): create, *)
(* add a child, invite, accept, redeem, leave with succession, remove,     *)
(* independence in two stages, dissolve, deletion of an account.           *)
(*                                                                         *)
(* A request is a transaction at REPEATABLE READ, in two steps: Begin      *)
(* evaluates the guards in a snapshot, Commit writes to what is committed  *)
(* by then, under the foreign keys and UNIQUE (family_id, account_id).     *)
(* A request that is refused writes nothing and is no step.                *)
(*                                                                         *)
(* Left out: names, the order of display, display devices, and the records *)
(* of a child's ledger (a removal is refused while there are any: see      *)
(* PointLedger; here the ledger is empty when a removal begins).           *)
(***************************************************************************)
EXTENDS Integers, FiniteSets

CONSTANTS
    Family,     \* identifiers of families, handed out once each
    Account,    \* identifiers of accounts, handed out once each
    Adult,      \* the accounts the administrator has created
    Code,       \* invitation codes, generated once each
    Request,    \* slots: how many requests run at the same time
    MaxId,      \* bound on the participants ever created
    NoFamily,
    NoAccount,  \* NULL in family_memberships.account_id
    NoCode

ASSUME FamilyAssumption ==
    /\ Adult \subseteq Account
    /\ MaxId \in Nat
    /\ NoFamily \notin Family
    /\ NoAccount \notin Account
    /\ NoCode \notin Code

Id == 1..MaxId

VARIABLES
    accounts,   \* users: not created yet, with a child's or a member's role, or gone
    founded,    \* families created so far
    families,   \* families that exist
    member,     \* family_memberships
    nextId,     \* the next value of its auto-increment identifier
    code,       \* family_invitations
    slot        \* the requests being served

tables == <<accounts, founded, families, member, nextId, code>>
vars == <<accounts, founded, families, member, nextId, code, slot>>

-----------------------------------------------------------------------------
(* Participants and invitations.                                             *)

Kind == {"unborn", "child", "member", "gone"}

Role == {"owner", "parent", "child"}

Nobody == [family |-> NoFamily, account |-> NoAccount, role |-> "none", proposed |-> FALSE]

Membership ==
    {Nobody} \cup [family : Family, account : Account \cup {NoAccount}, role : Role,
                   proposed : BOOLEAN]

Invitation ==
    [status : {"unissued", "open", "used", "expired", "gone"}, family : Family \cup {NoFamily},
     role : {"none", "parent", "child"}, target : Id \cup {0}]

Unissued == [status |-> "unissued", family |-> NoFamily, role |-> "none", target |-> 0]

Removed == [status |-> "gone", family |-> NoFamily, role |-> "none", target |-> 0]

Alive(a) == accounts[a] \in {"child", "member"}

Exists(m) == member[m] # Nobody

Linked(m) == member[m].account # NoAccount

In(f) == {m \in Id : member[m].family = f}

IsGuardian(m) == member[m].role \in {"owner", "parent"}

\* membership_in: the participation of an account in a family.
MembershipIn(f, a) == {m \in In(f) : member[m].account = a}

\* list_for_account.
ListForAccount(a) == {m \in Id : member[m].account = a}

New(f, a, role) == [family |-> f, account |-> a, role |-> role, proposed |-> FALSE]

\* The invitations that go with a family or a participant (ON DELETE CASCADE).
CodesWithout(fs, ms) ==
    [c \in Code |-> IF code[c].family \in fs \/ code[c].target \in ms THEN Removed ELSE code[c]]

-----------------------------------------------------------------------------
(* Requests.  A plan holds what the snapshot decided: heir is the parent that *)
(* succeeds an owner, account the account to link, to delete or to promote.  *)

Idle == [op |-> "idle", family |-> NoFamily, account |-> NoAccount, id |-> 0, heir |-> 0,
         code |-> NoCode, role |-> "none"]

Slot == [op : {"idle", "create", "add_child", "invite", "revoke", "accept", "redeem", "leave",
               "remove", "propose", "withdraw", "approve", "dissolve", "delete_account"},
         family : Family \cup {NoFamily}, account : Account \cup {NoAccount},
         id : Id \cup {0}, heir : Id \cup {0}, code : Code \cup {NoCode},
         role : Role \cup {"none"}]

Serving(r, op) == slot[r].op = op

Decide(r, plan) == /\ Serving(r, "idle")
                   /\ slot' = [slot EXCEPT ![r] = plan]
                   /\ UNCHANGED tables

Finish(r) == slot' = [slot EXCEPT ![r] = Idle]

Init ==
    /\ accounts = [a \in Account |-> IF a \in Adult THEN "member" ELSE "unborn"]
    /\ founded = {}
    /\ families = {}
    /\ member = [m \in Id |-> Nobody]
    /\ nextId = 1
    /\ code = [c \in Code |-> Unissued]
    /\ slot = [r \in Request |-> Idle]

-----------------------------------------------------------------------------
(* What a request decides, on its snapshot.                                  *)

\* The endpoints that manage a family ask for the scope of a member's account.
Managing(f, a, m) == accounts[a] = "member" /\ m \in MembershipIn(f, a)

Guarding(f, a) == \E m \in Id : Managing(f, a, m) /\ IsGuardian(m)

Owning(f, a) == \E m \in Id : Managing(f, a, m) /\ member[m].role = "owner"

BeginCreate(r, a) ==
    /\ accounts[a] = "member"
    /\ ListForAccount(a) = {}
    /\ Decide(r, [Idle EXCEPT !.op = "create", !.account = a])

BeginAddChild(r, f, a) ==
    /\ Guarding(f, a)
    /\ Decide(r, [Idle EXCEPT !.op = "add_child", !.family = f])

CanInvite(f, a, role) == IF role = "child" THEN Guarding(f, a) ELSE Owning(f, a)

BeginInvite(r, f, a, role, target) ==
    /\ CanInvite(f, a, role)
    /\ target # 0 => target \in In(f) /\ ~Linked(target)
    /\ Decide(r, [Idle EXCEPT !.op = "invite", !.family = f, !.role = role, !.id = target])

BeginRevoke(r, f, a, c) ==
    /\ code[c].family = f
    /\ CanInvite(f, a, code[c].role)
    /\ Decide(r, [Idle EXCEPT !.op = "revoke", !.code = c])

\* bind(): the code is open, and the participant it is for is not linked.
Bindable(c) ==
    /\ code[c].status = "open"
    /\ code[c].target # 0 => /\ code[c].target \in In(code[c].family)
                             /\ ~Linked(code[c].target)

\* The role of the participation an invitation leads to.
RoleFrom(c) == IF code[c].target = 0 THEN code[c].role ELSE member[code[c].target].role

Joining(op, c, a) ==
    [op |-> op, family |-> code[c].family, account |-> a, id |-> code[c].target, heir |-> 0,
     code |-> c, role |-> code[c].role]

\* An account that exists joins as a guardian; children sign up instead.
BeginAccept(r, c, a) ==
    /\ accounts[a] = "member"
    /\ Bindable(c)
    /\ ListForAccount(a) = {}
    /\ RoleFrom(c) # "child"
    /\ Decide(r, Joining("accept", c, a))

\* A new account is created with the role of the invitation.
BeginRedeem(r, c) ==
    /\ Bindable(c)
    /\ Decide(r, Joining("redeem", c, NoAccount))

\* Mutant: participants without an account count as remaining guardians.
RemainingAnyone(f, m) == {n \in In(f) \ {m} : IsGuardian(n)}

Remaining(f, m) == {n \in In(f) \ {m} : IsGuardian(n) /\ Linked(n)}

Oldest(S) == {n \in S : \A o \in S : n <= o}

\* The owner is succeeded; an heir that is an owner already is not written.
Succeeds(n, m) == member[m].role = "owner" /\ member[n].role # "owner"

BeginLeave(r, f, a) ==
    \E m \in MembershipIn(f, a) : \E n \in Oldest(Remaining(f, m)) :
        /\ IsGuardian(m)
        /\ Decide(r, [Idle EXCEPT !.op = "leave", !.id = m,
                                  !.heir = IF Succeeds(n, m) THEN n ELSE 0])

\* The account of a child goes with its participation.
BeginRemove(r, f, a, m) ==
    /\ Owning(f, a)
    /\ m \in In(f) \ MembershipIn(f, a)
    /\ Decide(r, [Idle EXCEPT !.op = "remove", !.id = m,
                              !.account = IF member[m].role = "child" THEN member[m].account
                                          ELSE NoAccount])

BeginPropose(r, f, a, m) ==
    /\ Guarding(f, a)
    /\ m \in In(f)
    /\ member[m].role = "child" /\ Linked(m)
    /\ Decide(r, [Idle EXCEPT !.op = "propose", !.id = m])

BeginWithdraw(r, f, a, m) ==
    /\ Guarding(f, a)
    /\ m \in In(f)
    /\ member[m].proposed
    /\ Decide(r, [Idle EXCEPT !.op = "withdraw", !.id = m])

\* An account that has a member's role already is not promoted.
Leaving(m, a) ==
    [Idle EXCEPT !.op = "approve", !.id = m,
                 !.account = IF accounts[a] = "child" THEN a ELSE NoAccount]

BeginApprove(r, f, a) ==
    \E m \in MembershipIn(f, a) :
        /\ member[m].role = "child"
        /\ member[m].proposed
        /\ Decide(r, Leaving(m, a))

\* Mutant: the other participants are not looked for.
BeginDissolveAnyway(r, f, a) ==
    /\ Owning(f, a)
    /\ \E m \in MembershipIn(f, a) :
          Decide(r, [Idle EXCEPT !.op = "dissolve", !.family = f, !.id = m])

BeginDissolve(r, f, a) ==
    /\ Owning(f, a)
    /\ In(f) = MembershipIn(f, a)
    /\ \E m \in MembershipIn(f, a) :
          Decide(r, [Idle EXCEPT !.op = "dissolve", !.family = f, !.id = m])

\* The administrator: not while the account owns a family.
BeginDeleteAccount(r, a) ==
    /\ Alive(a)
    /\ \A m \in ListForAccount(a) : member[m].role # "owner"
    /\ Decide(r, [Idle EXCEPT !.op = "delete_account", !.account = a])

-----------------------------------------------------------------------------
(* What it writes, to the committed tables.                                  *)

\* Participants S are deleted, accounts A are deleted (ON DELETE SET NULL).
MembersWithout(S, A) ==
    [m \in Id |-> IF m \in S THEN Nobody
                  ELSE IF member[m].account \in A THEN [member[m] EXCEPT !.account = NoAccount]
                  ELSE member[m]]

AddMember(f, a, role) ==
    /\ nextId \in Id
    /\ member' = [member EXCEPT ![nextId] = New(f, a, role)]
    /\ nextId' = nextId + 1

CommitCreate(r) ==
    /\ Serving(r, "create")
    /\ Alive(slot[r].account)
    /\ \E f \in Family \ founded :
          /\ founded' = founded \cup {f}
          /\ families' = families \cup {f}
          /\ AddMember(f, slot[r].account, "owner")
    /\ UNCHANGED <<accounts, code>>
    /\ Finish(r)

CommitAddChild(r) ==
    /\ Serving(r, "add_child")
    /\ slot[r].family \in families
    /\ AddMember(slot[r].family, NoAccount, "child")
    /\ UNCHANGED <<accounts, founded, families, code>>
    /\ Finish(r)

CommitInvite(r) ==
    /\ Serving(r, "invite")
    /\ slot[r].family \in families
    /\ slot[r].id # 0 => Exists(slot[r].id)
    /\ \E c \in Code :
          /\ code[c].status = "unissued"
          /\ code' = [code EXCEPT ![c] = [status |-> "open", family |-> slot[r].family,
                                          role |-> slot[r].role, target |-> slot[r].id]]
    /\ UNCHANGED <<accounts, founded, families, member, nextId>>
    /\ Finish(r)

\* A bulk DELETE: an invitation that is gone already is no error.
CommitRevoke(r) ==
    /\ Serving(r, "revoke")
    /\ code' = [code EXCEPT ![slot[r].code] = Removed]
    /\ UNCHANGED <<accounts, founded, families, member, nextId>>
    /\ Finish(r)

\* Mutant: consume() goes by the invitation that was read.
ConsumeTwice(c) ==
    /\ code[c].status \in {"open", "used"}
    /\ code' = [code EXCEPT ![c].status = "used"]

\* consume(): an UPDATE on the condition that the code is still open.
Consume(c) ==
    /\ code[c].status = "open"
    /\ code' = [code EXCEPT ![c].status = "used"]

\* The participation of an account: the one the invitation is for, or a new one.
Participate(f, a, role, target) ==
    /\ MembershipIn(f, a) = {}
    /\ \/ /\ target # 0
          /\ Exists(target)
          /\ member' = [member EXCEPT ![target].account = a]
          /\ UNCHANGED nextId
       \/ /\ target = 0
          /\ f \in families
          /\ AddMember(f, a, role)

CommitAccept(r) ==
    /\ Serving(r, "accept")
    /\ Consume(slot[r].code)
    /\ Alive(slot[r].account)
    /\ Participate(slot[r].family, slot[r].account, slot[r].role, slot[r].id)
    /\ UNCHANGED <<accounts, founded, families>>
    /\ Finish(r)

CommitRedeem(r) ==
    /\ Serving(r, "redeem")
    /\ Consume(slot[r].code)
    /\ \E a \in Account :
          /\ accounts[a] = "unborn"
          /\ accounts' = [accounts EXCEPT ![a] = IF slot[r].role = "child" THEN "child"
                                                 ELSE "member"]
          /\ Participate(slot[r].family, a, slot[r].role, slot[r].id)
    /\ UNCHANGED <<founded, families>>
    /\ Finish(r)

\* The heir becomes the owner (an UPDATE: StaleDataError, so Rollback, if it is
\* gone), and the participation is deleted (a bulk DELETE).
CommitLeave(r) ==
    /\ Serving(r, "leave")
    /\ LET m == slot[r].id
           h == slot[r].heir
           left == MembersWithout({m}, {})
       IN /\ h # 0 => Exists(h)
          /\ member' = [n \in Id |-> IF n = h THEN [left[n] EXCEPT !.role = "owner"] ELSE left[n]]
          /\ code' = CodesWithout({}, {m})
    /\ UNCHANGED <<accounts, founded, families, nextId>>
    /\ Finish(r)

Deleting(a) ==
    /\ a # NoAccount => Alive(a)
    /\ accounts' = [b \in Account |-> IF b = a THEN "gone" ELSE accounts[b]]

\* Mutant: the participations of a deleted account keep pointing at it.
CommitRemoveDangling(r) ==
    /\ Serving(r, "remove")
    /\ Deleting(slot[r].account)
    /\ member' = MembersWithout({slot[r].id}, {})
    /\ UNCHANGED <<founded, families, nextId, code>>
    /\ Finish(r)

CommitRemove(r) ==
    /\ Serving(r, "remove")
    /\ Deleting(slot[r].account)
    /\ member' = MembersWithout({slot[r].id}, {slot[r].account} \ {NoAccount})
    /\ code' = CodesWithout({}, {slot[r].id})
    /\ UNCHANGED <<founded, families, nextId>>
    /\ Finish(r)

CommitPropose(r) ==
    /\ Serving(r, "propose")
    /\ Exists(slot[r].id)
    /\ member' = [member EXCEPT ![slot[r].id].proposed = TRUE]
    /\ UNCHANGED <<accounts, founded, families, nextId, code>>
    /\ Finish(r)

CommitWithdraw(r) ==
    /\ Serving(r, "withdraw")
    /\ Exists(slot[r].id)
    /\ member' = [member EXCEPT ![slot[r].id].proposed = FALSE]
    /\ UNCHANGED <<accounts, founded, families, nextId, code>>
    /\ Finish(r)

\* The participation goes, the account stays and gets a member's role.
CommitApprove(r) ==
    /\ Serving(r, "approve")
    /\ slot[r].account # NoAccount => Alive(slot[r].account)
    /\ member' = MembersWithout({slot[r].id}, {})
    /\ accounts' = [a \in Account |-> IF a = slot[r].account THEN "member" ELSE accounts[a]]
    /\ code' = CodesWithout({}, {slot[r].id})
    /\ UNCHANGED <<founded, families, nextId>>
    /\ Finish(r)

\* Everybody who is in the family by now goes with it (ON DELETE CASCADE).
CommitDissolve(r) ==
    /\ Serving(r, "dissolve")
    /\ LET f == slot[r].family
           gone == In(f) \cup {slot[r].id}
       IN /\ families' = families \ {f}
          /\ member' = MembersWithout(gone, {})
          /\ code' = CodesWithout({f}, gone)
    /\ UNCHANGED <<accounts, founded, nextId>>
    /\ Finish(r)

CommitDeleteAccount(r) ==
    /\ Serving(r, "delete_account")
    /\ Alive(slot[r].account)
    /\ accounts' = [accounts EXCEPT ![slot[r].account] = "gone"]
    /\ member' = MembersWithout({}, {slot[r].account})
    /\ UNCHANGED <<founded, families, nextId, code>>
    /\ Finish(r)

\* A constraint, a row that is gone, a code that is used by now, a deadlock or a
\* crash: nothing is written.
Rollback(r) ==
    /\ ~Serving(r, "idle")
    /\ UNCHANGED tables
    /\ Finish(r)

\* The time of an invitation runs out.
Expire(c) ==
    /\ code[c].status = "open"
    /\ code' = [code EXCEPT ![c].status = "expired"]
    /\ UNCHANGED <<accounts, founded, families, member, nextId, slot>>

BeginInFamily(r, f, a) ==
    /\ Serving(r, "idle")
    /\ \/ BeginAddChild(r, f, a)
       \/ BeginLeave(r, f, a)
       \/ BeginApprove(r, f, a)
       \/ BeginDissolve(r, f, a)
       \/ \E role \in {"parent", "child"}, t \in Id \cup {0} : BeginInvite(r, f, a, role, t)
       \/ \E c \in Code : BeginRevoke(r, f, a, c)
       \/ \E m \in Id : \/ BeginRemove(r, f, a, m)
                        \/ BeginPropose(r, f, a, m)
                        \/ BeginWithdraw(r, f, a, m)

BeginAlone(r, a) ==
    \/ BeginCreate(r, a)
    \/ BeginDeleteAccount(r, a)
    \/ \E c \in Code : BeginAccept(r, c, a)

Commit(r) ==
    \/ CommitCreate(r) \/ CommitAddChild(r) \/ CommitInvite(r) \/ CommitRevoke(r)
    \/ CommitAccept(r) \/ CommitRedeem(r) \/ CommitLeave(r) \/ CommitRemove(r)
    \/ CommitPropose(r) \/ CommitWithdraw(r) \/ CommitApprove(r) \/ CommitDissolve(r)
    \/ CommitDeleteAccount(r)

Next ==
    \/ \E r \in Request, f \in Family, a \in Account : BeginInFamily(r, f, a)
    \/ \E r \in Request, a \in Account : BeginAlone(r, a)
    \/ \E r \in Request, c \in Code : BeginRedeem(r, c)
    \/ \E r \in Request : Commit(r) \/ Rollback(r)
    \/ \E c \in Code : Expire(c)

Spec == Init /\ [][Next]_vars

-----------------------------------------------------------------------------
(* Properties.                                                               *)

TypeOK ==
    /\ accounts \in [Account -> Kind]
    /\ founded \subseteq Family
    /\ families \subseteq founded
    /\ member \in [Id -> Membership]
    /\ nextId \in Nat \ {0}
    /\ code \in [Code -> Invitation]
    /\ slot \in [Request -> Slot]

(***************************************************************************)
(* Whatever overlaps, nothing points at what is gone: a participation at a *)
(* family or an account, an invitation at a family or a participant of     *)
(* that family; and an account is in a family at most once                 *)
(* (reward_points_models.py).                                              *)
(***************************************************************************)
NothingDangles ==
    /\ \A m \in Id : Exists(m) =>
          /\ member[m].family \in families
          /\ Linked(m) => Alive(member[m].account)
          /\ \A n \in MembershipIn(member[m].family, member[m].account) : Linked(m) => n = m
    /\ \A c \in Code : code[c].status \in {"open", "used", "expired"} =>
          /\ code[c].family \in families
          /\ code[c].target # 0 => code[c].target \in In(code[c].family)

(***************************************************************************)
(* A code works once, and nobody comes in without one: a participation     *)
(* gets an account only in the step that uses up an open code of its       *)
(* family, or creates the family; a code that is used up has brought in    *)
(* exactly one account; a code that is used or gone never opens again      *)
(* (consume).                                                              *)
(***************************************************************************)
Entering(m) == Linked(m)' /\ member'[m].account # member[m].account

UsedUp(c) == code[c].status = "open" /\ code'[c].status = "used"

EntryByCode ==
    /\ \A m \in Id : Entering(m) =>
          \/ member'[m].family \in families' \ families
          \/ \E c \in Code : UsedUp(c) /\ code[c].family = member'[m].family
    /\ \A c \in Code : UsedUp(c) => \E m \in Id : Entering(m)
    /\ \A m, n \in Id : Entering(m) /\ Entering(n) => m = n
    /\ \A c \in Code : code'[c].status = "open" => code[c].status \in {"open", "unissued"}

CodesWorkOnce == [][EntryByCode]_vars

(***************************************************************************)
(* With one request at a time, a family always has exactly one owner, and  *)
(* the owner has an account (LeaveFamilyUseCase, EnsureUserCanBeDeleted-   *)
(* UseCase, RemoveMembershipUseCase).                                      *)
(***************************************************************************)
Owners(f) == {m \in In(f) : member[m].role = "owner"}

OwnerRuns == \A f \in families : \E m \in Owners(f) : Linked(m) /\ Owners(f) = {m}

(***************************************************************************)
(* With one request at a time, an account belongs to one family            *)
(* (ADR-0013 accepts that requests that overlap can break this).           *)
(***************************************************************************)
OneFamilyPerAccount == \A a \in Account : \A m, n \in ListForAccount(a) : m = n

\* Nobody but the owner goes with a dissolution, and no child leaves whose proposal
\* is withdrawn.
SweepsNobody ==
    \A r \in Request, m \in Id :
        Exists(m) /\ ~Exists(m)' =>
            /\ Serving(r, "dissolve") => member[m].role = "owner"
            /\ Serving(r, "approve") => member[m].proposed
=============================================================================
