---------------------------- MODULE Administration ----------------------------
(***************************************************************************)
(* Who may administer the installation: users have roles, roles grant      *)
(* scopes, and those with "user:manage" and "role:manage" change all of it *)
(* from the pages UsersPage and RolesPage (routers/admin/users.py and      *)
(* roles.py).  A request is checked by the scopes in its access token,     *)
(* which may be older than the rows (ADR-0037).  The master data is seeded *)
(* again by hand (scripts/seed_master_data.py).                            *)
(*                                                                         *)
(* A request is a Begin, which reads a snapshot and decides, and a Commit, *)
(* which writes the difference to what it read to the rows as they are by  *)
(* then.  Left out: names, addresses and passwords of users, the names of  *)
(* roles, and the owners of families, whose accounts are not deleted.      *)
(***************************************************************************)
EXTENDS Naturals

CONSTANTS
    User,       \* identifiers of accounts, none of them given out twice
    First,      \* DEFAULT_ADMIN_ID
    Role,
    AdminRole,  \* DEFAULT_ADMIN_ROLE
    Seeded,     \* ROLE_PERMISSIONS: what the master data says of each role in it
    Request,    \* requests served at the same time
    MaxTurns    \* bound on the requests that are ever begun

Code == {"user:manage", "role:manage"}

ASSUME AdministrationAssumption ==
    /\ First \in User /\ AdminRole \in DOMAIN Seeded
    /\ DOMAIN Seeded \subseteq Role
    /\ Seeded \in [DOMAIN Seeded -> SUBSET Code]
    /\ MaxTurns \in Nat

VARIABLES
    status,     \* users: not yet there, active, stopped by is_active, deleted
    has,        \* user_roles
    roles,      \* roles: those there are
    grants,     \* role_permissions: the scopes of each
    token,      \* the scopes in the access token of each user
    slot,       \* requests being served
    turns

tables == <<status, has, roles, grants>>
people == <<tables, token, slot, turns>>

Idle == [op |-> "idle"]

RolesOf(u) == {r \in Role : <<u, r>> \in has}

CodesOf(rs) == UNION {grants[r] : r \in rs}

\* permission_codes of those who may sign in.
Managers == {u \in User : status[u] = "active" /\ "user:manage" \in CodesOf(RolesOf(u))}

Exists(u) == status[u] \in {"active", "stopped"}

\* The installation as it was seeded, and perhaps a second user, whom anybody may be.
PeopleInit ==
    /\ \E second \in {"none", "active"} :
          status = [u \in User |-> IF u = First THEN "active" ELSE second]
    /\ \E others \in SUBSET ((User \ {First}) \X DOMAIN Seeded) :
          /\ \A x \in others : status[x[1]] = "active"
          /\ has = others \cup {<<First, AdminRole>>}
    /\ roles = DOMAIN Seeded
    /\ grants = [r \in Role |-> IF r \in DOMAIN Seeded THEN Seeded[r] ELSE {}]
    /\ token = [u \in User |-> {}]
    /\ slot = [c \in Request |-> Idle]
    /\ turns = 0

-----------------------------------------------------------------------------
(* Tokens.                                                                   *)

\* A sign-in or a refresh: of users who are not stopped, with what the rows say now.
\* How long a token is used after that is left open.
Obtain(u) ==
    /\ status[u] = "active"
    /\ token' = [token EXCEPT ![u] = CodesOf(RolesOf(u))]
    /\ UNCHANGED <<tables, slot, turns>>

\* require_permission looks at the token and at nothing else.
May(a, c) == c \in token[a]

Open(c, call) ==
    /\ slot[c] = Idle /\ turns < MaxTurns
    /\ turns' = turns + 1
    /\ slot' = [slot EXCEPT ![c] = call]
    /\ UNCHANGED <<tables, token>>

Close(c) ==
    /\ slot' = [slot EXCEPT ![c] = Idle]
    /\ UNCHANGED <<token, turns>>

-----------------------------------------------------------------------------
(* Users.                                                                    *)

\* The page sends all the roles a user is to have.  It starts from a list that
\* may be old, so that it may be any set; a role that is not there is refused.
Wanted == SUBSET roles

\* Mutant: nobody is kept from giving the power away.
LocksOutMutant(a, u, wanted) == FALSE

\* _reject_self_lockout
LocksOut(a, u, wanted) == u = a /\ "user:manage" \notin CodesOf(wanted)

BeginCreate(c, a, u, wanted) ==
    /\ May(a, "user:manage") /\ status[u] = "none"
    /\ Open(c, [op |-> "create", by |-> a, user |-> u, to |-> wanted])

BeginRoles(c, a, u, wanted) ==
    /\ May(a, "user:manage") /\ Exists(u) /\ ~LocksOut(a, u, wanted)
    /\ Open(c, [op |-> "roles", by |-> a, user |-> u, from |-> RolesOf(u), to |-> wanted,
                grants |-> grants])

\* The other way than in the list, which may be old.
BeginActive(c, a, u, to) ==
    /\ May(a, "user:manage") /\ Exists(u)
    /\ Open(c, [op |-> "active", by |-> a, user |-> u, to |-> to])

BeginDelete(c, a, u) ==
    /\ May(a, "user:manage") /\ Exists(u)
    /\ Open(c, [op |-> "delete", by |-> a, user |-> u, from |-> RolesOf(u)])

CommitCreate(c) ==
    LET s == slot[c] IN
    /\ s.op = "create" /\ status[s.user] = "none" /\ s.to \subseteq roles
    /\ status' = [status EXCEPT ![s.user] = "active"]
    /\ has' = has \cup ({s.user} \X s.to)
    /\ Close(c) /\ UNCHANGED <<roles, grants>>

\* A row to delete that is gone, or one to insert that is there, fails the request.
CommitRoles(c) ==
    LET s == slot[c]  old == s.from \ s.to  new == s.to \ s.from IN
    /\ s.op = "roles" /\ old \subseteq RolesOf(s.user)
    /\ new \cap RolesOf(s.user) = {} /\ new \subseteq roles /\ (new # {} => Exists(s.user))
    /\ has' = (has \ ({s.user} \X old)) \cup ({s.user} \X new)
    /\ Close(c) /\ UNCHANGED <<status, roles, grants>>

CommitActive(c) ==
    LET s == slot[c] IN
    /\ s.op = "active" /\ Exists(s.user)
    /\ status' = [status EXCEPT ![s.user] = s.to]
    /\ Close(c) /\ UNCHANGED <<has, roles, grants>>

\* A row of user_roles that was not read keeps the user (its foreign key).
CommitDelete(c) ==
    LET s == slot[c] IN
    /\ s.op = "delete" /\ Exists(s.user) /\ RolesOf(s.user) = s.from
    /\ status' = [status EXCEPT ![s.user] = "gone"]
    /\ has' = has \ ({s.user} \X Role)
    /\ Close(c) /\ UNCHANGED <<roles, grants>>

-----------------------------------------------------------------------------
(* Roles.                                                                    *)

WantedCodes == SUBSET Code

BeginRole(c, a, r, codes) ==
    /\ May(a, "role:manage") /\ r \notin roles
    /\ Open(c, [op |-> "role", by |-> a, role |-> r, to |-> codes])

BeginGrant(c, a, r, codes) ==
    /\ May(a, "role:manage") /\ r \in roles
    /\ Open(c, [op |-> "grant", by |-> a, role |-> r, from |-> grants[r], to |-> codes])

BeginDrop(c, a, r) ==
    /\ May(a, "role:manage") /\ r \in roles
    /\ Open(c, [op |-> "drop", by |-> a, role |-> r, from |-> grants[r]])

CommitRole(c) ==
    LET s == slot[c] IN
    /\ s.op = "role" /\ s.role \notin roles
    /\ roles' = roles \cup {s.role}
    /\ grants' = [grants EXCEPT ![s.role] = s.to]
    /\ Close(c) /\ UNCHANGED <<status, has>>

CommitGrant(c) ==
    LET s == slot[c]  old == s.from \ s.to  new == s.to \ s.from IN
    /\ s.op = "grant" /\ old \subseteq grants[s.role]
    /\ new \cap grants[s.role] = {} /\ (new # {} => s.role \in roles)
    /\ grants' = [grants EXCEPT ![s.role] = (@ \ old) \cup new]
    /\ Close(c) /\ UNCHANGED <<status, has, roles>>

\* A role that somebody has stays (the foreign key of user_roles).
CommitDrop(c) ==
    LET s == slot[c] IN
    /\ s.op = "drop" /\ s.role \in roles /\ grants[s.role] = s.from
    /\ \A u \in User : <<u, s.role>> \notin has
    /\ roles' = roles \ {s.role}
    /\ grants' = [grants EXCEPT ![s.role] = {}]
    /\ Close(c) /\ UNCHANGED <<status, has>>

\* A constraint, a row that is gone, or an error of the database.
RollBackRequest(c) ==
    /\ slot[c] # Idle
    /\ Close(c) /\ UNCHANGED tables

-----------------------------------------------------------------------------
(* Seeding.                                                                  *)

\* What is missing is added.  The first administrator is made again with its
\* role when its account is gone; an account that is there keeps what it has.
Seed ==
    /\ roles' = roles \cup DOMAIN Seeded
    /\ grants' = [r \in Role |-> IF r \in DOMAIN Seeded THEN grants[r] \cup Seeded[r] ELSE grants[r]]
    /\ IF status[First] \in {"none", "gone"}
       THEN /\ status' = [status EXCEPT ![First] = "active"]
            /\ has' = has \cup {<<First, AdminRole>>}
       ELSE UNCHANGED <<status, has>>
    /\ UNCHANGED <<token, slot, turns>>

BeginUsers(c, a) ==
    /\ slot[c] = Idle
    /\ \E u \in User :
         \/ \E wanted \in Wanted : BeginCreate(c, a, u, wanted) \/ BeginRoles(c, a, u, wanted)
         \/ \E to \in {"active", "stopped"} : BeginActive(c, a, u, to)
         \/ BeginDelete(c, a, u)

BeginARole(c, a) ==
    /\ slot[c] = Idle
    /\ \E r \in Role :
         \/ \E codes \in WantedCodes : BeginRole(c, a, r, codes) \/ BeginGrant(c, a, r, codes)
         \/ BeginDrop(c, a, r)

Commit(c) ==
    \/ CommitCreate(c) \/ CommitRoles(c) \/ CommitActive(c) \/ CommitDelete(c)
    \/ CommitRole(c) \/ CommitGrant(c) \/ CommitDrop(c)

PeopleNext ==
    \/ \E c \in Request, a \in User : BeginUsers(c, a) \/ BeginARole(c, a)
    \/ \E c \in Request : Commit(c) \/ RollBackRequest(c)
    \/ \E u \in User : Obtain(u)
    \/ Seed

PeopleSpec == PeopleInit /\ [][PeopleNext]_people

-----------------------------------------------------------------------------
(* Properties.                                                               *)

UserCall ==
    [op : {"create"}, by : User, user : User, to : SUBSET Role]
    \cup [op : {"roles"}, by : User, user : User, from : SUBSET Role, to : SUBSET Role,
          grants : [Role -> SUBSET Code]]
    \cup [op : {"active"}, by : User, user : User, to : {"active", "stopped"}]
    \cup [op : {"delete"}, by : User, user : User, from : SUBSET Role]

RoleCall ==
    [op : {"role"}, by : User, role : Role, to : SUBSET Code]
    \cup [op : {"grant"}, by : User, role : Role, from : SUBSET Code, to : SUBSET Code]
    \cup [op : {"drop"}, by : User, role : Role, from : SUBSET Code]

PeopleTypeOK ==
    /\ status \in [User -> {"none", "active", "stopped", "gone"}]
    /\ has \subseteq User \X Role
    /\ roles \subseteq Role
    /\ grants \in [Role -> SUBSET Code]
    /\ token \in [User -> SUBSET Code]
    /\ slot \in [Request -> {Idle} \cup UserCall \cup RoleCall]
    /\ turns \in 0 .. MaxTurns

Done(c) == slot[c] # Idle /\ slot'[c] = Idle

\* What a change of roles was decided on is no longer so.
OutOfDate(c) ==
    slot[c].op = "roles" /\ (slot[c].grants # grants \/ slot[c].from # RolesOf(slot[c].user))

OnOneself(c) == slot[c].op \in {"active", "delete"} /\ slot[c].user = slot[c].by

\* Nobody can manage users any more, and what is to be said of the request that did it.
Closes == Managers # {} /\ Managers' = {}

Excused(c) ==
    Done(c) /\ \/ slot[c].by \notin Managers
               \/ OutOfDate(c)
               \/ slot[c].op = "grant"
               \/ OnOneself(c)

(***************************************************************************)
(* The hand that changes others stays (users.py, _reject_self_lockout): a  *)
(* request after which nobody can manage users any more was made by        *)
(* somebody who could not manage users by then but had a token that said   *)
(* so, or was decided on rows that have changed since; or it is one of the *)
(* two that the code lets through, a change of what a role grants and the  *)
(* end of one's own account.                                               *)
(***************************************************************************)
OnlyAStaleHandCloses == [][Closes => \E c \in Request : Excused(c)]_people
=============================================================================
