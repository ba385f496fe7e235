--------------------------- MODULE DisplayPairing ---------------------------
(***************************************************************************)
(* The pairing of display screens (bounded_contexts/display_devices, with  *)
(* the roster of displays in reward_points and frontend DisplayPage.tsx).  *)
(* A screen starts a pairing and shows a code; a person approves the code, *)
(* which gives birth to a display account; the screen polls and receives a *)
(* secret, once; it exchanges the secret for short access tokens until the *)
(* display is detached or the secret has not been used for too long.       *)
(*                                                                         *)
(* A request is a Begin (its guards and its plan, on the tables as they    *)
(* are) and a Commit (its writes, on the tables as they are by then); then *)
(* the answer travels back and may be lost.                                *)
(***************************************************************************)
EXTENDS Integers

CONSTANTS
    Screen,        \* devices that show a family
    Code,          \* confirmation codes, each drawn at most once
    Request,       \* slots for requests being served
    NoCode, NoRow, NoCall,
    MaxAccount,    \* bound on display accounts ever created
    MaxSecret,     \* bound on secrets ever drawn
    MaxTime,       \* end of the calendar
    MaxLost,       \* bound on answers lost on the way
    PairingTTL, Retention, IdleLimit, TokenLife

Time == 0 .. MaxTime
Account == 1 .. MaxAccount
Secret == 1 .. MaxSecret
PairingRow == [expires : Nat, account : 0 .. MaxAccount, claimed : BOOLEAN]
CredentialRow == [secret : Secret, used : Time]
Call == [phase : {"open", "done"},
         op : {"start", "claim", "open", "expire", "approve", "detach", "dissolve"},
         code : Code \cup {NoCode}, account : 0 .. MaxAccount,
         secret : 0 .. MaxSecret, insert : BOOLEAN, at : Time,
         answer : {"none", "ok", "pending", "expired", "removed", "error"}]
Memory == [code : Code \cup {NoCode}, secret : 0 .. MaxSecret,
           owner : 0 .. MaxAccount, until : Nat, call : Request \cup {NoCall}]

ASSUME DisplayAssumption ==
    /\ MaxAccount \in Nat /\ MaxSecret \in Nat /\ MaxTime \in Nat /\ MaxLost \in Nat
    /\ PairingTTL \in Nat /\ Retention \in Nat /\ IdleLimit \in Nat /\ TokenLife \in Nat
    /\ NoCode \notin Code /\ NoCall \notin Request \cup Call
    /\ NoRow \notin [expires : Nat, account : Nat, claimed : BOOLEAN]
    /\ NoRow \notin [secret : Nat, used : Nat]

VARIABLES
    now,          \* the clock of the servers
    family,       \* whether the family exists
    pairing,      \* display_pairings: the row of each code
    drawn,        \* codes drawn so far
    accounts,     \* users that are display accounts
    active,       \* those among them that are not stopped
    members,      \* those among them that take part in the family
    credential,   \* display_credentials: the row of each account
    born,         \* accounts created so far
    secrets,      \* secrets drawn so far
    slot,         \* requests being served, and answers on their way
    screen,       \* what each device remembers
    outSince,     \* history: since when an account may open no session
    lost          \* answers lost so far

tables == <<family, pairing, accounts, active, members, credential>>
vars == <<now, drawn, born, secrets, slot, screen, lost, outSince, tables>>

TypeOK ==
    /\ now \in Time
    /\ family \in BOOLEAN
    /\ pairing \in [Code -> PairingRow \cup {NoRow}]
    /\ drawn \subseteq Code
    /\ born \in 0 .. MaxAccount
    /\ secrets \in 0 .. MaxSecret
    /\ accounts \subseteq Account /\ active \subseteq Account /\ members \subseteq Account
    /\ credential \in [Account -> CredentialRow \cup {NoRow}]
    /\ slot \in [Request -> Call \cup {NoCall}]
    /\ screen \in [Screen -> Memory]
    /\ outSince \in [Account -> Time \cup {MaxTime + 1}]
    /\ lost \in 0 .. MaxLost

Blank == [code |-> NoCode, secret |-> 0, owner |-> 0, until |-> 0, call |-> NoCall]

Init ==
    /\ now = 0
    /\ family = TRUE
    /\ pairing = [p \in Code |-> NoRow]
    /\ drawn = {} /\ born = 0 /\ secrets = 0
    /\ accounts = {} /\ active = {} /\ members = {}
    /\ credential = [a \in Account |-> NoRow]
    /\ slot = [r \in Request |-> NoCall]
    /\ screen = [d \in Screen |-> Blank]
    /\ outSince = [a \in Account |-> MaxTime + 1]
    /\ lost = 0

-----------------------------------------------------------------------------
(* Predicates of the entities.                                             *)

IsExpired(row, t) == t >= row.expires

IsApproved(row) == row.account # 0

CanBeApproved(row, t) == ~IsExpired(row, t) /\ ~IsApproved(row) /\ ~row.claimed

\* Mutant: the participation is not asked.
OnRosterMutant(a) == a \in accounts

\* An account on the roster: a display of a family that exists.
OnRoster(a) == a \in accounts /\ a \in members

Owners(s) == {a \in Account : credential[a] # NoRow /\ credential[a].secret = s}

IdleTooLong(row, t) == row.used + IdleLimit < t

-----------------------------------------------------------------------------
(* Requests.                                                               *)

Blueprint(op) ==
    [phase |-> "open", op |-> op, code |-> NoCode, account |-> 0, secret |-> 0,
     insert |-> FALSE, at |-> 0, answer |-> "none"]

Refused(op, answer) == [Blueprint(op) EXCEPT !.phase = "done", !.answer = answer]

\* A request takes a slot.
Ask(r, plan) ==
    /\ slot[r] = NoCall
    /\ slot' = [slot EXCEPT ![r] = plan]

\* A screen's request takes a slot, and the screen waits for its answer.
AskFrom(d, r, plan) ==
    /\ screen[d].call = NoCall
    /\ Ask(r, plan)
    /\ screen' = [screen EXCEPT ![d].call = r]

\* An answer nobody waits for is gone at once.
Answered(r, answer) ==
    slot' = [slot EXCEPT ![r] =
        IF \E d \in Screen : screen[d].call = r
        THEN IF answer = "ok" THEN [@ EXCEPT !.phase = "done", !.answer = "ok"]
             ELSE Refused(@.op, answer)
        ELSE NoCall]

Runs(r, op) == slot[r] # NoCall /\ slot[r].phase = "open" /\ slot[r].op = op

\* StartPairingUseCase: a code that is not in use.
BeginStart(d, r) ==
    /\ screen[d].secret = 0 /\ screen[d].code = NoCode
    /\ \E p \in Code \ drawn :
        /\ AskFrom(d, r, [Blueprint("start") EXCEPT !.code = p, !.at = now])
        /\ drawn' = drawn \cup {p}
    /\ UNCHANGED <<now, born, secrets, lost, outSince, tables>>

\* Old pairings are swept, as committed by then, before the new one is added.
Swept(t) ==
    [p \in Code |-> IF pairing[p] # NoRow /\ pairing[p].expires + Retention < t
                    THEN NoRow ELSE pairing[p]]

CommitStart(r) ==
    /\ Runs(r, "start")
    /\ pairing' = [Swept(slot[r].at) EXCEPT ![slot[r].code] =
                    [expires |-> slot[r].at + PairingTTL, account |-> 0, claimed |-> FALSE]]
    /\ Answered(r, "ok")
    /\ UNCHANGED <<now, family, drawn, accounts, active, members, credential, born,
                   secrets, screen, lost, outSince>>

\* ApprovePairingUseCase, by a guardian of the family.
BeginApprove(r) ==
    /\ family
    /\ \E p \in Code :
        /\ pairing[p] # NoRow /\ CanBeApproved(pairing[p], now)
        /\ Ask(r, [Blueprint("approve") EXCEPT !.code = p])
    /\ UNCHANGED <<now, drawn, born, secrets, screen, lost, outSince, tables>>

\* DisplayRoster.attach and mark_approved.  The account and the participation
\* are inserted (the family must exist); the row of the code is updated by its
\* identifier, whatever it says by then.
CommitApprove(r) ==
    LET a == born + 1  p == slot[r].code IN
    /\ Runs(r, "approve")
    /\ family /\ pairing[p] # NoRow
    /\ a \in Account
    /\ born' = a
    /\ accounts' = accounts \cup {a} /\ active' = active \cup {a} /\ members' = members \cup {a}
    /\ pairing' = [pairing EXCEPT ![p].account = a]
    /\ Answered(r, "ok")
    /\ UNCHANGED <<now, family, drawn, credential, secrets, screen, lost, outSince>>

\* ClaimPairingUseCase: what the row of the code says decides the answer.
BeginClaim(d, r) ==
    LET p == screen[d].code  row == pairing[p] IN
    /\ p # NoCode
    /\ \/ /\ row = NoRow \/ (row # NoRow /\ (row.claimed \/ IsExpired(row, now)))
          /\ AskFrom(d, r, Refused("claim", "expired"))
          /\ UNCHANGED secrets
       \/ /\ row # NoRow /\ ~row.claimed /\ ~IsExpired(row, now) /\ ~IsApproved(row)
          /\ AskFrom(d, r, Refused("claim", "pending"))
          /\ UNCHANGED secrets
       \/ /\ row # NoRow /\ ~row.claimed /\ ~IsExpired(row, now) /\ IsApproved(row)
          /\ secrets < MaxSecret
          /\ secrets' = secrets + 1
          /\ AskFrom(d, r, [Blueprint("claim") EXCEPT
                              !.code = p, !.account = row.account, !.secret = secrets + 1, !.at = now,
                              !.insert = credential[row.account] = NoRow])
    /\ UNCHANGED <<now, drawn, born, lost, outSince, tables>>

\* Mutant: a credential is written over whatever is there.
ReplaceableMutant(plan) == plan.account \in accounts

\* replace() inserts a row, or updates the one it read: the primary key, the
\* foreign key and the count of updated rows decide whether it may.
Replaceable(plan) ==
    /\ plan.account \in accounts
    /\ plan.insert <=> credential[plan.account] = NoRow

CommitClaim(r) ==
    LET plan == slot[r] IN
    /\ Runs(r, "claim")
    /\ Replaceable(plan)
    /\ pairing[plan.code] # NoRow
    /\ credential' = [credential EXCEPT ![plan.account] = [secret |-> plan.secret, used |-> plan.at]]
    /\ pairing' = [pairing EXCEPT ![plan.code].claimed = TRUE]
    /\ Answered(r, "ok")
    /\ UNCHANGED <<now, family, drawn, accounts, active, members, born, secrets,
                   screen, outSince, lost>>

\* open_session.  A secret that was idle too long is not used but expired; an
\* account that is stopped or out of its family is refused like a detached one.
\* The expiry of a display that is not on the roster raises, and is no 401.
BeginOpen(d, r) ==
    LET s == screen[d].secret IN
    /\ s # 0
    /\ \/ Owners(s) = {} /\ AskFrom(d, r, Refused("open", "removed"))
       \/ \E a \in Owners(s) :
            \/ /\ IdleTooLong(credential[a], now)
               /\ \/ OnRoster(a) /\ AskFrom(d, r, [Blueprint("expire") EXCEPT !.account = a])
                  \/ ~OnRoster(a) /\ AskFrom(d, r, Refused("expire", "error"))
            \/ /\ ~IdleTooLong(credential[a], now)
               /\ \/ /\ a \in active /\ OnRoster(a)
                     /\ AskFrom(d, r, [Blueprint("open") EXCEPT !.account = a, !.at = now])
                  \/ ~(a \in active /\ OnRoster(a)) /\ AskFrom(d, r, Refused("open", "removed"))
    /\ UNCHANGED <<now, drawn, born, secrets, lost, outSince, tables>>

\* touch() updates the row it read: a row that is gone fails the request.
Touchable(plan) == credential[plan.account] # NoRow

CommitOpen(r) ==
    /\ Runs(r, "open")
    /\ Touchable(slot[r])
    /\ credential' = [credential EXCEPT ![slot[r].account].used = slot[r].at]
    /\ Answered(r, "ok")
    /\ UNCHANGED <<now, family, pairing, drawn, accounts, active, members, born,
                   secrets, screen, lost, outSince>>

Earlier(t1, t2) == IF t1 < t2 THEN t1 ELSE t2

\* An account is deleted with all that hangs on it by ON DELETE CASCADE.
DeleteAccount(a) ==
    /\ accounts' = accounts \ {a} /\ active' = active \ {a} /\ members' = members \ {a}
    /\ credential' = [credential EXCEPT ![a] = NoRow]
    /\ pairing' = [p \in Code |-> IF pairing[p] # NoRow /\ pairing[p].account = a
                                  THEN NoRow ELSE pairing[p]]
    /\ outSince' = [outSince EXCEPT ![a] = Earlier(@, now)]

\* DisplayRoster.detach after an expiry: the screen is told it was removed.
CommitExpire(r) ==
    /\ Runs(r, "expire")
    /\ slot[r].account \in accounts
    /\ DeleteAccount(slot[r].account)
    /\ Answered(r, "removed")
    /\ UNCHANGED <<now, family, drawn, born, secrets, screen, lost>>

\* remove_device by an approver, or a parent in the screen of the family.
BeginDetach(r) ==
    /\ \E a \in Account : OnRoster(a) /\ Ask(r, [Blueprint("detach") EXCEPT !.account = a])
    /\ UNCHANGED <<now, drawn, born, secrets, screen, lost, outSince, tables>>

CommitDetach(r) ==
    /\ Runs(r, "detach")
    /\ slot[r].account \in accounts
    /\ DeleteAccount(slot[r].account)
    /\ Answered(r, "ok")
    /\ UNCHANGED <<now, family, drawn, born, secrets, screen, lost>>

\* DissolveFamilyUseCase: the owner saw nobody else, not even a display.
BeginDissolve(r) ==
    /\ family /\ members = {}
    /\ Ask(r, Blueprint("dissolve"))
    /\ UNCHANGED <<now, drawn, born, secrets, screen, lost, outSince, tables>>

CommitDissolve(r) ==
    /\ Runs(r, "dissolve")
    /\ family' = FALSE /\ members' = {}
    /\ outSince' = [a \in Account |-> IF a \in members THEN Earlier(outSince[a], now)
                                      ELSE outSince[a]]
    /\ Answered(r, "ok")
    /\ UNCHANGED <<now, pairing, drawn, accounts, active, credential, born, secrets,
                   screen, lost>>

\* update_user of an administrator stops an account or lets it go on;
\* delete_user deletes it.
StopAccount(a) ==
    /\ a \in active
    /\ active' = active \ {a}
    /\ outSince' = [outSince EXCEPT ![a] = Earlier(@, now)]
    /\ UNCHANGED <<now, family, pairing, drawn, accounts, members, credential, born,
                   secrets, slot, screen, lost>>

ResumeAccount(a) ==
    /\ a \in accounts \ active
    /\ active' = active \cup {a}
    /\ outSince' = [outSince EXCEPT ![a] = IF a \in members THEN MaxTime + 1 ELSE @]
    /\ UNCHANGED <<now, family, pairing, drawn, accounts, members, credential, born,
                   secrets, slot, screen, lost>>

DeleteUser(a) ==
    /\ a \in accounts
    /\ DeleteAccount(a)
    /\ UNCHANGED <<now, family, drawn, born, secrets, slot, screen, lost>>

\* Any failure of the database or the server; nothing was written.
Rollback(r) ==
    /\ slot[r] # NoCall /\ slot[r].phase = "open"
    /\ Answered(r, "error")
    /\ UNCHANGED <<now, drawn, born, secrets, screen, lost, outSince, tables>>

-----------------------------------------------------------------------------
(* The device.                                                             *)

Waits(d, r) == screen[d].call = r /\ slot[r] # NoCall /\ slot[r].phase = "done"

\* Mutant: every failure to open a session counts as unreachable.
RememberMutant(m, plan) ==
    CASE plan.op = "start" /\ plan.answer = "ok" -> [m EXCEPT !.code = plan.code]
      [] plan.op = "claim" /\ plan.answer = "ok" ->
            [Blank EXCEPT !.secret = plan.secret, !.owner = plan.account]
      [] plan.op = "claim" /\ plan.answer = "expired" -> Blank
      [] plan.op = "open" /\ plan.answer = "ok" -> [m EXCEPT !.until = plan.at + TokenLife]
      [] OTHER -> m

\* What DisplayPage and openDisplaySession remember after an answer.
Remember(m, plan) ==
    CASE plan.op = "start" /\ plan.answer = "ok" -> [m EXCEPT !.code = plan.code]
      [] plan.op = "claim" /\ plan.answer = "ok" ->
            [Blank EXCEPT !.secret = plan.secret, !.owner = plan.account]
      [] plan.op = "claim" /\ plan.answer = "expired" -> Blank
      [] plan.op = "open" /\ plan.answer = "ok" -> [m EXCEPT !.until = plan.at + TokenLife]
      [] plan.answer = "removed" -> Blank
      [] OTHER -> m

Receive(d, r) ==
    /\ Waits(d, r)
    /\ screen' = [screen EXCEPT ![d] = [Remember(@, slot[r]) EXCEPT !.call = NoCall]]
    /\ slot' = [slot EXCEPT ![r] = NoCall]
    /\ UNCHANGED <<now, drawn, born, secrets, lost, outSince, tables>>

\* The connection drops before the answer, or the page is loaded again, which
\* also forgets the pairing (the secret is kept in the browser's storage).
Lose(d) ==
    /\ screen[d].call # NoCall /\ lost < MaxLost
    /\ \E reload \in BOOLEAN :
        screen' = [screen EXCEPT ![d].call = NoCall,
                                 ![d].code = IF reload THEN NoCode ELSE @]
    /\ lost' = lost + 1
    /\ slot' = [slot EXCEPT ![screen[d].call] = IF @.phase = "done" THEN NoCall ELSE @]
    /\ UNCHANGED <<now, drawn, born, secrets, outSince, tables>>

Tick ==
    /\ now < MaxTime
    /\ now' = now + 1
    /\ UNCHANGED <<drawn, born, secrets, slot, screen, lost, outSince, tables>>

-----------------------------------------------------------------------------
Call_(d, r) == BeginStart(d, r) \/ BeginClaim(d, r) \/ BeginOpen(d, r)

People(r) == BeginApprove(r) \/ BeginDetach(r) \/ BeginDissolve(r)

Commit(r) ==
    \/ CommitStart(r) \/ CommitApprove(r) \/ CommitClaim(r) \/ CommitOpen(r)
    \/ CommitExpire(r) \/ CommitDetach(r) \/ CommitDissolve(r)

Next ==
    \/ \E d \in Screen, r \in Request : Call_(d, r) \/ Receive(d, r)
    \/ \E r \in Request : People(r) \/ Commit(r) \/ Rollback(r)
    \/ \E a \in Account : StopAccount(a) \/ ResumeAccount(a) \/ DeleteUser(a)
    \/ \E d \in Screen : Lose(d)
    \/ Tick

Spec == Init /\ [][Next]_vars

(***************************************************************************)
(* Time passes, a request that is open ends, an answer arrives unless it   *)
(* is lost, and DisplayPage goes on asking (its timers never stop) when    *)
(* its token is over.  The last instant stands for all later ones.         *)
(***************************************************************************)
TokenOver(d) == screen[d].until <= now \/ now = MaxTime

Fairness ==
    /\ WF_vars(Tick)
    /\ \A r \in Request : WF_vars(Commit(r) \/ Rollback(r))
    /\ \A d \in Screen :
        /\ WF_vars(\E r \in Request : Receive(d, r))
        /\ SF_vars(\E r \in Request : TokenOver(d) /\ Call_(d, r))

FairSpec == Spec /\ Fairness

-----------------------------------------------------------------------------
(***************************************************************************)
(* A screen is never unpaired behind its back: the secret it received is   *)
(* the one of its display for as long as that display exists, however many *)
(* polls, approvals and lost answers overlapped.                           *)
(***************************************************************************)
SecretsStayValid ==
    \A d \in Screen :
        screen[d].owner \in accounts => Owners(screen[d].secret) = {screen[d].owner}

(***************************************************************************)
(* Once a display was detached, stopped or put out of its family, the      *)
(* tokens its screen holds end within the life of one token: no session    *)
(* opened meanwhile and no answer on its way is longer (ADR-0037, 0047).   *)
(***************************************************************************)
TokensEndSoon ==
    \A d \in Screen :
        screen[d].secret # 0 => screen[d].until <= outSince[screen[d].owner] + TokenLife

(***************************************************************************)
(* A screen whose display was deleted comes back to the pairing screen.    *)
(***************************************************************************)
RemovedScreensReturn ==
    \A d \in Screen :
        (screen[d].secret # 0 /\ screen[d].owner \notin accounts) ~> screen[d].secret = 0
=============================================================================
