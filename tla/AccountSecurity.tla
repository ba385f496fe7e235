--------------------------- MODULE AccountSecurity ---------------------------
(***************************************************************************)
(* The ways into one account: its password, with the throttle in front of  *)
(* it and the second factor behind it, the temporary password a parent     *)
(* issues, the link that resets a password, the passkey, and the tokens    *)
(* all of them end in (bounded_contexts/account_security,                  *)
(* routers/auth.py, password_reset_service.py, token_service.py).          *)
(*                                                                         *)
(* A request is a Begin, which reads a snapshot and decides, and a Commit, *)
(* which writes the columns it changed in that snapshot to the row as it   *)
(* is by then.  The throttle has short transactions of its own.            *)
(***************************************************************************)
EXTENDS Integers, FiniteSets

CONSTANTS
    Request,    \* requests served at the same time
    Device,     \* browsers the account is used from
    Challenge, Link,
    None,
    MaxFailures, Window, LockTime,
    ChallengeTTL, LinkTTL, TemporaryTTL, TokenLife,
    MaxTime,    \* end of the calendar
    MaxSecret,  \* bound on the secrets that are ever made
    MaxTurns    \* bound on the requests that are ever begun

ASSUME SecurityAssumption ==
    /\ {MaxTime, MaxSecret, MaxTurns} \subseteq Nat
    /\ {MaxFailures, Window, LockTime, ChallengeTTL, LinkTTL, TemporaryTTL, TokenLife} \subseteq Nat \ {0}
    /\ None \notin Nat
    /\ IsFiniteSet(Request)  \* the threads of the worker

VARIABLES
    now,
    user,       \* the row of users: whose the password is, must_change, and until when
    since,      \* history: since when must_change is set
    totp,       \* the row of totp_secrets (secret 0: there is none)
    secrets,    \* how many secrets there have been
    verified,   \* history: secrets that a code was right for
    passkey,    \* whether one is registered
    challenge, link,
    attempts,   \* the row of login_attempts
    token,      \* the access token of each device
    refresh,    \* whether it holds a refresh token
    slot,
    turns,
    calm,       \* history: no two requests have been served at the same time
    wrong,      \* history: wrong attempts let through since the last tick or success
    logins,     \* history: sessions each challenge has given
    resets      \* history: passwords each link has set

credentials == <<user, since, totp, secrets, verified, passkey>>
onetime == <<challenge, link, logins, resets>>
tokens == <<token, refresh>>
throttle == <<attempts, wrong>>
vars == <<now, credentials, onetime, throttle, tokens, slot, turns, calm>>

Later == 0 .. MaxTime + LockTime + ChallengeTTL + LinkTTL + TemporaryTTL + TokenLife
NoAttempts == [failures |-> 0, from |-> 0, locked |-> 0]
NoToken == [until |-> 0, temporary |-> FALSE]
NoTotp == [secret |-> 0, confirmed |-> FALSE]
Idle == [op |-> "idle"]
Purpose == {"register", "authenticate"}

Row == [by : {"owner", "parent"}, temporary : BOOLEAN, until : Later \cup {None}]
Counted == [failures : Nat, from : 0 .. MaxTime, locked : Later]

\* A request, with what it read and what it is about to write.
Call ==
    {Idle} \cup [op : {"wrong", "confirm", "disable", "delete"}]
    \cup [op : {"count"}, row : Counted]
    \cup [op : {"login"}, device : Device, temporary : BOOLEAN]
    \cup [op : {"temporary"}, read : Row]
    \cup [op : {"change"}, device : Device, read : Row]
    \cup [op : {"reset"}, link : Link, read : Row]
    \cup [op : {"enrol"}, read : 0 .. MaxSecret, secret : 1 .. MaxSecret]
    \cup [op : Purpose, device : Device, challenge : Challenge, temporary : BOOLEAN]

TypeOK ==
    /\ now \in 0 .. MaxTime /\ since \in 0 .. MaxTime /\ turns \in 0 .. MaxTurns
    /\ user \in Row /\ passkey \in BOOLEAN /\ calm \in BOOLEAN /\ wrong \in Nat
    /\ totp \in [secret : 0 .. MaxSecret, confirmed : BOOLEAN]
    /\ secrets \in 0 .. MaxSecret /\ verified \subseteq 0 .. MaxSecret
    /\ challenge \in [Challenge -> [at : {"new", "live", "gone"}, for : Purpose \cup {"none"}, until : Later]]
    /\ link \in [Link -> [at : {"new", "live", "used"}, until : Later]]
    /\ attempts \in Counted
    /\ token \in [Device -> [until : Later, temporary : BOOLEAN]]
    /\ refresh \in [Device -> BOOLEAN]
    /\ logins \in [Challenge -> Nat] /\ resets \in [Link -> Nat]
    /\ slot \in [Request -> Call]

NoChallenge == [at |-> "new", for |-> "none", until |-> 0]
NoLink == [at |-> "new", until |-> 0]

Init ==
    /\ now = 0 /\ turns = 0 /\ calm = TRUE /\ wrong = 0 /\ since = 0
    /\ user = [by |-> "owner", temporary |-> FALSE, until |-> None]
    /\ totp = NoTotp /\ secrets = 0 /\ verified = {} /\ passkey = FALSE
    /\ challenge = [x \in Challenge |-> NoChallenge]
    /\ link = [x \in Link |-> NoLink]
    /\ logins = [x \in Challenge |-> 0] /\ resets = [x \in Link |-> 0]
    /\ attempts = NoAttempts
    /\ token = [d \in Device |-> NoToken] /\ refresh = [d \in Device |-> FALSE]
    /\ slot = [c \in Request |-> Idle]

-----------------------------------------------------------------------------
(* Reading and writing.                                                    *)

Open(c, call) ==
    /\ slot[c] = Idle /\ turns < MaxTurns
    /\ turns' = turns + 1
    /\ slot' = [slot EXCEPT ![c] = call]
    /\ calm' = (calm /\ \A x \in Request : slot[x] = Idle)

Close(c) == slot' = [slot EXCEPT ![c] = Idle] /\ UNCHANGED <<turns, calm>>

HasToken(d) == now < token[d].until

\* get_settled_principal: who changes credentials is asked for the row as well.
Settled(d) == HasToken(d) /\ ~token[d].temporary /\ ~user.temporary

\* create_token_pair, from the row that the request has read.
Issue(d, temporary) ==
    /\ token' = [token EXCEPT ![d] = [until |-> now + TokenLife, temporary |-> temporary]]
    /\ refresh' = [refresh EXCEPT ![d] = TRUE]

\* Mutant: the deadline of the temporary password is left as it is.
WrittenMutant(read) == [user EXCEPT !.by = "owner", !.temporary = IF read.temporary THEN FALSE ELSE @]

\* An UPDATE names the columns that differ from what was read: here somebody chooses a
\* password and the marks of a temporary one are taken off.
Written(read) ==
    [by |-> "owner",
     temporary |-> IF read.temporary THEN FALSE ELSE user.temporary,
     until |-> IF read.until # None THEN None ELSE user.until]

Write(row) ==
    /\ user' = row
    /\ since' = IF row.temporary /\ ~user.temporary THEN now ELSE since

-----------------------------------------------------------------------------
(* The throttle.                                                           *)

\* Mutant: one more than the limit.
OverLimitMutant(n) == n > MaxFailures

OverLimit(n) == n >= MaxFailures

AfterFailure(row) ==
    LET fresh == row.failures = 0 \/ now - row.from >= Window
        n == IF fresh THEN 1 ELSE row.failures + 1
    IN [failures |-> n, from |-> IF fresh THEN now ELSE row.from,
        locked |-> IF OverLimit(n) THEN now + LockTime ELSE 0]

Locked == now < attempts.locked

\* The password or the code is wrong, or the temporary password has run out.
BeginWrong(c) ==
    /\ ~Locked
    /\ Open(c, [op |-> "wrong"])
    /\ wrong' = wrong + 1
    /\ UNCHANGED <<now, credentials, onetime, attempts, tokens>>

LoadAttempts(c) ==
    /\ slot[c].op = "wrong"
    /\ slot' = [slot EXCEPT ![c] = [op |-> "count", row |-> AfterFailure(attempts)]]
    /\ UNCHANGED <<now, credentials, onetime, throttle, tokens, turns, calm>>

SaveAttempts(c) ==
    /\ slot[c].op = "count"
    /\ attempts' = slot[c].row
    /\ Close(c)
    /\ UNCHANGED <<now, credentials, onetime, wrong, tokens>>

-----------------------------------------------------------------------------
(* Signing in.                                                             *)

ExpiredPassword == user.temporary /\ user.until # None /\ user.until < now

\* The password is right, and so is the code where there is a second factor.
BeginLogin(c, d) ==
    /\ ~Locked /\ ~ExpiredPassword
    /\ Open(c, [op |-> "login", device |-> d, temporary |-> user.temporary])
    /\ verified' = IF totp.confirmed THEN verified \cup {totp.secret} ELSE verified
    /\ UNCHANGED <<now, user, since, totp, secrets, passkey, onetime, throttle, tokens>>

CommitLogin(c) ==
    /\ slot[c].op = "login"
    /\ attempts' = NoAttempts /\ wrong' = 0
    /\ Issue(slot[c].device, slot[c].temporary)
    /\ Close(c)
    /\ UNCHANGED <<now, credentials, onetime>>

\* Mutant: the mark is carried over from the old token.
RefreshedMutant(d) == token[d].temporary

Refreshed(d) == user.temporary

\* A refresh reads the row and answers; nothing is written.
Refresh(d) ==
    /\ refresh[d] /\ ~HasToken(d)
    /\ Issue(d, Refreshed(d))
    /\ UNCHANGED <<now, credentials, onetime, throttle, slot, turns, calm>>

SignOut(d) ==
    /\ refresh[d]
    /\ refresh' = [refresh EXCEPT ![d] = FALSE]
    /\ token' = [token EXCEPT ![d] = NoToken]
    /\ UNCHANGED <<now, credentials, onetime, throttle, slot, turns, calm>>

-----------------------------------------------------------------------------
(* Passwords.                                                              *)

\* A parent resets the password of a child.
BeginTemporary(c) ==
    /\ Open(c, [op |-> "temporary", read |-> user])
    /\ UNCHANGED <<now, credentials, onetime, throttle, tokens>>

CommitTemporary(c) ==
    /\ slot[c].op = "temporary"
    /\ Write([by |-> "parent",
              temporary |-> IF slot[c].read.temporary THEN user.temporary ELSE TRUE,
              until |-> now + TemporaryTTL])
    /\ Close(c)
    /\ UNCHANGED <<now, totp, secrets, verified, passkey, onetime, throttle, tokens>>

\* Open to who is signed in with a temporary password, too.
BeginChange(c, d) ==
    /\ HasToken(d)
    /\ Open(c, [op |-> "change", device |-> d, read |-> user])
    /\ UNCHANGED <<now, credentials, onetime, throttle, tokens>>

CommitChange(c) ==
    /\ slot[c].op = "change"
    /\ Write(Written(slot[c].read))
    /\ Issue(slot[c].device, FALSE)
    /\ Close(c)
    /\ UNCHANGED <<now, totp, secrets, verified, passkey, onetime, throttle>>

\* A link is mailed, or handed over from the log.
RequestReset(x) ==
    /\ link[x].at = "new"
    /\ link' = [link EXCEPT ![x] = [at |-> "live", until |-> now + LinkTTL]]
    /\ UNCHANGED <<now, credentials, challenge, logins, resets, throttle, tokens, slot, turns, calm>>

\* Mutant: whether the link was used is not looked at.
ResetableMutant(x) == link[x].at # "new" /\ now <= link[x].until

Resetable(x) == link[x].at = "live" /\ now <= link[x].until

BeginReset(c, x) ==
    /\ Resetable(x)
    /\ Open(c, [op |-> "reset", link |-> x, read |-> user])
    /\ UNCHANGED <<now, credentials, onetime, throttle, tokens>>

CommitReset(c) ==
    LET x == slot[c].link IN
    /\ slot[c].op = "reset"
    /\ Write(Written(slot[c].read))
    /\ link' = [link EXCEPT ![x].at = "used"]
    /\ resets' = [resets EXCEPT ![x] = @ + 1]
    /\ Close(c)
    /\ UNCHANGED <<now, totp, secrets, verified, passkey, challenge, logins, throttle, tokens>>

-----------------------------------------------------------------------------
(* The second factor.                                                      *)

BeginEnrol(c, d) ==
    /\ Settled(d) /\ ~totp.confirmed /\ secrets < MaxSecret
    /\ Open(c, [op |-> "enrol", read |-> totp.secret, secret |-> secrets + 1])
    /\ secrets' = secrets + 1
    /\ UNCHANGED <<now, user, since, totp, verified, passkey, onetime, throttle, tokens>>

\* The row that was not there is inserted, the one that was has its secret replaced; when it
\* has come or gone meanwhile everything is rolled back.
CommitEnrol(c) ==
    /\ slot[c].op = "enrol"
    /\ totp' = IF slot[c].read = 0 /\ totp.secret = 0
               THEN [secret |-> slot[c].secret, confirmed |-> FALSE]
               ELSE IF slot[c].read # 0 /\ totp.secret # 0
               THEN [totp EXCEPT !.secret = slot[c].secret]
               ELSE totp
    /\ Close(c)
    /\ UNCHANGED <<now, user, since, secrets, verified, passkey, onetime, throttle, tokens>>

\* Mutant: the code is not asked for.
CheckedMutant(s) == verified

\* The code that was sent is right for this secret.
Checked(s) == verified \cup {s}

BeginConfirm(c, d) ==
    /\ Settled(d) /\ totp.secret # 0 /\ ~totp.confirmed
    /\ Open(c, [op |-> "confirm"])
    /\ verified' = Checked(totp.secret)
    /\ UNCHANGED <<now, user, since, totp, secrets, passkey, onetime, throttle, tokens>>

CommitConfirm(c) ==
    /\ slot[c].op = "confirm"
    /\ totp' = IF totp.secret # 0 THEN [totp EXCEPT !.confirmed = TRUE] ELSE totp
    /\ Close(c)
    /\ UNCHANGED <<now, user, since, secrets, verified, passkey, onetime, throttle, tokens>>

\* Removing a confirmed one takes a code.
BeginDisable(c, d) ==
    /\ Settled(d) /\ totp.secret # 0
    /\ Open(c, [op |-> "disable"])
    /\ verified' = IF totp.confirmed THEN verified \cup {totp.secret} ELSE verified
    /\ UNCHANGED <<now, user, since, totp, secrets, passkey, onetime, throttle, tokens>>

CommitDisable(c) ==
    /\ slot[c].op = "disable"
    /\ totp' = NoTotp
    /\ Close(c)
    /\ UNCHANGED <<now, user, since, secrets, verified, passkey, onetime, throttle, tokens>>

-----------------------------------------------------------------------------
(* Passkeys.                                                               *)

\* For a passkey to be registered, or for a login of whoever it may be.
StartChallenge(x, purpose) ==
    /\ challenge[x] = NoChallenge
    /\ purpose = "register" => \E d \in Device : Settled(d)
    /\ challenge' = [challenge EXCEPT ![x] = [at |-> "live", for |-> purpose, until |-> now + ChallengeTTL]]
    /\ UNCHANGED <<now, credentials, link, logins, resets, throttle, tokens, slot, turns, calm>>

\* One answer to a challenge may be sent twice.
BeginPasskey(c, d, x, purpose) ==
    /\ challenge[x].at = "live" /\ challenge[x].for = purpose /\ now < challenge[x].until
    /\ IF purpose = "register" THEN Settled(d) ELSE passkey
    /\ Open(c, [op |-> purpose, device |-> d, challenge |-> x, temporary |-> user.temporary])
    /\ UNCHANGED <<now, credentials, onetime, throttle, tokens>>

\* Mutant: the row is read first and deleted later.
ConsumableMutant(x) == TRUE

\* The request whose DELETE removed the row goes on.
Consumable(x) == challenge[x].at = "live"

CommitPasskey(c) ==
    LET x == slot[c].challenge  d == slot[c].device IN
    /\ slot[c].op \in Purpose
    /\ IF Consumable(x) /\ (slot[c].op = "authenticate" => passkey)
       THEN /\ challenge' = [challenge EXCEPT ![x].at = "gone"]
            /\ logins' = [logins EXCEPT ![x] = @ + 1]
            /\ passkey' = TRUE
            /\ IF slot[c].op = "authenticate" THEN Issue(d, slot[c].temporary) ELSE UNCHANGED tokens
       ELSE UNCHANGED <<challenge, logins, passkey, tokens>>
    /\ Close(c)
    /\ UNCHANGED <<now, user, since, totp, secrets, verified, link, resets, throttle>>

BeginDelete(c, d) ==
    /\ Settled(d) /\ passkey
    /\ Open(c, [op |-> "delete"])
    /\ UNCHANGED <<now, credentials, onetime, throttle, tokens>>

CommitDelete(c) ==
    /\ slot[c].op = "delete"
    /\ passkey' = FALSE
    /\ Close(c)
    /\ UNCHANGED <<now, user, since, totp, secrets, verified, onetime, throttle, tokens>>

-----------------------------------------------------------------------------

\* Requests are short against every time that is counted.
Tick ==
    /\ now < MaxTime /\ \A c \in Request : slot[c] = Idle
    /\ now' = now + 1 /\ wrong' = 0
    /\ UNCHANGED <<credentials, onetime, attempts, tokens, slot, turns, calm>>

Next ==
    \/ \E c \in Request :
         \/ BeginWrong(c) \/ LoadAttempts(c) \/ SaveAttempts(c)
         \/ CommitLogin(c) \/ BeginTemporary(c) \/ CommitTemporary(c)
         \/ CommitChange(c) \/ CommitReset(c) \/ CommitEnrol(c) \/ CommitConfirm(c)
         \/ CommitDisable(c) \/ CommitPasskey(c) \/ CommitDelete(c)
         \/ \E x \in Link : BeginReset(c, x)
         \/ \E d \in Device :
              \/ BeginLogin(c, d) \/ BeginChange(c, d) \/ BeginEnrol(c, d)
              \/ BeginConfirm(c, d) \/ BeginDisable(c, d) \/ BeginDelete(c, d)
              \/ \E x \in Challenge, p \in Purpose : BeginPasskey(c, d, x, p)
    \/ \E d \in Device : Refresh(d) \/ SignOut(d)
    \/ \E x \in Link : RequestReset(x)
    \/ \E x \in Challenge, p \in Purpose : StartChallenge(x, p)
    \/ Tick

Spec == Init /\ [][Next]_vars

-----------------------------------------------------------------------------
(* Properties.                                                             *)

\* However often an answer is sent, a challenge gives one session or one passkey; and as
\* long as requests do not meet, a reset link sets one password.
UsedOnce ==
    /\ \A x \in Challenge : logins[x] <= 1
    /\ calm => \A x \in Link : resets[x] <= 1

\* A temporary password reaches every device within the life of an access token.
TemporaryReaches ==
    user.temporary =>
        \A d \in Device : HasToken(d) /\ ~token[d].temporary => now - since < TokenLife

\* With two attempts at once more than MaxFailures are let through between two ticks, because
\* a count that is saved late takes a lock away, but never more than this.
GuessesBounded ==
    Cardinality(Request) = 2 => 2 * wrong <= MaxFailures * (MaxFailures + 3)

\* As long as requests do not meet, nobody is shut out: a password that a parent issued has
\* its marks and one that was chosen has none, so that it does not run out, and the second
\* factor that is asked for is one whose code the owner has shown.
NobodyIsShutOut ==
    calm => /\ IF user.by = "parent" THEN user.temporary /\ user.until # None
                                     ELSE ~user.temporary /\ user.until = None
            /\ totp.confirmed => totp.secret \in verified
=============================================================================
