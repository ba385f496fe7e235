------------------------ MODULE AccountSecurityProofs ------------------------
(***************************************************************************)
(* Proofs about AccountSecurity, for every number of requests, devices,    *)
(* challenges and links and every length of the times that are counted:    *)
(* what is used once, how far a temporary password reaches, that nobody is *)
(* shut out while requests do not meet, and how many guesses two requests  *)
(* may make.                                                               *)
(***************************************************************************)
EXTENDS AccountSecurity, FiniteSetTheorems, TLAPS

-----------------------------------------------------------------------------
(* Arithmetic of the times.                                                  *)

LEMMA UpByOne ==
    ASSUME NEW n \in Nat, NEW x \in 0 .. n, x < n
    PROVE  x + 1 \in 0 .. n /\ x + 1 \in 1 .. n
OBVIOUS

LEMMA NatStep ==
    ASSUME NEW n \in Nat
    PROVE  n + 1 \in Nat
OBVIOUS

\* A time that is set lies in a calendar that holds all of them.
LEMMA TimesAdd ==
    ASSUME NEW t \in Nat, NEW a \in Nat, NEW b \in Nat, NEW c \in Nat, NEW d \in Nat, NEW e \in Nat,
           NEW n \in 0 .. t
    PROVE  LET all == 0 .. t + a + b + c + d + e IN
           /\ 0 \in all /\ n \in all
           /\ n + a \in all /\ n + b \in all /\ n + c \in all /\ n + d \in all /\ n + e \in all
OBVIOUS

LEMMA TimesAreNumbers ==
    ASSUME NEW k \in Nat, NEW x \in 0 .. k
    PROVE  x \in Nat
OBVIOUS

\* What is over at the end of a life that began at s is over sooner than s + life later.
LEMMA EndTells ==
    ASSUME NEW n \in Nat, NEW until \in Nat, NEW s \in Nat, NEW life \in Nat,
           n < until, until <= s + life
    PROVE  n - s < life
OBVIOUS

LEMMA LifeAdds ==
    ASSUME NEW n \in Nat, NEW life \in Nat, NEW s \in Nat, NEW until \in Nat
    PROVE  /\ 0 <= n + life /\ 0 <= n /\ n + life <= n + life /\ n <= n /\ 0 <= s + life
           /\ until <= n + life => until <= (n + 1) + life
           /\ s <= n => s <= n + 1
OBVIOUS

LEMMA Bounds ==
    /\ MaxTime \in Nat /\ MaxSecret \in Nat /\ MaxTurns \in Nat
    /\ LockTime \in Nat /\ ChallengeTTL \in Nat /\ LinkTTL \in Nat /\ TemporaryTTL \in Nat
    /\ TokenLife \in Nat /\ None \notin Nat
BY SecurityAssumption

LEMMA LaterTimes ==
    ASSUME NEW n \in 0 .. MaxTime
    PROVE  /\ 0 \in Later /\ n \in Later /\ n \in Nat
           /\ n + LockTime \in Later /\ n + ChallengeTTL \in Later /\ n + LinkTTL \in Later
           /\ n + TemporaryTTL \in Later /\ n + TokenLife \in Later
           /\ n + TemporaryTTL # None
<1>1. /\ 0 \in Later /\ n \in Later
      /\ n + LockTime \in Later /\ n + ChallengeTTL \in Later /\ n + LinkTTL \in Later
      /\ n + TemporaryTTL \in Later /\ n + TokenLife \in Later
  BY Bounds, TimesAdd DEF Later
<1>2. n + TemporaryTTL \in Nat
  BY Bounds
<1> QED
  BY <1>1, <1>2, Bounds

LEMMA LaterIsNumbers == \A x \in Later : x \in Nat
BY Bounds DEF Later

-----------------------------------------------------------------------------
(* Types.                                                                    *)

\* What a request carries, by what it does.
LEMMA Carries ==
    ASSUME NEW s \in Call
    PROVE  /\ s = Idle <=> s.op = "idle"
           /\ s.op = "count" => s.row \in Counted
           /\ s.op = "login" => s.device \in Device /\ s.temporary \in BOOLEAN
           /\ s.op = "temporary" => s.read \in Row
           /\ s.op = "change" => s.device \in Device /\ s.read \in Row
           /\ s.op = "reset" => s.link \in Link /\ s.read \in Row
           /\ s.op = "enrol" => s.secret \in 1 .. MaxSecret
           /\ s.op \in Purpose => s.device \in Device /\ s.challenge \in Challenge
                                  /\ s.temporary \in BOOLEAN
BY DEF Call, Idle, Purpose

LEMMA IdleIsACall == Idle \in Call
BY DEF Call

LEMMA InitTypes ==
    ASSUME Init
    PROVE  TypeOK
<1>1. 0 \in 0 .. MaxTime /\ 0 \in Later /\ 0 \in 0 .. MaxSecret /\ 0 \in 0 .. MaxTurns
  BY Bounds, LaterTimes
<1>2. user \in Row /\ totp \in [secret : 0 .. MaxSecret, confirmed : BOOLEAN]
  BY <1>1 DEF Init, Row, NoTotp
<1>3. /\ challenge \in [Challenge -> [at : {"new", "live", "gone"}, for : Purpose \cup {"none"}, until : Later]]
      /\ link \in [Link -> [at : {"new", "live", "used"}, until : Later]]
      /\ token \in [Device -> [until : Later, temporary : BOOLEAN]]
      /\ attempts \in Counted
  BY <1>1 DEF Init, NoChallenge, NoLink, NoToken, NoAttempts, Counted
<1>4. slot \in [Request -> Call]
  BY IdleIsACall DEF Init
<1> QED
  BY <1>1, <1>2, <1>3, <1>4 DEF Init, TypeOK

\* Opening and closing a request.
LEMMA OpenTypes ==
    ASSUME TypeOK, NEW c \in Request, NEW call \in Call, Open(c, call)
    PROVE  slot' \in [Request -> Call] /\ turns' \in 0 .. MaxTurns /\ calm' \in BOOLEAN
<1>1. turns + 1 \in 0 .. MaxTurns
  BY Bounds, UpByOne DEF TypeOK, Open
<1>2. calm' \in BOOLEAN
  BY DEF TypeOK, Open
<1> QED
  BY <1>1, <1>2 DEF TypeOK, Open

LEMMA CloseTypes ==
    ASSUME TypeOK, NEW c \in Request, Close(c)
    PROVE  slot' \in [Request -> Call] /\ turns' \in 0 .. MaxTurns /\ calm' \in BOOLEAN
BY IdleIsACall DEF TypeOK, Close

LEMMA IssueTypes ==
    ASSUME TypeOK, NEW d \in Device, NEW t \in BOOLEAN, Issue(d, t)
    PROVE  /\ token' \in [Device -> [until : Later, temporary : BOOLEAN]]
           /\ refresh' \in [Device -> BOOLEAN]
<1>1. [until |-> now + TokenLife, temporary |-> t] \in [until : Later, temporary : BOOLEAN]
  BY LaterTimes DEF TypeOK
<1> QED
  BY <1>1 DEF TypeOK, Issue

LEMMA WriteTypes ==
    ASSUME TypeOK, NEW row \in Row, Write(row)
    PROVE  user' \in Row /\ since' \in 0 .. MaxTime
BY DEF TypeOK, Write

LEMMA WrittenTypes ==
    ASSUME TypeOK, NEW read \in Row
    PROVE  Written(read) \in Row
BY DEF TypeOK, Written, Row

LEMMA FailureTypes ==
    ASSUME TypeOK
    PROVE  AfterFailure(attempts) \in Counted
<1>1. attempts.failures \in Nat /\ attempts.from \in 0 .. MaxTime
  BY DEF TypeOK, Counted
<1>2. attempts.failures + 1 \in Nat /\ 1 \in Nat /\ 0 \in Later /\ now + LockTime \in Later
  BY <1>1, NatStep, LaterTimes DEF TypeOK
<1> QED
  BY <1>1, <1>2 DEF AfterFailure, Counted, TypeOK

LEMMA NoAttemptsCounted == NoAttempts \in Counted /\ 0 \in Nat
<1>1. 0 \in 0 .. MaxTime
  BY Bounds
<1>2. 0 \in Later
  BY <1>1, LaterTimes
<1> QED
  BY <1>1, <1>2 DEF NoAttempts, Counted

LEMMA ThrottleTypes ==
    ASSUME TypeOK, NEW c \in Request, BeginWrong(c) \/ LoadAttempts(c) \/ SaveAttempts(c)
    PROVE  TypeOK'
<1> USE DEF credentials, onetime, tokens, throttle
<1>1. ASSUME BeginWrong(c)
      PROVE  TypeOK'
  <2>1. [op |-> "wrong"] \in Call /\ wrong + 1 \in Nat
    BY NatStep DEF Call, TypeOK
  <2> QED
    BY <1>1, <2>1, OpenTypes DEF BeginWrong, TypeOK
<1>2. ASSUME LoadAttempts(c)
      PROVE  TypeOK'
  <2>1. [op |-> "count", row |-> AfterFailure(attempts)] \in Call
    BY FailureTypes DEF Call
  <2> QED
    BY <1>2, <2>1 DEF LoadAttempts, TypeOK
<1>3. ASSUME SaveAttempts(c)
      PROVE  TypeOK'
  <2>1. slot[c].row \in Counted
    BY <1>3, Carries DEF SaveAttempts, TypeOK
  <2> QED
    BY <1>3, <2>1, CloseTypes DEF SaveAttempts, TypeOK
<1> QED
  BY <1>1, <1>2, <1>3

LEMMA LoginTypes ==
    ASSUME TypeOK,
           \/ \E c \in Request : CommitLogin(c) \/ \E d \in Device : BeginLogin(c, d)
           \/ \E d \in Device : Refresh(d) \/ SignOut(d)
    PROVE  TypeOK'
<1> USE DEF credentials, onetime, tokens, throttle
<1>1. ASSUME NEW c \in Request, NEW d \in Device, BeginLogin(c, d)
      PROVE  TypeOK'
  <2>1. [op |-> "login", device |-> d, temporary |-> user.temporary] \in Call
    BY DEF Call, TypeOK, Row
  <2>2. verified' \subseteq 0 .. MaxSecret
    BY <1>1 DEF BeginLogin, TypeOK
  <2> QED
    BY <1>1, <2>1, <2>2, OpenTypes DEF BeginLogin, TypeOK
<1>2. ASSUME NEW c \in Request, CommitLogin(c)
      PROVE  TypeOK'
  <2>1. slot[c].device \in Device /\ slot[c].temporary \in BOOLEAN
    BY <1>2, Carries DEF CommitLogin, TypeOK
  <2>2. NoAttempts \in Counted /\ 0 \in Nat
    BY NoAttemptsCounted
  <2> QED
    BY <1>2, <2>1, <2>2, CloseTypes, IssueTypes DEF CommitLogin, TypeOK
<1>3. ASSUME NEW d \in Device, Refresh(d)
      PROVE  TypeOK'
  <2>1. Refreshed(d) \in BOOLEAN
    BY DEF Refreshed, TypeOK, Row
  <2> QED
    BY <1>3, <2>1, IssueTypes DEF Refresh, TypeOK
<1>4. ASSUME NEW d \in Device, SignOut(d)
      PROVE  TypeOK'
  <2>1. NoToken \in [until : Later, temporary : BOOLEAN]
    BY LaterTimes DEF NoToken, TypeOK
  <2> QED
    BY <1>4, <2>1 DEF SignOut, TypeOK
<1> QED
  BY <1>1, <1>2, <1>3, <1>4

LEMMA PasswordTypes ==
    ASSUME TypeOK, NEW c \in Request,
           \/ BeginTemporary(c) \/ CommitTemporary(c) \/ CommitChange(c) \/ CommitReset(c)
           \/ \E d \in Device : BeginChange(c, d)
           \/ \E x \in Link : BeginReset(c, x)
    PROVE  TypeOK'
<1> USE DEF credentials, onetime, tokens, throttle
<1>1. ASSUME BeginTemporary(c)
      PROVE  TypeOK'
  <2>1. [op |-> "temporary", read |-> user] \in Call
    BY DEF Call, TypeOK
  <2> QED
    BY <1>1, <2>1, OpenTypes DEF BeginTemporary, TypeOK
<1>2. ASSUME CommitTemporary(c)
      PROVE  TypeOK'
  <2> DEFINE row == [by |-> "parent",
                     temporary |-> IF slot[c].read.temporary THEN user.temporary ELSE TRUE,
                     until |-> now + TemporaryTTL]
  <2>1. row \in Row
    BY LaterTimes DEF Row, TypeOK
  <2>2. user' \in Row /\ since' \in 0 .. MaxTime
    BY <1>2, <2>1, WriteTypes DEF CommitTemporary
  <2> QED
    BY <1>2, <2>2, CloseTypes DEF CommitTemporary, TypeOK
<1>3. ASSUME NEW d \in Device, BeginChange(c, d)
      PROVE  TypeOK'
  <2>1. [op |-> "change", device |-> d, read |-> user] \in Call
    BY DEF Call, TypeOK
  <2> QED
    BY <1>3, <2>1, OpenTypes DEF BeginChange, TypeOK
<1>4. ASSUME CommitChange(c)
      PROVE  TypeOK'
  <2>1. slot[c].device \in Device /\ slot[c].read \in Row
    BY <1>4, Carries DEF CommitChange, TypeOK
  <2>2. user' \in Row /\ since' \in 0 .. MaxTime
    BY <1>4, <2>1, WrittenTypes, WriteTypes DEF CommitChange
  <2> QED
    BY <1>4, <2>1, <2>2, CloseTypes, IssueTypes DEF CommitChange, TypeOK
<1>5. ASSUME NEW x \in Link, BeginReset(c, x)
      PROVE  TypeOK'
  <2>1. [op |-> "reset", link |-> x, read |-> user] \in Call
    BY DEF Call, TypeOK
  <2> QED
    BY <1>5, <2>1, OpenTypes DEF BeginReset, TypeOK
<1>6. ASSUME CommitReset(c)
      PROVE  TypeOK'
  <2>1. slot[c].link \in Link /\ slot[c].read \in Row
    BY <1>6, Carries DEF CommitReset, TypeOK
  <2>2. user' \in Row /\ since' \in 0 .. MaxTime
    BY <1>6, <2>1, WrittenTypes, WriteTypes DEF CommitReset
  <2>3. link' \in [Link -> [at : {"new", "live", "used"}, until : Later]]
    BY <1>6, <2>1 DEF CommitReset, TypeOK
  <2>4. resets' \in [Link -> Nat]
    BY <1>6, <2>1, NatStep DEF CommitReset, TypeOK
  <2> QED
    BY <1>6, <2>2, <2>3, <2>4, CloseTypes DEF CommitReset, TypeOK
<1> QED
  BY <1>1, <1>2, <1>3, <1>4, <1>5, <1>6

LEMMA ResetTypes ==
    ASSUME TypeOK, NEW x \in Link, RequestReset(x)
    PROVE  TypeOK'
<1>1. [at |-> "live", until |-> now + LinkTTL] \in [at : {"new", "live", "used"}, until : Later]
  BY LaterTimes DEF TypeOK
<1> QED
  BY <1>1 DEF RequestReset, TypeOK, credentials, tokens, throttle

LEMMA FactorTypes ==
    ASSUME TypeOK, NEW c \in Request,
           \/ CommitEnrol(c) \/ CommitConfirm(c) \/ CommitDisable(c)
           \/ \E d \in Device : BeginEnrol(c, d) \/ BeginConfirm(c, d) \/ BeginDisable(c, d)
    PROVE  TypeOK'
<1> USE DEF credentials, onetime, tokens, throttle
<1>1. ASSUME NEW d \in Device, BeginEnrol(c, d)
      PROVE  TypeOK'
  <2>1. secrets + 1 \in 0 .. MaxSecret /\ secrets + 1 \in 1 .. MaxSecret
    BY <1>1, Bounds, UpByOne DEF BeginEnrol, TypeOK
  <2>2. [op |-> "enrol", read |-> totp.secret, secret |-> secrets + 1] \in Call
    BY <2>1 DEF Call, TypeOK
  <2> QED
    BY <1>1, <2>1, <2>2, OpenTypes DEF BeginEnrol, TypeOK
<1>2. ASSUME CommitEnrol(c)
      PROVE  TypeOK'
  <2>1. slot[c].secret \in 0 .. MaxSecret
    BY <1>2, Carries, Bounds DEF CommitEnrol, TypeOK
  <2>2. totp' \in [secret : 0 .. MaxSecret, confirmed : BOOLEAN]
    BY <1>2, <2>1 DEF CommitEnrol, TypeOK
  <2> QED
    BY <1>2, <2>2, CloseTypes DEF CommitEnrol, TypeOK
<1>3. ASSUME NEW d \in Device, BeginConfirm(c, d)
      PROVE  TypeOK'
  <2>1. [op |-> "confirm"] \in Call /\ verified' \subseteq 0 .. MaxSecret
    BY <1>3 DEF Call, BeginConfirm, Checked, TypeOK
  <2> QED
    BY <1>3, <2>1, OpenTypes DEF BeginConfirm, TypeOK
<1>4. ASSUME CommitConfirm(c)
      PROVE  TypeOK'
  BY <1>4, CloseTypes DEF CommitConfirm, TypeOK
<1>5. ASSUME NEW d \in Device, BeginDisable(c, d)
      PROVE  TypeOK'
  <2>1. [op |-> "disable"] \in Call /\ verified' \subseteq 0 .. MaxSecret
    BY <1>5 DEF Call, BeginDisable, TypeOK
  <2> QED
    BY <1>5, <2>1, OpenTypes DEF BeginDisable, TypeOK
<1>6. ASSUME CommitDisable(c)
      PROVE  TypeOK'
  <2>1. NoTotp \in [secret : 0 .. MaxSecret, confirmed : BOOLEAN]
    BY Bounds DEF NoTotp
  <2> QED
    BY <1>6, <2>1, CloseTypes DEF CommitDisable, TypeOK
<1> QED
  BY <1>1, <1>2, <1>3, <1>4, <1>5, <1>6

LEMMA PasskeyTypes ==
    ASSUME TypeOK,
           \/ \E c \in Request : \/ CommitPasskey(c) \/ CommitDelete(c)
                                 \/ \E d \in Device : \/ BeginDelete(c, d)
                                                      \/ \E x \in Challenge, p \in Purpose :
                                                            BeginPasskey(c, d, x, p)
           \/ \E x \in Challenge, p \in Purpose : StartChallenge(x, p)
    PROVE  TypeOK'
<1> USE DEF credentials, onetime, tokens, throttle
<1>1. ASSUME NEW x \in Challenge, NEW p \in Purpose, StartChallenge(x, p)
      PROVE  TypeOK'
  <2>1. [at |-> "live", for |-> p, until |-> now + ChallengeTTL]
        \in [at : {"new", "live", "gone"}, for : Purpose \cup {"none"}, until : Later]
    BY LaterTimes DEF TypeOK
  <2> QED
    BY <1>1, <2>1 DEF StartChallenge, TypeOK
<1>2. ASSUME NEW c \in Request, NEW d \in Device, NEW x \in Challenge, NEW p \in Purpose, BeginPasskey(c, d, x, p)
      PROVE  TypeOK'
  <2>1. [op |-> p, device |-> d, challenge |-> x, temporary |-> user.temporary] \in Call
    BY DEF Call, TypeOK, Row
  <2> QED
    BY <1>2, <2>1, OpenTypes DEF BeginPasskey, TypeOK
<1>3. ASSUME NEW c \in Request, CommitPasskey(c)
      PROVE  TypeOK'
  <2>1. /\ slot[c].device \in Device /\ slot[c].challenge \in Challenge
        /\ slot[c].temporary \in BOOLEAN
    BY <1>3, Carries DEF CommitPasskey, TypeOK
  <2>2. challenge' \in [Challenge -> [at : {"new", "live", "gone"}, for : Purpose \cup {"none"}, until : Later]]
    <3>1. challenge' = challenge \/ challenge' = [challenge EXCEPT ![slot[c].challenge].at = "gone"]
      BY <1>3 DEF CommitPasskey
    <3>2. PICK x \in Challenge : slot[c].challenge = x
      BY <2>1
    <3>3. challenge[x] \in [at : {"new", "live", "gone"}, for : Purpose \cup {"none"}, until : Later]
      BY DEF TypeOK
    <3>4. [challenge[x] EXCEPT !.at = "gone"]
          \in [at : {"new", "live", "gone"}, for : Purpose \cup {"none"}, until : Later]
      BY <3>3
    <3> QED
      BY <3>1, <3>2, <3>4 DEF TypeOK
  <2>5. passkey' \in BOOLEAN
    BY <1>3 DEF CommitPasskey, TypeOK
  <2>3. logins' \in [Challenge -> Nat]
    BY <1>3, <2>1, NatStep DEF CommitPasskey, TypeOK
  <2>4. /\ token' \in [Device -> [until : Later, temporary : BOOLEAN]]
        /\ refresh' \in [Device -> BOOLEAN]
    BY <1>3, <2>1, IssueTypes DEF CommitPasskey, TypeOK
  <2> QED
    BY <1>3, <2>2, <2>3, <2>4, <2>5, CloseTypes DEF CommitPasskey, TypeOK
<1>4. ASSUME NEW c \in Request, NEW d \in Device, BeginDelete(c, d)
      PROVE  TypeOK'
  <2>1. [op |-> "delete"] \in Call
    BY DEF Call
  <2> QED
    BY <1>4, <2>1, OpenTypes DEF BeginDelete, TypeOK
<1>5. ASSUME NEW c \in Request, CommitDelete(c)
      PROVE  TypeOK'
  BY <1>5, CloseTypes DEF CommitDelete, TypeOK
<1> QED
  BY <1>1, <1>2, <1>3, <1>4, <1>5

LEMMA TickTypes ==
    ASSUME TypeOK, Tick
    PROVE  TypeOK'
<1>1. now + 1 \in 0 .. MaxTime /\ 0 \in Nat
  BY Bounds, UpByOne DEF Tick, TypeOK
<1> QED
  BY <1>1 DEF Tick, TypeOK, credentials, onetime, tokens

LEMMA TypesKept ==
    ASSUME TypeOK, [Next]_vars
    PROVE  TypeOK'
<1>1. CASE UNCHANGED vars
  BY <1>1 DEF vars, TypeOK, credentials, onetime, tokens, throttle
<1>2. ASSUME NEW c \in Request, BeginWrong(c) \/ LoadAttempts(c) \/ SaveAttempts(c)
      PROVE  TypeOK'
  BY <1>2, ThrottleTypes
<1>3. ASSUME NEW c \in Request, CommitLogin(c) \/ \E d \in Device : BeginLogin(c, d)
      PROVE  TypeOK'
  BY <1>3, LoginTypes
<1>4. ASSUME NEW c \in Request,
             \/ BeginTemporary(c) \/ CommitTemporary(c) \/ CommitChange(c) \/ CommitReset(c)
             \/ \E d \in Device : BeginChange(c, d)
             \/ \E x \in Link : BeginReset(c, x)
      PROVE  TypeOK'
  BY <1>4, PasswordTypes
<1>5. ASSUME NEW c \in Request,
             \/ CommitEnrol(c) \/ CommitConfirm(c) \/ CommitDisable(c)
             \/ \E d \in Device : BeginEnrol(c, d) \/ BeginConfirm(c, d) \/ BeginDisable(c, d)
      PROVE  TypeOK'
  BY <1>5, FactorTypes
<1>6. ASSUME NEW c \in Request,
             \/ CommitPasskey(c) \/ CommitDelete(c)
             \/ \E d \in Device : \/ BeginDelete(c, d)
                                  \/ \E x \in Challenge, p \in Purpose : BeginPasskey(c, d, x, p)
      PROVE  TypeOK'
  BY <1>6, PasskeyTypes
<1>7. ASSUME \/ \E d \in Device : Refresh(d) \/ SignOut(d)
             \/ \E x \in Link : RequestReset(x)
             \/ \E x \in Challenge, p \in Purpose : StartChallenge(x, p)
             \/ Tick
      PROVE  TypeOK'
  BY <1>7, LoginTypes, ResetTypes, PasskeyTypes, TickTypes
<1> QED
  BY <1>1, <1>2, <1>3, <1>4, <1>5, <1>6, <1>7 DEF Next

\* Every variable keeps to its type, however many requests are served at once.
THEOREM AccountTypesCorrect == Spec => []TypeOK
<1>1. Init => TypeOK
  BY InitTypes
<1>2. TypeOK /\ [Next]_vars => TypeOK'
  BY TypesKept
<1> QED
  BY <1>1, <1>2, PTL DEF Spec

-----------------------------------------------------------------------------
(* What a step may do, variable by variable.                                 *)

\* What a request has read when it begins.
Fresh(call) ==
    /\ call.op \in {"login", "authenticate"} => call.temporary = user.temporary
    /\ call.op \in {"temporary", "change", "reset"} => call.read = user
    /\ call.op = "reset" => link[call.link].at = "live"
    /\ call.op = "enrol" => ~totp.confirmed
    /\ call.op = "confirm" => totp.secret \in verified'

Opening(c, call) ==
    /\ Open(c, call) /\ Fresh(call) /\ call # Idle
    /\ verified \subseteq verified'
    /\ UNCHANGED <<now, user, since, totp, onetime, tokens>>

Busy(c) == slot[c] # Idle

Opens == \E c \in Request, call \in Call : Opening(c, call)

\* A request that goes on with what it has read.
Counts(c) ==
    /\ Busy(c) /\ calm' = calm
    /\ \E row \in Counted : slot' = [slot EXCEPT ![c] = [op |-> "count", row |-> row]]

Closes(c) == Busy(c) /\ Close(c)

Rests == UNCHANGED <<slot, calm>>

LEMMA BeginsOpen ==
    ASSUME TypeOK, NEW c \in Request,
           \/ BeginWrong(c) \/ BeginTemporary(c)
           \/ \E x \in Link : BeginReset(c, x)
           \/ \E d \in Device :
                \/ BeginLogin(c, d) \/ BeginChange(c, d) \/ BeginEnrol(c, d)
                \/ BeginConfirm(c, d) \/ BeginDisable(c, d) \/ BeginDelete(c, d)
                \/ \E x \in Challenge, p \in Purpose : BeginPasskey(c, d, x, p)
    PROVE  Opens
<1> USE DEF credentials, onetime, tokens, throttle
<1>1. CASE BeginWrong(c)
  <2>1. Opening(c, [op |-> "wrong"]) /\ [op |-> "wrong"] \in Call
    BY <1>1 DEF BeginWrong, Opening, Fresh, Call, Idle
  <2> QED
    BY <2>1 DEF Opens
<1>2. CASE BeginTemporary(c)
  <2> DEFINE call == [op |-> "temporary", read |-> user]
  <2>1. call \in Call
    BY DEF Call, TypeOK
  <2>2. Opening(c, call)
    BY <1>2 DEF BeginTemporary, Opening, Fresh, Idle
  <2> QED
    BY <2>1, <2>2 DEF Opens
<1>3. ASSUME NEW x \in Link, BeginReset(c, x)
      PROVE  Opens
  <2> DEFINE call == [op |-> "reset", link |-> x, read |-> user]
  <2>1. call \in Call
    BY DEF Call, TypeOK
  <2>2. Opening(c, call)
    BY <1>3 DEF BeginReset, Resetable, Opening, Fresh, Idle
  <2> QED
    BY <2>1, <2>2 DEF Opens
<1>4. ASSUME NEW d \in Device, BeginLogin(c, d)
      PROVE  Opens
  <2> DEFINE call == [op |-> "login", device |-> d, temporary |-> user.temporary]
  <2>1. call \in Call
    BY DEF Call, TypeOK, Row
  <2>2. Opening(c, call)
    BY <1>4 DEF BeginLogin, Opening, Fresh, Idle
  <2> QED
    BY <2>1, <2>2 DEF Opens
<1>5. ASSUME NEW d \in Device, BeginChange(c, d)
      PROVE  Opens
  <2> DEFINE call == [op |-> "change", device |-> d, read |-> user]
  <2>1. call \in Call
    BY DEF Call, TypeOK
  <2>2. Opening(c, call)
    BY <1>5 DEF BeginChange, Opening, Fresh, Idle
  <2> QED
    BY <2>1, <2>2 DEF Opens
<1>6. ASSUME NEW d \in Device, BeginEnrol(c, d)
      PROVE  Opens
  <2> DEFINE call == [op |-> "enrol", read |-> totp.secret, secret |-> secrets + 1]
  <2>1. secrets + 1 \in 1 .. MaxSecret
    BY <1>6, Bounds, UpByOne DEF BeginEnrol, TypeOK
  <2>2. call \in Call
    BY <2>1 DEF Call, TypeOK
  <2>3. Opening(c, call)
    BY <1>6 DEF BeginEnrol, Opening, Fresh, Idle
  <2> QED
    BY <2>2, <2>3 DEF Opens
<1>7. ASSUME NEW d \in Device, BeginConfirm(c, d)
      PROVE  Opens
  <2>1. Opening(c, [op |-> "confirm"]) /\ [op |-> "confirm"] \in Call
    BY <1>7 DEF BeginConfirm, Checked, Opening, Fresh, Call, Idle
  <2> QED
    BY <2>1 DEF Opens
<1>8. ASSUME NEW d \in Device, BeginDisable(c, d)
      PROVE  Opens
  <2>1. Opening(c, [op |-> "disable"]) /\ [op |-> "disable"] \in Call
    BY <1>8 DEF BeginDisable, Opening, Fresh, Call, Idle
  <2> QED
    BY <2>1 DEF Opens
<1>9. ASSUME NEW d \in Device, BeginDelete(c, d)
      PROVE  Opens
  <2>1. Opening(c, [op |-> "delete"]) /\ [op |-> "delete"] \in Call
    BY <1>9 DEF BeginDelete, Opening, Fresh, Call, Idle
  <2> QED
    BY <2>1 DEF Opens
<1>10. ASSUME NEW d \in Device, NEW x \in Challenge, NEW p \in Purpose, BeginPasskey(c, d, x, p)
       PROVE  Opens
  <2> DEFINE call == [op |-> p, device |-> d, challenge |-> x, temporary |-> user.temporary]
  <2>1. call \in Call
    BY DEF Call, TypeOK, Row
  <2>2. Opening(c, call)
    BY <1>10 DEF BeginPasskey, Opening, Fresh, Idle, Purpose
  <2> QED
    BY <2>1, <2>2 DEF Opens
<1> QED
  BY <1>1, <1>2, <1>3, <1>4, <1>5, <1>6, <1>7, <1>8, <1>9, <1>10

LEMMA CommitsClose ==
    ASSUME NEW c \in Request,
           \/ SaveAttempts(c) \/ CommitLogin(c) \/ CommitTemporary(c) \/ CommitChange(c)
           \/ CommitReset(c) \/ CommitEnrol(c) \/ CommitConfirm(c) \/ CommitDisable(c)
           \/ CommitPasskey(c) \/ CommitDelete(c)
    PROVE  Closes(c)
<1>1. slot[c].op # "idle"
  BY DEF SaveAttempts, CommitLogin, CommitTemporary, CommitChange, CommitReset, CommitEnrol,
              CommitConfirm, CommitDisable, CommitPasskey, CommitDelete, Purpose
<1>2. Close(c)
  BY DEF SaveAttempts, CommitLogin, CommitTemporary, CommitChange, CommitReset, CommitEnrol,
              CommitConfirm, CommitDisable, CommitPasskey, CommitDelete
<1>3. Busy(c)
  BY <1>1 DEF Busy, Idle
<1> QED
  BY <1>2, <1>3 DEF Closes

LEMMA RequestsMove ==
    ASSUME TypeOK, Next
    PROVE  \/ Opens
           \/ \E c \in Request : Counts(c) \/ Closes(c)
           \/ Rests
<1>1. ASSUME NEW c \in Request, LoadAttempts(c)
      PROVE  Counts(c)
  <2>1. slot[c].op = "wrong" /\ calm' = calm
        /\ slot' = [slot EXCEPT ![c] = [op |-> "count", row |-> AfterFailure(attempts)]]
    BY <1>1 DEF LoadAttempts
  <2>2. Busy(c)
    BY <2>1 DEF Busy, Idle
  <2> QED
    BY <2>1, <2>2, FailureTypes DEF Counts
<1>2. ASSUME NEW c \in Request,
             \/ SaveAttempts(c) \/ CommitLogin(c) \/ CommitTemporary(c) \/ CommitChange(c)
             \/ CommitReset(c) \/ CommitEnrol(c) \/ CommitConfirm(c) \/ CommitDisable(c)
             \/ CommitPasskey(c) \/ CommitDelete(c)
      PROVE  Closes(c)
  BY <1>2, CommitsClose
<1>3. ASSUME NEW c \in Request,
           \/ BeginWrong(c) \/ BeginTemporary(c)
           \/ \E x \in Link : BeginReset(c, x)
           \/ \E d \in Device :
                \/ BeginLogin(c, d) \/ BeginChange(c, d) \/ BeginEnrol(c, d)
                \/ BeginConfirm(c, d) \/ BeginDisable(c, d) \/ BeginDelete(c, d)
                \/ \E x \in Challenge, p \in Purpose : BeginPasskey(c, d, x, p)
      PROVE  Opens
  BY <1>3, BeginsOpen
<1>4. ASSUME \/ \E d \in Device : Refresh(d) \/ SignOut(d)
             \/ \E x \in Link : RequestReset(x)
             \/ \E x \in Challenge, p \in Purpose : StartChallenge(x, p)
             \/ Tick
      PROVE  Rests
  BY <1>4 DEF Refresh, SignOut, RequestReset, StartChallenge, Tick, Rests
<1> QED
  BY <1>1, <1>2, <1>3, <1>4 DEF Next

\* The same for the variables that the properties are about.
LEMMA NowMoves ==
    ASSUME Next
    PROVE  Tick \/ now' = now
BY DEF Next, BeginWrong, LoadAttempts, SaveAttempts, BeginLogin, CommitLogin, Refresh, SignOut,
       BeginTemporary, CommitTemporary, BeginChange, CommitChange, RequestReset, BeginReset, CommitReset,
       BeginEnrol, CommitEnrol, BeginConfirm, CommitConfirm, BeginDisable, CommitDisable,
       StartChallenge, BeginPasskey, CommitPasskey, BeginDelete, CommitDelete

LEMMA ChallengeMoves ==
    ASSUME Next
    PROVE  \/ \E c \in Request : CommitPasskey(c)
           \/ \E x \in Challenge, p \in Purpose : StartChallenge(x, p)
           \/ UNCHANGED <<challenge, logins>>
<1>1. ASSUME NEW c \in Request,
             \/ BeginWrong(c) \/ LoadAttempts(c) \/ SaveAttempts(c) \/ CommitLogin(c)
             \/ BeginTemporary(c) \/ CommitTemporary(c) \/ CommitChange(c) \/ CommitReset(c)
             \/ CommitEnrol(c) \/ CommitConfirm(c) \/ CommitDisable(c) \/ CommitDelete(c)
      PROVE  UNCHANGED <<challenge, logins>>
  BY <1>1 DEF onetime, BeginWrong, LoadAttempts, SaveAttempts, CommitLogin, BeginTemporary,
                       CommitTemporary, CommitChange, CommitReset, CommitEnrol, CommitConfirm,
                       CommitDisable, CommitDelete
<1>2. ASSUME NEW c \in Request, NEW d \in Device,
             \/ BeginLogin(c, d) \/ BeginChange(c, d) \/ BeginEnrol(c, d) \/ BeginConfirm(c, d)
             \/ BeginDisable(c, d) \/ BeginDelete(c, d)
      PROVE  UNCHANGED <<challenge, logins>>
  BY <1>2 DEF onetime, BeginLogin, BeginChange, BeginEnrol, BeginConfirm, BeginDisable,
                       BeginDelete
<1>3. ASSUME \/ \E c \in Request, x \in Link : BeginReset(c, x)
             \/ \E c \in Request, d \in Device, x \in Challenge, p \in Purpose :
                   BeginPasskey(c, d, x, p)
             \/ \E d \in Device : Refresh(d) \/ SignOut(d)
             \/ \E x \in Link : RequestReset(x)
             \/ Tick
      PROVE  UNCHANGED <<challenge, logins>>
  BY <1>3 DEF onetime, BeginReset, BeginPasskey, Refresh, SignOut, RequestReset, Tick
<1> QED
  BY <1>1, <1>2, <1>3 DEF Next

LEMMA LinkMoves ==
    ASSUME Next
    PROVE  \/ \E c \in Request : CommitReset(c)
           \/ \E x \in Link : RequestReset(x)
           \/ UNCHANGED <<link, resets>>
<1>1. ASSUME NEW c \in Request,
             \/ BeginWrong(c) \/ LoadAttempts(c) \/ SaveAttempts(c) \/ CommitLogin(c)
             \/ BeginTemporary(c) \/ CommitTemporary(c) \/ CommitChange(c) \/ CommitEnrol(c)
             \/ CommitConfirm(c) \/ CommitDisable(c) \/ CommitPasskey(c) \/ CommitDelete(c)
      PROVE  UNCHANGED <<link, resets>>
  BY <1>1 DEF onetime, BeginWrong, LoadAttempts, SaveAttempts, CommitLogin, BeginTemporary,
                       CommitTemporary, CommitChange, CommitEnrol, CommitConfirm,
                       CommitDisable, CommitPasskey, CommitDelete
<1>2. ASSUME NEW c \in Request, NEW d \in Device,
             \/ BeginLogin(c, d) \/ BeginChange(c, d) \/ BeginEnrol(c, d) \/ BeginConfirm(c, d)
             \/ BeginDisable(c, d) \/ BeginDelete(c, d)
      PROVE  UNCHANGED <<link, resets>>
  BY <1>2 DEF onetime, BeginLogin, BeginChange, BeginEnrol, BeginConfirm, BeginDisable,
                       BeginDelete
<1>3. ASSUME \/ \E c \in Request, x \in Link : BeginReset(c, x)
             \/ \E c \in Request, d \in Device, x \in Challenge, p \in Purpose :
                   BeginPasskey(c, d, x, p)
             \/ \E d \in Device : Refresh(d) \/ SignOut(d)
             \/ \E x \in Challenge, p \in Purpose : StartChallenge(x, p)
             \/ Tick
      PROVE  UNCHANGED <<link, resets>>
  BY <1>3 DEF onetime, BeginReset, BeginPasskey, Refresh, SignOut, StartChallenge, Tick
<1> QED
  BY <1>1, <1>2, <1>3 DEF Next

LEMMA UserMoves ==
    ASSUME Next
    PROVE  \/ \E c \in Request : CommitTemporary(c) \/ CommitChange(c) \/ CommitReset(c)
           \/ UNCHANGED <<user, since>>
<1>1. ASSUME NEW c \in Request,
             \/ BeginWrong(c) \/ LoadAttempts(c) \/ SaveAttempts(c) \/ CommitLogin(c)
             \/ BeginTemporary(c) \/ CommitEnrol(c) \/ CommitConfirm(c) \/ CommitDisable(c)
             \/ CommitPasskey(c) \/ CommitDelete(c)
      PROVE  UNCHANGED <<user, since>>
  BY <1>1 DEF credentials, BeginWrong, LoadAttempts, SaveAttempts, CommitLogin, BeginTemporary,
                           CommitEnrol, CommitConfirm, CommitDisable, CommitPasskey,
                           CommitDelete
<1>2. ASSUME NEW c \in Request, NEW d \in Device,
             \/ BeginLogin(c, d) \/ BeginChange(c, d) \/ BeginEnrol(c, d) \/ BeginConfirm(c, d)
             \/ BeginDisable(c, d) \/ BeginDelete(c, d)
      PROVE  UNCHANGED <<user, since>>
  BY <1>2 DEF credentials, BeginLogin, BeginChange, BeginEnrol, BeginConfirm, BeginDisable,
                           BeginDelete
<1>3. ASSUME \/ \E c \in Request, x \in Link : BeginReset(c, x)
             \/ \E c \in Request, d \in Device, x \in Challenge, p \in Purpose :
                   BeginPasskey(c, d, x, p)
             \/ \E d \in Device : Refresh(d) \/ SignOut(d)
             \/ \E x \in Link : RequestReset(x)
             \/ \E x \in Challenge, p \in Purpose : StartChallenge(x, p)
             \/ Tick
      PROVE  UNCHANGED <<user, since>>
  BY <1>3 DEF credentials, BeginReset, BeginPasskey, Refresh, SignOut, RequestReset,
                           StartChallenge, Tick
<1> QED
  BY <1>1, <1>2, <1>3 DEF Next

LEMMA TokenMoves ==
    ASSUME Next
    PROVE  \/ \E c \in Request : CommitLogin(c) \/ CommitChange(c) \/ CommitPasskey(c)
           \/ \E d \in Device : Refresh(d) \/ SignOut(d)
           \/ UNCHANGED token
BY DEF tokens, Next, BeginWrong, LoadAttempts, SaveAttempts, BeginLogin,
       BeginTemporary, CommitTemporary, BeginChange, RequestReset, BeginReset, CommitReset,
       BeginEnrol, CommitEnrol, BeginConfirm, CommitConfirm, BeginDisable, CommitDisable,
       StartChallenge, BeginPasskey, BeginDelete, CommitDelete, Tick

LEMMA FactorMoves ==
    ASSUME Next
    PROVE  \/ \E c \in Request : CommitEnrol(c) \/ CommitConfirm(c) \/ CommitDisable(c)
           \/ UNCHANGED totp
<1>1. ASSUME NEW c \in Request,
             \/ BeginWrong(c) \/ LoadAttempts(c) \/ SaveAttempts(c) \/ CommitLogin(c)
             \/ BeginTemporary(c) \/ CommitTemporary(c) \/ CommitChange(c) \/ CommitReset(c)
             \/ CommitPasskey(c) \/ CommitDelete(c)
      PROVE  UNCHANGED totp
  BY <1>1 DEF credentials, BeginWrong, LoadAttempts, SaveAttempts, CommitLogin, BeginTemporary,
                           CommitTemporary, CommitChange, CommitReset, CommitPasskey,
                           CommitDelete
<1>2. ASSUME NEW c \in Request, NEW d \in Device,
             \/ BeginLogin(c, d) \/ BeginChange(c, d) \/ BeginEnrol(c, d) \/ BeginConfirm(c, d)
             \/ BeginDisable(c, d) \/ BeginDelete(c, d)
      PROVE  UNCHANGED totp
  BY <1>2 DEF credentials, BeginLogin, BeginChange, BeginEnrol, BeginConfirm, BeginDisable,
                           BeginDelete
<1>3. ASSUME \/ \E c \in Request, x \in Link : BeginReset(c, x)
             \/ \E c \in Request, d \in Device, x \in Challenge, p \in Purpose :
                   BeginPasskey(c, d, x, p)
             \/ \E d \in Device : Refresh(d) \/ SignOut(d)
             \/ \E x \in Link : RequestReset(x)
             \/ \E x \in Challenge, p \in Purpose : StartChallenge(x, p)
             \/ Tick
      PROVE  UNCHANGED totp
  BY <1>3 DEF credentials, BeginReset, BeginPasskey, Refresh, SignOut, RequestReset,
                           StartChallenge, Tick
<1> QED
  BY <1>1, <1>2, <1>3 DEF Next

LEMMA VerifiedGrows ==
    ASSUME Next
    PROVE  verified \subseteq verified'
<1>1. ASSUME NEW c \in Request,
             \/ BeginWrong(c) \/ LoadAttempts(c) \/ SaveAttempts(c) \/ CommitLogin(c)
             \/ BeginTemporary(c) \/ CommitTemporary(c) \/ CommitChange(c) \/ CommitReset(c)
             \/ CommitEnrol(c) \/ CommitConfirm(c) \/ CommitDisable(c) \/ CommitPasskey(c)
             \/ CommitDelete(c)
      PROVE  verified \subseteq verified'
  BY <1>1 DEF credentials, Checked, BeginWrong, LoadAttempts, SaveAttempts, CommitLogin,
                                    BeginTemporary, CommitTemporary, CommitChange, CommitReset,
                                    CommitEnrol, CommitConfirm, CommitDisable, CommitPasskey,
                                    CommitDelete
<1>2. ASSUME NEW c \in Request, NEW d \in Device,
             \/ BeginLogin(c, d) \/ BeginChange(c, d) \/ BeginEnrol(c, d) \/ BeginConfirm(c, d)
             \/ BeginDisable(c, d) \/ BeginDelete(c, d)
      PROVE  verified \subseteq verified'
  BY <1>2 DEF credentials, Checked, BeginLogin, BeginChange, BeginEnrol, BeginConfirm,
                                    BeginDisable, BeginDelete
<1>3. ASSUME \/ \E c \in Request, x \in Link : BeginReset(c, x)
             \/ \E c \in Request, d \in Device, x \in Challenge, p \in Purpose :
                   BeginPasskey(c, d, x, p)
             \/ \E d \in Device : Refresh(d) \/ SignOut(d)
             \/ \E x \in Link : RequestReset(x)
             \/ \E x \in Challenge, p \in Purpose : StartChallenge(x, p)
             \/ Tick
      PROVE  verified \subseteq verified'
  BY <1>3 DEF credentials, Checked, BeginReset, BeginPasskey, Refresh, SignOut, RequestReset,
                                    StartChallenge, Tick
<1> QED
  BY <1>1, <1>2, <1>3 DEF Next

-----------------------------------------------------------------------------
(* The inductive invariant.                                                  *)

\* Calm: one request at a time.
Alone == calm => \A c, d \in Request : Busy(c) /\ Busy(d) => c = d

\* A challenge that is still there has given nothing.
ChallengeInv == \A x \in Challenge :
    logins[x] <= 1 /\ (challenge[x].at # "gone" => logins[x] = 0)

\* While calm, so has a link, and a request that is about to use one finds it alive.
LinkInv == calm =>
    /\ \A x \in Link : resets[x] <= 1 /\ (link[x].at # "used" => resets[x] = 0)
    /\ \A c \in Request : slot[c].op = "reset" => link[slot[c].link].at = "live"

\* A token that does not know of the temporary password was made before it, or by a request
\* that had read the row in the same unit of time.
TokensKnow ==
    \A d \in Device :
       /\ token[d].until <= now + TokenLife
       /\ user.temporary /\ ~token[d].temporary => token[d].until <= since + TokenLife

RequestsKnow ==
    \A c \in Request :
       /\ slot[c].op \in {"login", "authenticate"} /\ user.temporary /\ ~slot[c].temporary
          => since = now
       /\ slot[c].op = "change" /\ user.temporary /\ ~slot[c].read.temporary => since = now

TokenInv == since <= now /\ TokensKnow /\ RequestsKnow

\* While calm, what a request has read is what is there.
CallsFit == \A c \in Request :
    /\ slot[c].op \in {"temporary", "change", "reset"} => slot[c].read = user
    /\ slot[c].op = "confirm" => totp.secret \in verified
    /\ slot[c].op = "enrol" => ~totp.confirmed

\* The marks that the row of the password carries.
MarksRight(row) == IF row.by = "parent" THEN row.temporary /\ row.until # None
                                        ELSE ~row.temporary /\ row.until = None

MarksInv ==
    /\ totp.confirmed => totp.secret # 0
    /\ calm => /\ MarksRight(user)
               /\ totp.confirmed => totp.secret \in verified
               /\ CallsFit

IInv == TypeOK /\ Alone /\ ChallengeInv /\ LinkInv /\ TokenInv /\ MarksInv

LEMMA AloneKept ==
    ASSUME TypeOK, Alone, [Next]_vars
    PROVE  Alone'
<1>1. CASE UNCHANGED vars \/ Rests
  BY <1>1 DEF vars, Rests, Alone, Busy
<1>2. ASSUME NEW c \in Request, NEW call \in Call, Opening(c, call)
      PROVE  Alone'
  BY <1>2 DEF Opening, Open, Alone, Busy, TypeOK
<1>3. ASSUME NEW c \in Request, Counts(c) \/ Closes(c)
      PROVE  Alone'
  BY <1>3 DEF Counts, Closes, Close, Alone, Busy, TypeOK
<1> QED
  BY <1>1, <1>2, <1>3, RequestsMove DEF Opens

LEMMA ChallengeKept ==
    ASSUME TypeOK, ChallengeInv, [Next]_vars
    PROVE  ChallengeInv'
<1>1. CASE UNCHANGED vars \/ UNCHANGED <<challenge, logins>>
  BY <1>1 DEF vars, onetime, ChallengeInv
<1>2. ASSUME NEW c \in Request, CommitPasskey(c)
      PROVE  ChallengeInv'
  <2>1. CASE UNCHANGED <<challenge, logins>>
    BY <2>1 DEF ChallengeInv
  <2>2. CASE ~ UNCHANGED <<challenge, logins>>
    <3>1. PICK y \in Challenge : slot[c].challenge = y
      BY <1>2, Carries DEF CommitPasskey, TypeOK
    <3>2. /\ challenge[y].at = "live"
          /\ challenge' = [challenge EXCEPT ![y].at = "gone"]
          /\ logins' = [logins EXCEPT ![y] = @ + 1]
      BY <1>2, <2>2, <3>1 DEF CommitPasskey, Consumable
    <3>3. logins[y] = 0
      BY <3>2 DEF ChallengeInv
    <3>4. logins'[y] = 1 /\ challenge'[y].at = "gone"
      BY <3>2, <3>3 DEF TypeOK
    <3>5. \A x \in Challenge : x # y => logins'[x] = logins[x] /\ challenge'[x] = challenge[x]
      BY <3>2 DEF TypeOK
    <3> QED
      BY <3>4, <3>5 DEF ChallengeInv
  <2> QED
    BY <2>1, <2>2
<1>3. ASSUME NEW y \in Challenge, NEW p \in Purpose, StartChallenge(y, p)
      PROVE  ChallengeInv'
  <2>1. logins' = logins /\ challenge[y].at = "new"
    BY <1>3 DEF StartChallenge, NoChallenge
  <2>2. \A x \in Challenge : challenge'[x].at # "gone" => challenge[x].at # "gone"
    BY <1>3, <2>1 DEF StartChallenge, TypeOK
  <2> QED
    BY <2>1, <2>2 DEF ChallengeInv
<1> QED
  BY <1>1, <1>2, <1>3, ChallengeMoves

LEMMA LinkKept ==
    ASSUME TypeOK, Alone, LinkInv, [Next]_vars
    PROVE  LinkInv'
<1> SUFFICES ASSUME calm', ~ UNCHANGED vars
             PROVE  LinkInv'
  BY DEF LinkInv, vars, onetime
<1> USE DEF LinkInv
<1>1. calm /\ (Opens => \A c \in Request : slot[c] = Idle)
  BY RequestsMove DEF Opens, Opening, Open, Counts, Closes, Close, Rests
<1>2. CASE Opens
  BY <1>1, <1>2 DEF Opens, Opening, Open, Fresh, onetime, TypeOK, Idle
<1>3. ASSUME NEW c \in Request, CommitReset(c)
      PROVE  LinkInv'
  <2>1. PICK y \in Link : slot[c].link = y
    BY <1>3, Carries DEF CommitReset, TypeOK
  <2>2. link[y].at = "live" /\ resets[y] = 0
    BY <1>1, <1>3, <2>1 DEF CommitReset
  <2>3. /\ link' = [link EXCEPT ![y].at = "used"] /\ resets' = [resets EXCEPT ![y] = @ + 1]
        /\ Closes(c)
    BY <1>3, <2>1 DEF CommitReset, Closes, Busy, Idle
  <2>4. link'[y].at = "used" /\ resets'[y] = 1
    BY <2>2, <2>3 DEF TypeOK
  <2>5. \A x \in Link : x # y => link'[x] = link[x] /\ resets'[x] = resets[x]
    BY <2>3 DEF TypeOK
  <2>6. \A q \in Request : slot'[q] = Idle
    BY <1>1, <2>3 DEF Closes, Close, Alone, Busy, TypeOK
  <2> QED
    BY <1>1, <2>4, <2>5, <2>6 DEF Idle
<1>4. ASSUME NEW y \in Link, RequestReset(y)
      PROVE  LinkInv'
  <2>1. /\ \A x \in Link : link'[x].at # "used" => link[x].at # "used"
        /\ \A x \in Link : link[x].at = "live" => link'[x].at = "live"
    BY <1>4 DEF RequestReset, TypeOK
  <2>2. \A c \in Request : slot[c].op = "reset" => slot[c].link \in Link
    BY Carries DEF TypeOK
  <2> QED
    BY <1>1, <1>4, <2>1, <2>2 DEF RequestReset
<1>5. CASE ~Opens /\ UNCHANGED <<link, resets>>
  BY <1>1, <1>5, RequestsMove DEF Counts, Closes, Close, Rests, Idle, TypeOK
<1> QED
  BY <1>2, <1>3, <1>4, <1>5, LinkMoves

-----------------------------------------------------------------------------
(* Tokens.                                                                   *)

LEMMA LifeStep ==
    ASSUME NEW n \in Nat, NEW s \in Nat, NEW life \in Nat, s <= n
    PROVE  /\ n <= n /\ n + life <= n + life /\ 0 <= n + life /\ 0 <= s + life
           /\ s <= n + 1 /\ \A u \in Nat : u <= n + life => u <= (n + 1) + life
OBVIOUS

LEMMA Ages ==
    ASSUME TypeOK
    PROVE  now \in Nat /\ since \in Nat /\ TokenLife \in Nat /\ \A d \in Device : token[d].until \in Nat
BY Bounds, LaterIsNumbers DEF TypeOK

\* A row that is written while no token is given.
LEMMA WriteKeepsTokens ==
    ASSUME TypeOK, TokenInv, NEW row \in Row, Write(row), now' = now
    PROVE  /\ since' <= now'
           /\ \A d \in Device : user'.temporary /\ ~token[d].temporary
                                => token[d].until <= since' + TokenLife
           /\ \A c \in Request :
                /\ slot[c].op \in {"login", "authenticate"} /\ user'.temporary /\ ~slot[c].temporary
                   => since' = now'
                /\ slot[c].op = "change" /\ user'.temporary /\ ~slot[c].read.temporary
                   => since' = now'
<1>1. user.temporary \in BOOLEAN /\ user' = row /\ row.temporary \in BOOLEAN
  BY DEF Write, TypeOK, Row
<1>2. CASE user.temporary
  <2>1. since' = since
    BY <1>1, <1>2 DEF Write
  <2> QED
    BY <1>2, <2>1 DEF TokenInv, TokensKnow, RequestsKnow
<1>3. CASE ~user.temporary /\ row.temporary
  <2>1. since' = now
    BY <1>1, <1>3 DEF Write
  <2>2. now <= now
    BY Ages, LifeStep DEF TokenInv, TokensKnow, RequestsKnow
  <2> QED
    BY <2>1, <2>2 DEF TokenInv, TokensKnow, RequestsKnow
<1>4. CASE ~user.temporary /\ ~row.temporary
  <2>1. since' = since
    BY <1>4 DEF Write
  <2> QED
    BY <1>1, <1>4, <2>1 DEF TokenInv, TokensKnow, RequestsKnow
<1> QED
  BY <1>1, <1>2, <1>3, <1>4

\* A token that is given to a device.
LEMMA IssueKeepsTokens ==
    ASSUME TypeOK, TokenInv, NEW d \in Device, NEW t \in BOOLEAN, Issue(d, t),
           now' = now, since' = since, user' = user,
           user.temporary /\ ~t => since = now
    PROVE  TokensKnow'
<1>1. /\ token'[d] = [until |-> now + TokenLife, temporary |-> t]
      /\ \A e \in Device : e # d => token'[e] = token[e]
  BY DEF Issue, TypeOK
<1>2. now + TokenLife <= now + TokenLife
  BY Ages, LifeStep DEF TokenInv, TokensKnow, RequestsKnow
<1> QED
  BY <1>1, <1>2 DEF TokenInv, RequestsKnow, TokensKnow

\* Requests that go on or end know what they knew.
LEMMA RequestsStillKnow ==
    ASSUME TypeOK, TokenInv, now' = now, since' = since, user' = user,
           Opens \/ (\E c \in Request : Counts(c) \/ Closes(c)) \/ Rests
    PROVE  RequestsKnow'
<1>1. ASSUME NEW c \in Request, NEW call \in Call, Opening(c, call)
      PROVE  RequestsKnow'
  BY <1>1 DEF Opening, Open, Fresh, TypeOK, TokenInv, TokensKnow, RequestsKnow
<1>2. ASSUME NEW c \in Request, Counts(c) \/ Closes(c)
      PROVE  RequestsKnow'
  BY <1>2 DEF Counts, Closes, Close, Idle, TypeOK, TokenInv, TokensKnow, RequestsKnow
<1>3. CASE Rests
  BY <1>3 DEF Rests, TokenInv, TokensKnow, RequestsKnow
<1> QED
  BY <1>1, <1>2, <1>3 DEF Opens

LEMMA TokenKept ==
    ASSUME TypeOK, TokenInv, [Next]_vars
    PROVE  TokenInv'
<1>1. CASE UNCHANGED vars
  BY <1>1 DEF vars, credentials, tokens, TokenInv, TokensKnow, RequestsKnow
<1> SUFFICES ASSUME Next
             PROVE  TokenInv'
  BY <1>1
<1>2. CASE Tick
  <2>1. /\ now' = now + 1 /\ UNCHANGED <<user, since, token, slot>>
        /\ \A c \in Request : slot[c] = Idle
    BY <1>2 DEF Tick, credentials, tokens
  <2>2. since <= now + 1 /\ \A d \in Device : token[d].until <= (now + 1) + TokenLife
    BY Ages, LifeStep DEF TokenInv, TokensKnow, RequestsKnow
  <2> QED
    BY <2>1, <2>2 DEF TokenInv, TokensKnow, RequestsKnow, Idle
<1> SUFFICES ASSUME now' = now
             PROVE  TokenInv'
  BY <1>2, NowMoves
<1>3. TokensKnow' /\ RequestsKnow' /\ since' <= now' => TokenInv'
  BY DEF TokensKnow, RequestsKnow, TokenInv
<1>4. Opens \/ (\E c \in Request : Counts(c) \/ Closes(c)) \/ Rests
  BY RequestsMove
<1>5. ASSUME NEW c \in Request, CommitTemporary(c) \/ CommitReset(c)
      PROVE  TokenInv'
  <2>1. PICK row \in Row : Write(row)
    <3>1. CASE CommitTemporary(c)
      <4> DEFINE row == [by |-> "parent",
                         temporary |-> IF slot[c].read.temporary THEN user.temporary ELSE TRUE,
                         until |-> now + TemporaryTTL]
      <4>1. row \in Row
        BY LaterTimes DEF Row, TypeOK
      <4> QED
        BY <3>1, <4>1 DEF CommitTemporary
    <3>2. CASE CommitReset(c)
      <4>1. slot[c].read \in Row
        BY <3>2, Carries DEF CommitReset, TypeOK
      <4> QED
        BY <3>2, <4>1, WrittenTypes DEF CommitReset
    <3> QED
      BY <1>5, <3>1, <3>2
  <2>2. token' = token /\ Close(c)
    BY <1>5 DEF CommitTemporary, CommitReset, tokens
  <2>3. TokensKnow'
    BY <2>1, <2>2, WriteKeepsTokens DEF TokenInv, RequestsKnow, TokensKnow
  <2>4. RequestsKnow'
    BY <2>1, <2>2, WriteKeepsTokens DEF Close, Idle, TypeOK, RequestsKnow
  <2> QED
    BY <1>3, <2>1, <2>3, <2>4, WriteKeepsTokens
<1>6. ASSUME NEW c \in Request, CommitChange(c)
      PROVE  TokenInv'
  <2> DEFINE read == slot[c].read
  <2>1. slot[c].op = "change" /\ slot[c].device \in Device /\ read \in Row
    BY <1>6, Carries DEF CommitChange, TypeOK
  <2>2. PICK d \in Device : slot[c].device = d
    BY <2>1
  <2>3. Write(Written(read)) /\ Written(read) \in Row /\ Issue(d, FALSE) /\ Close(c)
    BY <1>6, <2>1, <2>2, WrittenTypes DEF CommitChange
  <2>4. user'.temporary => user.temporary /\ ~read.temporary
    BY <2>1, <2>3 DEF Write, Written, Row, TypeOK
  <2>5. user'.temporary => since' = now' /\ since' = since
    BY <2>1, <2>3, <2>4 DEF TokenInv, TokensKnow, RequestsKnow, Write
  <2>6. /\ token'[d] = [until |-> now + TokenLife, temporary |-> FALSE]
        /\ \A e \in Device : e # d => token'[e] = token[e]
    BY <2>3 DEF Issue, TypeOK
  <2>7. now + TokenLife <= now + TokenLife
    BY Ages, LifeStep DEF TokenInv, TokensKnow, RequestsKnow
  <2>8. TokensKnow'
    BY <2>3, <2>5, <2>6, <2>7, WriteKeepsTokens DEF TokenInv, RequestsKnow, TokensKnow
  <2>9. RequestsKnow'
    BY <2>3, WriteKeepsTokens DEF Close, Idle, TypeOK, RequestsKnow
  <2> QED
    BY <1>3, <2>3, <2>8, <2>9, WriteKeepsTokens
<1> SUFFICES ASSUME user' = user, since' = since
             PROVE  TokenInv'
  BY <1>5, <1>6, UserMoves
<1>7. RequestsKnow' /\ since' <= now'
  BY <1>4, RequestsStillKnow DEF TokenInv, TokensKnow, RequestsKnow
<1>8. ASSUME NEW c \in Request, CommitLogin(c)
      PROVE  TokensKnow'
  <2>1. slot[c].op = "login" /\ slot[c].device \in Device /\ slot[c].temporary \in BOOLEAN
    BY <1>8, Carries DEF CommitLogin, TypeOK
  <2>2. Issue(slot[c].device, slot[c].temporary)
    BY <1>8 DEF CommitLogin
  <2>3. user.temporary /\ ~slot[c].temporary => since = now
    BY <2>1 DEF TokenInv, TokensKnow, RequestsKnow
  <2> QED
    BY <2>1, <2>2, <2>3, IssueKeepsTokens
<1>9. ASSUME NEW c \in Request, CommitPasskey(c)
      PROVE  TokensKnow'
  <2>1. /\ slot[c].op \in Purpose /\ slot[c].device \in Device /\ slot[c].temporary \in BOOLEAN
    BY <1>9, Carries DEF CommitPasskey, TypeOK
  <2>2. \/ slot[c].op = "authenticate" /\ Issue(slot[c].device, slot[c].temporary)
        \/ token' = token
    BY <1>9 DEF CommitPasskey, tokens
  <2>3. slot[c].op = "authenticate" /\ user.temporary /\ ~slot[c].temporary => since = now
    BY <2>1 DEF TokenInv, TokensKnow, RequestsKnow
  <2>4. CASE token' = token
    BY <2>4 DEF TokenInv, RequestsKnow, TokensKnow
  <2> QED
    BY <2>1, <2>2, <2>3, <2>4, IssueKeepsTokens
<1>10. ASSUME NEW d \in Device, Refresh(d)
       PROVE  TokensKnow'
  <2>1. Issue(d, user.temporary) /\ user.temporary \in BOOLEAN
    BY <1>10 DEF Refresh, Refreshed, TypeOK, Row
  <2> QED
    BY <2>1, IssueKeepsTokens
<1>11. ASSUME NEW d \in Device, SignOut(d)
       PROVE  TokensKnow'
  <2>1. /\ token'[d] = NoToken
        /\ \A e \in Device : e # d => token'[e] = token[e]
    BY <1>11 DEF SignOut, TypeOK
  <2>2. 0 <= now + TokenLife /\ 0 <= since + TokenLife
    BY Ages, LifeStep DEF TokenInv, TokensKnow, RequestsKnow
  <2> QED
    BY <2>1, <2>2 DEF NoToken, TokenInv, RequestsKnow, TokensKnow
<1>12. ASSUME token' = token
       PROVE  TokensKnow'
  BY <1>12 DEF TokenInv, RequestsKnow, TokensKnow
<1>13. TokensKnow'
  <2>1. CASE \E c \in Request : CommitLogin(c) \/ CommitChange(c) \/ CommitPasskey(c)
    BY <2>1, <1>6, <1>8, <1>9 DEF TokenInv, RequestsKnow, TokensKnow
  <2>2. CASE \E d \in Device : Refresh(d) \/ SignOut(d)
    BY <2>2, <1>10, <1>11
  <2> QED
    BY <2>1, <2>2, <1>12, TokenMoves
<1> QED
  BY <1>3, <1>7, <1>13

-----------------------------------------------------------------------------
(* The marks of a temporary password and the second factor.                  *)

\* A confirmed second factor has a secret.
LEMMA SecretKept ==
    ASSUME TypeOK, totp.confirmed => totp.secret # 0, Next
    PROVE  totp'.confirmed => totp'.secret # 0
<1>1. ASSUME NEW c \in Request, CommitEnrol(c)
      PROVE  totp'.confirmed => totp'.secret # 0
  <2>1. slot[c].secret \in 1 .. MaxSecret
    BY <1>1, Carries DEF CommitEnrol, TypeOK
  <2>2. slot[c].secret # 0
    BY <2>1, Bounds
  <2> QED
    BY <1>1, <2>2 DEF CommitEnrol, TypeOK
<1>2. ASSUME NEW c \in Request, CommitConfirm(c) \/ CommitDisable(c)
      PROVE  totp'.confirmed => totp'.secret # 0
  BY <1>2 DEF CommitConfirm, CommitDisable, NoTotp, TypeOK
<1> QED
  BY <1>1, <1>2, FactorMoves

\* While requests do not meet, a request that ends was the only one.
LEMMA EndsAlone ==
    ASSUME TypeOK, Alone, calm, NEW c \in Request, Closes(c)
    PROVE  \A q \in Request : slot'[q] = Idle
BY DEF Closes, Close, Alone, Busy, TypeOK

LEMMA RowKept ==
    ASSUME TypeOK, MarksInv, calm, Next
    PROVE  MarksRight(user')
<1>1. /\ MarksRight(user)
      /\ \A c \in Request : slot[c].op \in {"temporary", "change", "reset"} => slot[c].read = user
  BY DEF MarksInv, MarksRight, CallsFit
<1>2. ASSUME NEW c \in Request, CommitTemporary(c)
      PROVE  MarksRight(user')
  <2>1. /\ slot[c].read = user
        /\ user' = [by |-> "parent",
                    temporary |-> IF slot[c].read.temporary THEN user.temporary ELSE TRUE,
                    until |-> now + TemporaryTTL]
    BY <1>1, <1>2 DEF CommitTemporary, Write
  <2>2. now + TemporaryTTL # None
    BY LaterTimes DEF TypeOK
  <2> QED
    BY <2>1, <2>2 DEF MarksRight
<1>3. ASSUME NEW c \in Request, CommitChange(c) \/ CommitReset(c)
      PROVE  MarksRight(user')
  <2>1. slot[c].read = user /\ user' = Written(slot[c].read)
    BY <1>1, <1>3 DEF CommitChange, CommitReset, Write
  <2> QED
    BY <2>1 DEF Written, MarksRight, TypeOK, Row
<1> QED
  BY <1>1, <1>2, <1>3, UserMoves

LEMMA CodeKept ==
    ASSUME TypeOK, MarksInv, calm, Next
    PROVE  totp'.confirmed => totp'.secret \in verified'
<1>1. /\ totp.confirmed => totp.secret \in verified
      /\ CallsFit /\ verified \subseteq verified'
  BY VerifiedGrows DEF MarksInv
<1>2. ASSUME NEW c \in Request, CommitEnrol(c)
      PROVE  ~totp'.confirmed
  <2>1. ~totp.confirmed
    BY <1>1, <1>2 DEF CommitEnrol, CallsFit
  <2> QED
    BY <1>2, <2>1 DEF CommitEnrol, TypeOK
<1>3. ASSUME NEW c \in Request, CommitConfirm(c)
      PROVE  totp'.confirmed => totp'.secret \in verified'
  <2>1. totp.secret \in verified
    BY <1>1, <1>3 DEF CommitConfirm, CallsFit
  <2> QED
    BY <1>1, <1>3, <2>1 DEF CommitConfirm, TypeOK
<1>4. ASSUME NEW c \in Request, CommitDisable(c)
      PROVE  ~totp'.confirmed
  BY <1>4 DEF CommitDisable, NoTotp
<1> QED
  BY <1>1, <1>2, <1>3, <1>4, FactorMoves

LEMMA CallsKept ==
    ASSUME TypeOK, Alone, MarksInv, calm', Next
    PROVE  CallsFit'
<1>1. calm
  BY RequestsMove DEF Opens, Opening, Open, Counts, Closes, Close, Rests
<1>2. CallsFit
  BY <1>1 DEF MarksInv, CallsFit
<1>3. ASSUME NEW c \in Request, NEW call \in Call, Opening(c, call)
      PROVE  CallsFit'
  BY <1>2, <1>3 DEF Opening, Open, Fresh, TypeOK, CallsFit, Idle
<1>4. ASSUME NEW c \in Request, Closes(c)
      PROVE  CallsFit'
  <2>1. \A q \in Request : slot'[q] = Idle
    BY <1>1, <1>4, EndsAlone
  <2> QED
    BY <2>1 DEF CallsFit, Idle
<1>5. ASSUME NEW c \in Request, Counts(c)
      PROVE  CallsFit'
  <2>1. \A q \in Request : slot'[q].op \in {"count", "idle"}
    BY <1>1, <1>5 DEF Counts, Alone, Busy, Idle, TypeOK
  <2> QED
    BY <2>1 DEF CallsFit
<1>6. ASSUME Rests, ~ \E c \in Request : Closes(c)
      PROVE  CallsFit'
  <2>1. UNCHANGED <<user, since, totp>>
    BY <1>6, UserMoves, FactorMoves, CommitsClose
  <2> QED
    BY <1>2, <1>6, <2>1, VerifiedGrows DEF Rests, CallsFit
<1> QED
  BY <1>3, <1>4, <1>5, <1>6, RequestsMove DEF Opens

LEMMA MarksKept ==
    ASSUME TypeOK, Alone, MarksInv, [Next]_vars
    PROVE  MarksInv'
<1>1. CASE UNCHANGED vars
  BY <1>1 DEF vars, credentials, MarksInv, MarksRight, CallsFit
<1>2. CASE Next
  <2>1. calm' => calm
    BY <1>2, RequestsMove DEF Opens, Opening, Open, Counts, Closes, Close, Rests
  <2>2. totp'.confirmed => totp'.secret # 0
    BY <1>2, SecretKept DEF MarksInv
  <2>3. calm' => /\ MarksRight(user')
                 /\ totp'.confirmed => totp'.secret \in verified'
                 /\ CallsFit'
    BY <1>2, <2>1, RowKept, CodeKept, CallsKept
  <2> QED
    BY <2>2, <2>3 DEF MarksInv
<1> QED
  BY <1>1, <1>2

-----------------------------------------------------------------------------
(* How many guesses two requests may make.                                   *)

\* The count begins anew at the next failure.
Lapsed == attempts.failures = 0 \/ now - attempts.from >= Window

\* How far the count has come, as the next failure will find it: all the way where there is
\* a lock, one before it where the lock is over.
Reached ==
    IF Lapsed THEN 0
    ELSE IF attempts.failures < MaxFailures THEN attempts.failures
    ELSE IF Locked THEN MaxFailures ELSE MaxFailures - 1

Guesses(c) == slot[c].op \in {"wrong", "count"}

\* From where a request counts one more: what it has read, or would read now.
Level(c) ==
    IF slot[c].op = "count"
    THEN IF slot[c].row.failures < MaxFailures THEN slot[c].row.failures - 1 ELSE MaxFailures - 1
    ELSE IF slot[c].op = "wrong" /\ Reached = MaxFailures THEN MaxFailures - 1
    ELSE Reached

Cost(c) == IF Guesses(c) THEN 2 ELSE 0

\* Twice the guesses that two requests may still make which count from a and from b: the one
\* that is ahead goes on up to the lock, the other takes the lock away and is one further.
Room(a, b) ==
    LET k == MaxFailures - (IF a <= b THEN a ELSE b)
        g == IF a <= b THEN b - a ELSE a - b
    IN k * (k + 3) - 2 * g

\* A count that was made is of this moment.
CountedNow(row) ==
    /\ row.failures >= 1 /\ now - row.from < Window
    /\ row.locked = IF OverLimit(row.failures) THEN now + LockTime ELSE 0

\* Guesses made and guesses left, twice.
Left(p, q) == 2 * wrong + Room(Level(p), Level(q)) - Cost(p) - Cost(q)

AllGuesses == MaxFailures * (MaxFailures + 3)

\* They are never more than at the start.
GuessInv ==
    /\ \A c \in Request : slot[c].op = "count" => CountedNow(slot[c].row)
    /\ \A p, q \in Request : p # q /\ Request = {p, q} => Left(p, q) <= AllGuesses

\* The arithmetic: what a saved count costs leaves no more room than before.
LEMMA RoomSame ==
    ASSUME NEW a \in 0 .. MaxFailures, NEW b \in 0 .. MaxFailures
    PROVE  /\ Room(a, b) \in Int /\ Room(a, b) = Room(b, a)
           /\ Room(a, b) <= MaxFailures * (MaxFailures + 3)
           /\ Room(a, b) >= 0
           /\ a < MaxFailures => Room(a, b) >= 2
           /\ a < MaxFailures /\ b < MaxFailures => Room(a, b) >= 4
<1>1. MaxFailures \in Nat
  BY SecurityAssumption
<1>2. ASSUME NEW k \in 0 .. MaxFailures
      PROVE  k * (k + 3) \in Int /\ k * (k + 3) <= MaxFailures * (MaxFailures + 3) /\ k * (k + 3) >= 3 * k
  BY <1>1
<1>3. ASSUME NEW k \in Int, k >= 1
      PROVE  k * (k + 3) >= 2 * k + 2
  BY <1>3
<1>4. CASE a <= b
  <2>1. Room(a, b) = (MaxFailures - a) * (MaxFailures - a + 3) - 2 * (b - a)
    BY <1>4 DEF Room
  <2>2. Room(b, a) = Room(a, b)
    BY <1>1, <1>4 DEF Room
  <2> QED
    BY <1>1, <1>2, <1>3, <1>4, <2>1, <2>2
<1>5. CASE ~(a <= b)
  <2>1. Room(a, b) = (MaxFailures - b) * (MaxFailures - b + 3) - 2 * (a - b)
    BY <1>5 DEF Room
  <2>2. Room(b, a) = Room(a, b)
    BY <1>1, <1>5 DEF Room
  <2> QED
    BY <1>1, <1>2, <1>3, <1>5, <2>1, <2>2
<1> QED
  BY <1>4, <1>5

\* The other request keeps what it has read.
LEMMA RoomAhead ==
    ASSUME NEW a \in 0 .. MaxFailures, NEW b \in 0 .. MaxFailures, a < MaxFailures
    PROVE  Room(a + 1, b) + 2 <= Room(a, b)
<1>1. MaxFailures \in Nat
  BY SecurityAssumption
<1>2. CASE a < b
  <2>1. /\ Room(a, b) = (MaxFailures - a) * (MaxFailures - a + 3) - 2 * (b - a)
        /\ Room(a + 1, b) = (MaxFailures - (a + 1)) * (MaxFailures - (a + 1) + 3) - 2 * (b - (a + 1))
    BY <1>2 DEF Room
  <2>2. (MaxFailures - a) * (MaxFailures - a + 3)
          = (MaxFailures - (a + 1)) * (MaxFailures - (a + 1) + 3) + 2 * (MaxFailures - a) + 2
    BY <1>1
  <2>3. MaxFailures - a >= 1
    BY <1>1
  <2> QED
    BY <1>1, <2>1, <2>2, <2>3
<1>3. CASE ~(a < b)
  <2>1. Room(a, b) = (MaxFailures - b) * (MaxFailures - b + 3) - 2 * (a - b)
    BY <1>1, <1>3 DEF Room
  <2>2. Room(a + 1, b) = (MaxFailures - b) * (MaxFailures - b + 3) - 2 * (a + 1 - b)
    BY <1>3 DEF Room
  <2> QED
    BY <1>1, <2>1, <2>2
<1> QED
  BY <1>2, <1>3

\* The other request has read nothing, and will find the count that was saved.
LEMMA RoomBoth ==
    ASSUME NEW a \in 0 .. MaxFailures, NEW b \in 0 .. MaxFailures, a < MaxFailures
    PROVE  Room(a + 1, a + 1) + 2 <= Room(a, b)
<1>1. MaxFailures \in Nat
  BY SecurityAssumption
<1>2. /\ Room(a + 1, a + 1) = (MaxFailures - (a + 1)) * (MaxFailures - (a + 1) + 3) - 2 * ((a + 1) - (a + 1))
  BY DEF Room
<1>3. (MaxFailures - a) * (MaxFailures - a + 3)
        = (MaxFailures - (a + 1)) * (MaxFailures - (a + 1) + 3) + 2 * (MaxFailures - a) + 2
  BY <1>1
<1>4. CASE a <= b
  <2>1. Room(a, b) = (MaxFailures - a) * (MaxFailures - a + 3) - 2 * (b - a)
    BY <1>4 DEF Room
  <2> QED
    BY <1>1, <1>2, <1>3, <2>1
<1>5. CASE ~(a <= b)
  <2>1. Room(a, b) = (MaxFailures - b) * (MaxFailures - b + 3) - 2 * (a - b)
    BY <1>5 DEF Room
  <2>2. PICK d \in Nat : a = b + d /\ d >= 1
    BY <1>5
  <2>3. PICK k \in Nat : k = MaxFailures - a /\ k >= 1
    BY <1>1
  <2>4. MaxFailures - b = k + d
    BY <1>1, <2>2, <2>3
  <2>5. (k + d) * (k + d + 3) = k * (k + 3) + d * (2 * k + d + 3)
    OBVIOUS
  <2>6. d * (2 * k + d + 3) >= d * 2
    BY <2>2
  <2>7. Room(a, b) >= k * (k + 3)
    BY <2>1, <2>2, <2>4, <2>5, <2>6
  <2>8. Room(a + 1, a + 1) = (k - 1) * ((k - 1) + 3)
    BY <1>1, <1>2, <2>3
  <2>9. k * (k + 3) = (k - 1) * ((k - 1) + 3) + 2 * k + 2
    OBVIOUS
  <2> QED
    BY <2>7, <2>8, <2>9, <2>3, RoomSame, <1>1
<1> QED
  BY <1>4, <1>5

\* The other request waits to read, where there is a lock now.
LEMMA RoomLast ==
    ASSUME NEW b \in 0 .. MaxFailures, b < MaxFailures
    PROVE  Room(MaxFailures, MaxFailures - 1) + 2 <= Room(MaxFailures - 1, b)
<1>1. MaxFailures \in Nat /\ MaxFailures >= 1
  BY SecurityAssumption
<1>2. Room(MaxFailures, MaxFailures - 1) = 2
  <2>1. MaxFailures - (MaxFailures - 1) = 1 /\ ~(MaxFailures <= MaxFailures - 1)
    BY <1>1
  <2>2. Room(MaxFailures, MaxFailures - 1)
          = (MaxFailures - (MaxFailures - 1)) * (MaxFailures - (MaxFailures - 1) + 3)
              - 2 * (MaxFailures - (MaxFailures - 1))
    BY <2>1 DEF Room
  <2> QED
    BY <2>1, <2>2
<1>3. MaxFailures - 1 \in 0 .. MaxFailures /\ MaxFailures - 1 < MaxFailures
  BY <1>1
<1>4. Room(MaxFailures - 1, b) >= 4
  BY <1>3, RoomSame
<1> QED
  BY <1>2, <1>4

LEMMA ThrottleNumbers ==
    ASSUME TypeOK
    PROVE  /\ MaxFailures \in Nat /\ MaxFailures >= 1 /\ Window \in Nat /\ Window >= 1
           /\ LockTime \in Nat /\ LockTime >= 1 /\ AllGuesses \in Int
           /\ now \in Nat /\ wrong \in Nat
           /\ attempts.failures \in Nat /\ attempts.from \in Nat /\ attempts.locked \in Nat
           /\ Reached \in 0 .. MaxFailures
           /\ \A c \in Request : slot[c].op = "count" =>
                 slot[c].row \in Counted /\ slot[c].row.failures \in Nat /\ slot[c].row.from \in Nat
<1>1. /\ MaxFailures \in Nat /\ MaxFailures >= 1 /\ Window \in Nat /\ Window >= 1
      /\ LockTime \in Nat /\ LockTime >= 1 /\ AllGuesses \in Int
  BY SecurityAssumption DEF AllGuesses
<1>2. now \in Nat /\ wrong \in Nat
  BY Bounds, TimesAreNumbers DEF TypeOK
<1>3. \A row \in Counted : row.failures \in Nat /\ row.from \in Nat /\ row.locked \in Nat
  BY Bounds, TimesAreNumbers, LaterIsNumbers DEF Counted
<1>4. attempts.failures \in Nat /\ attempts.from \in Nat /\ attempts.locked \in Nat
  BY <1>3 DEF TypeOK
<1>5. Reached \in 0 .. MaxFailures
  BY <1>1, <1>4 DEF Reached
<1>6. \A c \in Request : slot[c].op = "count" => slot[c].row \in Counted
  BY Carries DEF TypeOK
<1> QED
  BY <1>1, <1>2, <1>3, <1>4, <1>5, <1>6

LEMMA LevelsInRange ==
    ASSUME TypeOK, GuessInv, NEW c \in Request
    PROVE  /\ Level(c) \in 0 .. MaxFailures /\ Cost(c) \in {0, 2}
           /\ Guesses(c) => Level(c) < MaxFailures
<1>1. CASE slot[c].op = "count"
  <2>1. slot[c].row.failures \in Nat /\ slot[c].row.failures >= 1
    BY <1>1, ThrottleNumbers DEF GuessInv, CountedNow
  <2> QED
    BY <1>1, <2>1, ThrottleNumbers DEF Level, Cost
<1>2. CASE slot[c].op # "count"
  BY <1>2, ThrottleNumbers DEF Level, Cost, Guesses
<1> QED
  BY <1>1, <1>2

LEMMA LeftAdds ==
    ASSUME NEW w \in Int, NEW r \in Int, NEW x \in Int, NEW y \in Int, NEW all \in Int,
           NEW v \in Int, NEW s \in Int, NEW z \in Int,
           2 * w + r - x - y <= all
    PROVE  /\ v = w /\ s + 2 <= r /\ x = 2 /\ z = 0 => 2 * v + s - z - y <= all
           /\ v = w + 1 /\ s = r /\ x = 0 /\ z = 2 => 2 * v + s - z - y <= all
           /\ v = w /\ s = r /\ z = x => 2 * v + s - z - y <= all
           /\ 2 * v + s - z - y = 2 * v + s - y - z
OBVIOUS

\* What a step of c and of the other request comes to.
LEMMA StepOfOne ==
    ASSUME TypeOK, GuessInv, NEW c \in Request, NEW o \in Request, o # c, Request = {c, o},
           wrong' \in Int, NEW a \in 0 .. MaxFailures, NEW b \in 0 .. MaxFailures,
           Level(c)' = a, Level(o)' = b, Cost(o)' = Cost(o),
           \/ wrong' = wrong /\ Cost(c) = 2 /\ Cost(c)' = 0
              /\ Room(a, b) + 2 <= Room(Level(c), Level(o))
           \/ wrong' = wrong + 1 /\ Cost(c) = 0 /\ Cost(c)' = 2 /\ Room(a, b) = Room(Level(c), Level(o))
           \/ wrong' = wrong /\ Cost(c)' = Cost(c) /\ Room(a, b) = Room(Level(c), Level(o))
    PROVE  Left(c, o)' <= AllGuesses /\ Left(o, c)' <= AllGuesses
<1>1. /\ Level(c) \in 0 .. MaxFailures /\ Level(o) \in 0 .. MaxFailures
      /\ Cost(c) \in Int /\ Cost(o) \in Int
  BY LevelsInRange
<1>2. /\ Room(a, b) \in Int /\ Room(b, a) = Room(a, b) /\ Room(Level(c), Level(o)) \in Int
      /\ wrong \in Int /\ AllGuesses \in Int /\ Cost(c)' \in Int
  BY <1>1, RoomSame, ThrottleNumbers DEF Cost
<1>3. 2 * wrong + Room(Level(c), Level(o)) - Cost(c) - Cost(o) <= AllGuesses
  BY DEF GuessInv, Left
<1>4. /\ 2 * wrong' + Room(a, b) - Cost(c)' - Cost(o) <= AllGuesses
      /\ 2 * wrong' + Room(a, b) - Cost(c)' - Cost(o) = 2 * wrong' + Room(a, b) - Cost(o) - Cost(c)'
  BY <1>1, <1>2, <1>3, LeftAdds
<1>5. /\ Left(c, o)' = 2 * wrong' + Room(a, b) - Cost(c)' - Cost(o)
      /\ Left(o, c)' = 2 * wrong' + Room(b, a) - Cost(o) - Cost(c)'
  BY DEF Left
<1> QED
  BY <1>2, <1>4, <1>5

\* A step in which no attempt is let through, counted or forgotten.
ThrottleRests ==
    /\ UNCHANGED <<now, attempts, wrong>>
    /\ \A c \in Request : slot'[c] = slot[c] \/ {slot[c].op, slot'[c].op} \cap {"wrong", "count"} = {}

LEMMA ThrottleMoves ==
    ASSUME TypeOK, Next
    PROVE  \/ \E c \in Request : BeginWrong(c) \/ LoadAttempts(c) \/ SaveAttempts(c) \/ CommitLogin(c)
           \/ ThrottleRests
           \/ Tick
<1> USE DEF throttle
<1>1. ASSUME NEW c \in Request, NEW call, Open(c, call), call.op \notin {"wrong", "count"},
             UNCHANGED <<now, attempts, wrong>>
      PROVE  ThrottleRests
  <2>1. slot[c].op = "idle" /\ slot'[c] = call /\ \A q \in Request : q # c => slot'[q] = slot[q]
    BY <1>1 DEF Open, Idle, TypeOK
  <2> QED
    BY <1>1, <2>1 DEF ThrottleRests
<1>2. ASSUME NEW c \in Request, Close(c), slot[c].op \notin {"wrong", "count"},
             UNCHANGED <<now, attempts, wrong>>
      PROVE  ThrottleRests
  <2>1. slot'[c] = Idle /\ Idle.op = "idle" /\ \A q \in Request : q # c => slot'[q] = slot[q]
    BY <1>2 DEF Close, Idle, TypeOK
  <2> QED
    BY <1>2, <2>1 DEF ThrottleRests
<1>3. ASSUME NEW c \in Request,
             \/ BeginTemporary(c)
             \/ \E x \in Link : BeginReset(c, x)
             \/ \E d \in Device :
                  \/ BeginLogin(c, d) \/ BeginChange(c, d) \/ BeginEnrol(c, d)
                  \/ BeginConfirm(c, d) \/ BeginDisable(c, d) \/ BeginDelete(c, d)
                  \/ \E x \in Challenge, p \in Purpose : BeginPasskey(c, d, x, p)
      PROVE  ThrottleRests
  <2>1. ASSUME BeginTemporary(c)
        PROVE  ThrottleRests
    BY <1>1, <2>1 DEF BeginTemporary
  <2>2. ASSUME NEW x \in Link, BeginReset(c, x)
        PROVE  ThrottleRests
    BY <1>1, <2>2 DEF BeginReset
  <2>3. ASSUME NEW d \in Device, BeginLogin(c, d) \/ BeginChange(c, d) \/ BeginDelete(c, d)
        PROVE  ThrottleRests
    BY <1>1, <2>3 DEF BeginLogin, BeginChange, BeginDelete
  <2>4. ASSUME NEW d \in Device, BeginEnrol(c, d) \/ BeginConfirm(c, d) \/ BeginDisable(c, d)
        PROVE  ThrottleRests
    BY <1>1, <2>4 DEF BeginEnrol, BeginConfirm, BeginDisable
  <2>5. ASSUME NEW d \in Device, NEW x \in Challenge, NEW p \in Purpose, BeginPasskey(c, d, x, p)
        PROVE  ThrottleRests
    BY <1>1, <2>5 DEF BeginPasskey, Purpose
  <2> QED
    BY <1>3, <2>1, <2>2, <2>3, <2>4, <2>5
<1>4. ASSUME NEW c \in Request,
             \/ CommitTemporary(c) \/ CommitChange(c) \/ CommitReset(c) \/ CommitEnrol(c)
             \/ CommitConfirm(c) \/ CommitDisable(c) \/ CommitPasskey(c) \/ CommitDelete(c)
      PROVE  ThrottleRests
  <2>1. Close(c) /\ UNCHANGED <<now, attempts, wrong>>
    BY <1>4 DEF CommitTemporary, CommitChange, CommitReset, CommitEnrol, CommitConfirm, CommitDisable,
                CommitPasskey, CommitDelete
  <2>2. slot[c].op \notin {"wrong", "count"}
    BY <1>4 DEF CommitTemporary, CommitChange, CommitReset, CommitEnrol, CommitConfirm, CommitDisable,
                CommitPasskey, CommitDelete, Purpose
  <2> QED
    BY <1>2, <2>1, <2>2
<1>5. ASSUME UNCHANGED <<now, throttle, slot>>
      PROVE  ThrottleRests
  BY <1>5 DEF ThrottleRests
<1>6. ASSUME \/ \E d \in Device : Refresh(d) \/ SignOut(d)
             \/ \E x \in Link : RequestReset(x)
             \/ \E x \in Challenge, p \in Purpose : StartChallenge(x, p)
      PROVE  ThrottleRests
  BY <1>5, <1>6 DEF Refresh, SignOut, RequestReset, StartChallenge
<1> QED
  BY <1>3, <1>4, <1>6 DEF Next

LEMMA RestsKeepGuesses ==
    ASSUME TypeOK, GuessInv, ThrottleRests
    PROVE  GuessInv'
<1>1. now' = now /\ attempts' = attempts /\ wrong' = wrong /\ Reached' = Reached
  BY DEF ThrottleRests, Reached, Lapsed, Locked
<1>2. ASSUME NEW c \in Request
      PROVE  Level(c)' = Level(c) /\ Cost(c)' = Cost(c)
  BY <1>1 DEF ThrottleRests, Level, Cost, Guesses
<1>3. \A p, q \in Request : Left(p, q)' = Left(p, q)
  BY <1>1, <1>2 DEF Left
<1>4. \A c \in Request : slot'[c].op = "count" => CountedNow(slot[c].row)' /\ slot'[c] = slot[c]
  BY <1>1 DEF ThrottleRests, GuessInv, CountedNow
<1> QED
  BY <1>1, <1>3, <1>4 DEF GuessInv, CountedNow, AllGuesses

\* Who begins: there is no lock.
LEMMA WrongKeepsGuesses ==
    ASSUME TypeOK, GuessInv, NEW c \in Request, BeginWrong(c)
    PROVE  GuessInv'
<1>1. /\ now' = now /\ attempts' = attempts /\ wrong' = wrong + 1 /\ Reached' = Reached
      /\ slot[c].op = "idle" /\ slot'[c].op = "wrong"
      /\ \A q \in Request : q # c => slot'[q] = slot[q]
  BY DEF BeginWrong, Open, Idle, Reached, Lapsed, Locked, TypeOK
<1>2. Reached < MaxFailures
  BY ThrottleNumbers DEF BeginWrong, Reached
<1>3. Level(c)' = Level(c) /\ Cost(c) = 0 /\ Cost(c)' = 2
  BY <1>1, <1>2, ThrottleNumbers DEF Level, Cost, Guesses
<1>4. ASSUME NEW o \in Request, o # c
      PROVE  Level(o)' = Level(o) /\ Cost(o)' = Cost(o)
  BY <1>1, <1>4 DEF Level, Cost, Guesses
<1>5. ASSUME NEW o \in Request, o # c, Request = {c, o}
      PROVE  Left(c, o)' <= AllGuesses /\ Left(o, c)' <= AllGuesses
  <2>1. PICK a \in 0 .. MaxFailures, b \in 0 .. MaxFailures : Level(c) = a /\ Level(o) = b
    BY LevelsInRange
  <2>2. wrong' \in Int
    BY <1>1, ThrottleNumbers
  <2> QED
    BY <1>1, <1>3, <1>4, <1>5, <2>1, <2>2, StepOfOne
<1>6. \A q \in Request : slot'[q].op = "count" => slot'[q] = slot[q]
  BY <1>1
<1> QED
  BY <1>1, <1>5, <1>6 DEF GuessInv, CountedNow, AllGuesses

LEMMA LoadKeepsGuesses ==
    ASSUME TypeOK, GuessInv, NEW c \in Request, LoadAttempts(c)
    PROVE  GuessInv'
<1> DEFINE row == AfterFailure(attempts)
<1>1. /\ now' = now /\ attempts' = attempts /\ wrong' = wrong /\ Reached' = Reached
      /\ slot[c].op = "wrong" /\ slot'[c] = [op |-> "count", row |-> row]
      /\ \A q \in Request : q # c => slot'[q] = slot[q]
  BY DEF LoadAttempts, throttle, Reached, Lapsed, Locked, TypeOK
<1>2. row.failures = (IF Lapsed THEN 1 ELSE attempts.failures + 1) /\ CountedNow(row)
  BY ThrottleNumbers DEF AfterFailure, Lapsed, CountedNow
<1>3. Level(c)' = Level(c) /\ Cost(c)' = Cost(c)
  <2>1. Level(c) = IF Reached = MaxFailures THEN MaxFailures - 1 ELSE Reached
    BY <1>1 DEF Level
  <2>2. Level(c)' = IF row.failures < MaxFailures THEN row.failures - 1 ELSE MaxFailures - 1
    BY <1>1 DEF Level
  <2> QED
    BY <1>1, <1>2, <2>1, <2>2, ThrottleNumbers DEF Reached, Cost, Guesses
<1>4. ASSUME NEW o \in Request, o # c
      PROVE  Level(o)' = Level(o) /\ Cost(o)' = Cost(o)
  BY <1>1, <1>4 DEF Level, Cost, Guesses
<1>5. \A p, q \in Request : Left(p, q)' = Left(p, q)
  BY <1>1, <1>3, <1>4 DEF Left
<1>6. \A q \in Request : slot'[q].op = "count" => CountedNow(slot'[q].row)
  BY <1>1, <1>2 DEF GuessInv
<1> QED
  BY <1>1, <1>5, <1>6 DEF GuessInv, CountedNow, AllGuesses

\* A count that is saved is one more than it was read as, and takes the lock away that was set
\* by somebody else meanwhile.
LEMMA SaveKeepsGuesses ==
    ASSUME TypeOK, GuessInv, NEW c \in Request, SaveAttempts(c)
    PROVE  GuessInv'
<1> DEFINE row == slot[c].row
<1>1. /\ now' = now /\ attempts' = row /\ wrong' = wrong
      /\ slot[c].op = "count" /\ slot'[c].op = "idle"
      /\ \A q \in Request : q # c => slot'[q] = slot[q]
  BY DEF SaveAttempts, Close, Idle, TypeOK
<1>2. /\ row.failures \in Nat /\ row.failures >= 1 /\ now - row.from < Window
      /\ row.failures >= MaxFailures => row.locked = now + LockTime
      /\ MaxFailures \in Nat /\ MaxFailures >= 1 /\ now \in Nat /\ LockTime \in Nat /\ LockTime >= 1
      /\ row.from \in Nat /\ Window \in Nat /\ wrong \in Nat
  BY <1>1, ThrottleNumbers DEF GuessInv, CountedNow, OverLimit
<1>3. Reached' = IF row.failures < MaxFailures THEN row.failures ELSE MaxFailures
  <2>1. Lapsed' = FALSE
    BY <1>1, <1>2 DEF Lapsed
  <2>2. row.failures >= MaxFailures => Locked' = TRUE
    BY <1>1, <1>2 DEF Locked
  <2> QED
    BY <1>1, <1>2, <2>1, <2>2 DEF Reached
<1>4. PICK a \in 0 .. MaxFailures : Level(c) = a /\ a < MaxFailures /\ Reached' = a + 1
  <2>1. Level(c) = IF row.failures < MaxFailures THEN row.failures - 1 ELSE MaxFailures - 1
    BY <1>1 DEF Level
  <2> QED
    BY <1>2, <1>3, <2>1
<1>5. a + 1 \in 0 .. MaxFailures /\ Level(c)' = a + 1 /\ Cost(c) = 2 /\ Cost(c)' = 0
  BY <1>1, <1>2, <1>4 DEF Level, Cost, Guesses
<1>6. ASSUME NEW o \in Request, o # c, Request = {c, o}
      PROVE  Left(c, o)' <= AllGuesses /\ Left(o, c)' <= AllGuesses
  <2>1. PICK b \in 0 .. MaxFailures : Level(o) = b /\ (Guesses(o) => b < MaxFailures)
    BY LevelsInRange
  <2>2. Cost(o)' = Cost(o)
    BY <1>1, <1>6 DEF Cost, Guesses
  <2>3. \E d \in 0 .. MaxFailures : Level(o)' = d /\ Room(a + 1, d) + 2 <= Room(a, b)
    <3>1. CASE slot[o].op = "count"
      <4>1. Level(o)' = b
        BY <1>1, <1>6, <2>1, <3>1 DEF Level
      <4> QED
        BY <1>4, <4>1, RoomAhead
    <3>2. CASE slot[o].op = "wrong" /\ a + 1 = MaxFailures
      <4>1. Level(o)' = MaxFailures - 1 /\ MaxFailures - 1 \in 0 .. MaxFailures /\ a = MaxFailures - 1
        BY <1>1, <1>2, <1>4, <1>6, <3>2 DEF Level
      <4>2. b < MaxFailures
        BY <2>1, <3>2 DEF Guesses
      <4> QED
        BY <3>2, <4>1, <4>2, RoomLast
    <3>3. CASE slot[o].op # "count" /\ ~(slot[o].op = "wrong" /\ a + 1 = MaxFailures)
      <4>1. Level(o)' = a + 1
        BY <1>1, <1>4, <1>6, <3>3 DEF Level
      <4> QED
        BY <1>4, <1>5, <4>1, RoomBoth
    <3> QED
      BY <3>1, <3>2, <3>3
  <2>4. PICK d \in 0 .. MaxFailures : Level(o)' = d /\ Room(a + 1, d) + 2 <= Room(a, b)
    BY <2>3
  <2>5. wrong' \in Int
    BY <1>1, <1>2
  <2> QED
    BY <1>1, <1>4, <1>5, <1>6, <2>1, <2>2, <2>4, <2>5, StepOfOne
<1>7. \A q \in Request : slot'[q].op = "count" => slot'[q] = slot[q]
  BY <1>1
<1> QED
  BY <1>1, <1>6, <1>7 DEF GuessInv, CountedNow, AllGuesses

\* Nothing has been guessed: there is no more room than at the start.
LEMMA FromTheStart ==
    ASSUME NEW a \in 0 .. MaxFailures, NEW b \in 0 .. MaxFailures, NEW x \in {0, 2}, NEW y \in {0, 2}
    PROVE  2 * 0 + Room(a, b) - x - y <= AllGuesses
<1>1. Room(a, b) \in Int /\ Room(a, b) <= AllGuesses /\ AllGuesses \in Int
  BY RoomSame, SecurityAssumption DEF AllGuesses
<1> QED
  BY <1>1

LEMMA LoginKeepsGuesses ==
    ASSUME TypeOK, GuessInv, NEW c \in Request, CommitLogin(c)
    PROVE  GuessInv'
<1>1. /\ now' = now /\ attempts' = NoAttempts /\ wrong' = 0 /\ slot'[c].op = "idle"
      /\ \A q \in Request : q # c => slot'[q] = slot[q]
  BY DEF CommitLogin, Close, Idle, TypeOK
<1>2. Reached' = 0
  BY <1>1 DEF Reached, Lapsed, NoAttempts
<1>3. ASSUME NEW q \in Request
      PROVE  Level(q)' \in 0 .. MaxFailures /\ Cost(q)' \in {0, 2}
  <2>1. CASE slot'[q].op = "count"
    <3>1. slot'[q] = slot[q] /\ Level(q)' = Level(q)
      BY <1>1, <2>1 DEF Level
    <3> QED
      BY <3>1, LevelsInRange DEF Cost, Guesses
  <2>2. CASE slot'[q].op # "count"
    <3>1. Level(q)' = 0
      BY <1>2, <2>2, ThrottleNumbers DEF Level
    <3> QED
      BY <3>1, ThrottleNumbers DEF Cost, Guesses
  <2> QED
    BY <2>1, <2>2
<1>4. \A p, q \in Request : Left(p, q)' <= AllGuesses
  BY <1>1, <1>3, FromTheStart DEF Left
<1>5. \A q \in Request : slot'[q].op = "count" => slot'[q] = slot[q]
  BY <1>1
<1> QED
  BY <1>1, <1>4, <1>5 DEF GuessInv, CountedNow, AllGuesses

LEMMA TickKeepsGuesses ==
    ASSUME TypeOK, GuessInv, Tick
    PROVE  GuessInv'
<1>1. /\ now' = now + 1 /\ attempts' = attempts /\ wrong' = 0
      /\ \A q \in Request : slot'[q].op = "idle"
  BY DEF Tick, Idle
<1>2. Reached' \in 0 .. MaxFailures
  BY <1>1, ThrottleNumbers DEF Reached
<1>3. \A q \in Request : Level(q)' \in 0 .. MaxFailures /\ Cost(q)' \in {0, 2}
  BY <1>1, <1>2 DEF Level, Cost, Guesses
<1>4. \A p, q \in Request : Left(p, q)' <= AllGuesses
  BY <1>1, <1>3, FromTheStart DEF Left
<1> QED
  BY <1>1, <1>4 DEF GuessInv, AllGuesses

LEMMA GuessesKept ==
    ASSUME TypeOK, GuessInv, [Next]_vars
    PROVE  GuessInv'
<1>1. CASE UNCHANGED vars
  <2>1. ThrottleRests
    BY <1>1 DEF vars, throttle, ThrottleRests
  <2> QED
    BY <2>1, RestsKeepGuesses
<1>2. CASE Next
  BY <1>2, ThrottleMoves, RestsKeepGuesses, WrongKeepsGuesses, LoadKeepsGuesses, SaveKeepsGuesses,
     LoginKeepsGuesses, TickKeepsGuesses
<1> QED
  BY <1>1, <1>2

LEMMA NothingGuessed ==
    ASSUME Init
    PROVE  GuessInv
<1>1. MaxFailures \in Nat
  BY SecurityAssumption
<1>2. Reached = 0 /\ \A c \in Request : slot[c].op = "idle"
  BY DEF Init, NoAttempts, Idle, Reached, Lapsed
<1>3. \A c \in Request : Level(c) \in 0 .. MaxFailures /\ Cost(c) \in {0, 2}
  BY <1>1, <1>2 DEF Level, Cost, Guesses
<1>4. \A p, q \in Request : Left(p, q) <= AllGuesses
  BY <1>3, FromTheStart DEF Left, Init
<1> QED
  BY <1>2, <1>4 DEF GuessInv

LEMMA TwoRequests ==
    ASSUME Cardinality(Request) = 2
    PROVE  \E p, q \in Request : p # q /\ Request = {p, q}
<1>1. IsFiniteSet(Request)
  BY SecurityAssumption
<1>2. Request # {}
  BY <1>1, FS_EmptySet
<1>3. PICK p \in Request : TRUE
  BY <1>2
<1>4. IsFiniteSet(Request \ {p}) /\ Cardinality(Request \ {p}) = 1
  BY <1>1, FS_RemoveElement
<1>5. PICK q : Request \ {p} = {q}
  BY <1>4, FS_Singleton
<1> QED
  BY <1>3, <1>5

\* A request that is counted stands below the lock, and there is room enough for it.
LEMMA RoomForWhoGuesses ==
    ASSUME TypeOK, GuessInv, NEW p \in Request, NEW q \in Request, p # q, Request = {p, q}
    PROVE  2 * wrong <= MaxFailures * (MaxFailures + 3)
<1>1. PICK a \in 0 .. MaxFailures, b \in 0 .. MaxFailures :
        /\ Level(p) = a /\ Level(q) = b
        /\ Guesses(p) => a < MaxFailures
        /\ Guesses(q) => b < MaxFailures
  BY LevelsInRange
<1>2. 2 * wrong + Room(a, b) - Cost(p) - Cost(q) <= AllGuesses
  BY <1>1 DEF GuessInv, Left
<1>3. /\ Room(a, b) \in Int /\ Room(b, a) = Room(a, b) /\ Room(a, b) >= 0
      /\ a < MaxFailures \/ b < MaxFailures => Room(a, b) >= 2
      /\ a < MaxFailures /\ b < MaxFailures => Room(a, b) >= 4
  BY RoomSame
<1>4. Room(a, b) >= Cost(p) + Cost(q) /\ Cost(p) \in Int /\ Cost(q) \in Int
  BY <1>1, <1>3 DEF Cost
<1>5. wrong \in Nat /\ AllGuesses \in Int
  BY ThrottleNumbers
<1> QED
  BY <1>2, <1>3, <1>4, <1>5 DEF AllGuesses

-----------------------------------------------------------------------------
(* The theorems.                                                             *)

LEMMA InitHolds ==
    ASSUME Init
    PROVE  IInv
<1>1. TypeOK
  BY InitTypes
<1>2. now \in Nat /\ TokenLife \in Nat /\ 0 <= now /\ 0 <= now + TokenLife
  BY Bounds DEF Init
<1>3. Alone /\ ChallengeInv /\ LinkInv /\ MarksInv
  BY DEF Init, Alone, ChallengeInv, LinkInv, MarksInv, MarksRight, CallsFit, Busy, Idle, NoChallenge,
         NoLink, NoTotp
<1>4. TokenInv
  BY <1>2 DEF Init, TokenInv, TokensKnow, RequestsKnow, NoToken, Idle
<1> QED
  BY <1>1, <1>3, <1>4 DEF IInv

LEMMA StepHolds ==
    ASSUME IInv, [Next]_vars
    PROVE  IInv'
BY TypesKept, AloneKept, ChallengeKept, LinkKept, TokenKept, MarksKept DEF IInv

LEMMA AccountInvariant == Spec => []IInv
<1>1. Init => IInv
  BY InitHolds
<1>2. IInv /\ [Next]_vars => IInv'
  BY StepHolds
<1> QED
  BY <1>1, <1>2, PTL DEF Spec

\* A challenge gives one session or one passkey however often its answer is sent (consume_challenge
\* deletes the row), and while requests do not meet a reset link sets one password.
THEOREM UsedOnlyOnce == Spec => []UsedOnce
<1>1. IInv => UsedOnce
  BY DEF IInv, ChallengeInv, LinkInv, UsedOnce
<1> QED
  BY <1>1, AccountInvariant, PTL

\* A token that does not say that the password is temporary is over before TokenLife has passed
\* since the password became so (get_current_principal, refresh_access_token).
THEOREM TemporaryAlwaysReaches == Spec => []TemporaryReaches
<1>1. ASSUME IInv
      PROVE  TemporaryReaches
  <2>1. TypeOK /\ TokenInv
    BY <1>1 DEF IInv
  <2>2. ASSUME NEW d \in Device, user.temporary, now < token[d].until, ~token[d].temporary
        PROVE  now - since < TokenLife
    <3>1. token[d].until <= since + TokenLife
      BY <2>1, <2>2 DEF TokenInv, TokensKnow, RequestsKnow
    <3> QED
      BY <2>1, <2>2, <3>1, Ages, EndTells
  <2> QED
    BY <2>2 DEF TemporaryReaches, HasToken
<1> QED
  BY <1>1, AccountInvariant, PTL

\* While requests do not meet, the marks of a temporary password are there exactly while it is one,
\* and a second factor that is asked for is one whose code was shown (reset_member_password,
\* change_password, confirm_totp).
THEOREM NobodyEverShutOut == Spec => []NobodyIsShutOut
<1>1. IInv => NobodyIsShutOut
  <2>1. ASSUME IInv, ~calm
        PROVE  NobodyIsShutOut
    BY <2>1 DEF NobodyIsShutOut
  <2>2. ASSUME IInv, calm
        PROVE  NobodyIsShutOut
    BY <2>2 DEF IInv, MarksInv, MarksRight, NobodyIsShutOut
  <2> QED
    BY <2>1, <2>2
<1> QED
  BY <1>1, AccountInvariant, PTL

\* Two requests that are served at once let at most MaxFailures * (MaxFailures + 3) / 2 wrong
\* attempts through between two ticks, although a count that is saved late takes away a lock
\* that was set meanwhile (ThrottleLogin.record_attempt).
THEOREM GuessesStayBounded == Spec => []GuessesBounded
<1>1. Init => TypeOK /\ GuessInv
  BY InitTypes, NothingGuessed
<1>2. TypeOK /\ GuessInv /\ [Next]_vars => (TypeOK /\ GuessInv)'
  BY TypesKept, GuessesKept
<1>3. TypeOK /\ GuessInv => GuessesBounded
  BY TwoRequests, RoomForWhoGuesses DEF GuessesBounded
<1> QED
  BY <1>1, <1>2, <1>3, PTL DEF Spec
=============================================================================
