-------------------------- MODULE IdentityFederation --------------------------
(***************************************************************************)
(* Sign-in through an identity provider (bounded_contexts/                 *)
(* identity_federation, with the tokens of token_service.py).  A browser   *)
(* leaves on a round trip whose row is kept in the database and whose      *)
(* binding is kept in a cookie.  It comes back with a code, the callback   *)
(* consumes the row and finds, links or creates the account, and hands out *)
(* a ticket that is exchanged once for an access token.  An account may be *)
(* linked and unlinked by its owner, and every worker asks the provider    *)
(* from time to time who is still there.                                   *)
(*                                                                         *)
(* A request is a Begin, which reads a snapshot and decides, and a Commit, *)
(* which writes to the tables as they are by then.                         *)
(***************************************************************************)
EXTENDS Integers, FiniteSets

CONSTANTS
    Subject,    \* identities at the provider
    User,       \* accounts
    Home,       \* for each subject, the account that has its address or its name
    Adopted,    \* subjects with a verified address, where the settings link by address
    Local,      \* accounts with a password
    Browser, Trip, Request, Worker,
    None,
    TripTTL, TicketTTL, TokenLife,
    MaxTime,    \* end of the calendar
    MaxTurns    \* bound on what people, administrators and the provider do beside signing in

ASSUME FederationAssumption ==
    /\ Home \in [Subject -> User] /\ Adopted \subseteq Subject /\ Local \subseteq User
    /\ None \notin Subject \cup User \cup Trip \cup Browser
    /\ TripTTL \in Nat /\ TicketTTL \in Nat /\ TokenLife \in Nat
    /\ MaxTime \in Nat /\ MaxTurns \in Nat

VARIABLES
    now,
    account,     \* users: whether each exists, is active, has a passkey
    identity,    \* federated_identities: the account each subject is linked to
    lastLogin,   \* its last_login_at
    records,     \* federated_session_revocations that rounds have written
    trip,        \* sso_login_sessions, and what the browser knows of its trips
    ticket,      \* sso_login_tickets, by the trip that they come from
    cookie,      \* "sso_binding" of each browser
    token,       \* the access token of each browser
    answer,      \* what the provider has sent back for a trip
    idp,         \* who is signed in at the provider in each browser
    roster,      \* what the provider says of each subject
    stopped,     \* history: since when it says so
    slot,        \* requests being served
    round,      \* rounds of reconciliation
    turns,       \* how much of that there has been
    sessions,    \* history: tokens handed out for each trip
    was,         \* history: every link there has been
    excused      \* history: accounts that may be left without an entrance

links == <<identity, lastLogin, was>>
tables == <<account, links, records, trip, ticket>>
browsers == <<cookie, token, answer, idp>>
provider == <<roster, stopped>>
history == <<sessions, excused>>
vars == <<now, tables, browsers, provider, slot, round, turns, history>>

Time == 0 .. MaxTime
Later == 0 .. MaxTime + TripTTL + TicketTTL + TokenLife
Kind == {"login", "renewal", "link"}
Account == [exists : BOOLEAN, active : BOOLEAN, passkey : BOOLEAN]

NoTrip == [at |-> "new", kind |-> "login", browser |-> None, user |-> None, until |-> 0]
NoToken == [user |-> None, subject |-> None, until |-> 0]
Idle == [op |-> "idle", trip |-> None, subject |-> None, user |-> None, browser |-> None]
Resting == [at |-> "idle", asked |-> {}, known |-> {}, new |-> {}, drop |-> {}]

Callbacks == {"burn", "refuse", "enter", "adopt", "create", "link"}
Ops == Callbacks \cup {"idle", "exchange", "unlink"}

TripRow == [at : {"new", "out", "used"}, kind : Kind, browser : Browser \cup {None},
            user : User \cup {None}, until : Later]
Token == [user : User \cup {None}, subject : Subject \cup {None}, until : Later]
Call == [op : Ops, trip : Trip \cup {None}, subject : Subject \cup {None},
         user : User \cup {None}, browser : Browser \cup {None}]
Record == Subject \X Time
Stage == [at : {"idle", "asking", "writing"}, asked : SUBSET Record, known : SUBSET Record,
          new : SUBSET Record, drop : SUBSET Subject]

TypeOK ==
    /\ now \in Time /\ turns \in 0 .. MaxTurns
    /\ account \in [User -> Account]
    /\ identity \in [Subject -> User \cup {None}] /\ lastLogin \in [Subject -> Time]
    /\ records \subseteq Record
    /\ trip \in [Trip -> TripRow] /\ ticket \in [Trip -> Token]
    /\ answer \in [Trip -> Subject \cup {None}] /\ sessions \in [Trip -> Nat]
    /\ cookie \in [Browser -> Trip \cup {None}] /\ token \in [Browser -> Token]
    /\ idp \in [Browser -> Subject \cup {None}]
    /\ roster \in [Subject -> {"allowed", "blocked", "unknown"}]
    /\ stopped \in [Subject -> Time]
    /\ slot \in [Request -> Call] /\ round \in [Worker -> Stage]
    /\ was \subseteq Subject \X User /\ excused \subseteq User

Init ==
    /\ now = 0 /\ turns = 0
    /\ \E keys \in SUBSET Local, old \in SUBSET Subject :
         /\ account = [u \in User |-> [exists |-> u \in Local \cup {Home[s] : s \in old},
                                     active |-> TRUE, passkey |-> u \in keys]]
         /\ identity = [s \in Subject |-> IF s \in old THEN Home[s] ELSE None]
         /\ was = {<<s, Home[s]>> : s \in old}
    /\ lastLogin = [s \in Subject |-> 0]
    /\ records = {} /\ excused = {}
    /\ trip = [t \in Trip |-> NoTrip] /\ ticket = [t \in Trip |-> NoToken]
    /\ answer = [t \in Trip |-> None] /\ sessions = [t \in Trip |-> 0]
    /\ cookie = [b \in Browser |-> None] /\ token = [b \in Browser |-> NoToken]
    /\ idp \in [Browser -> Subject \cup {None}]
    /\ roster = [s \in Subject |-> "allowed"] /\ stopped = [s \in Subject |-> 0]
    /\ slot = [c \in Request |-> Idle] /\ round = [w \in Worker |-> Resting]

-----------------------------------------------------------------------------
(* Reading.                                                                *)

Turn == turns < MaxTurns /\ turns' = turns + 1

Linked == {s \in Subject : identity[s] # None}
LinksOf(u) == {s \in Subject : identity[s] = u}

\* Mutant: a ticket works until it is used.
TicketOverMutant(t) == FALSE

TicketOver(t) == now >= ticket[t].until

\* The person a browser is signed in as.
Viewer(b) == IF now < token[b].until THEN token[b].user ELSE None

\* The person a renewal continues: the token may have expired, and it is one of this module.
Continued(b) == IF token[b].subject # None THEN token[b].user ELSE None

CanEnter(u) == account[u].exists /\ account[u].active

\* Mutant: an account may always be unlinked.
HasOtherEntranceMutant(u) == TRUE

HasOtherEntrance(u) == u \in Local \/ account[u].passkey

-----------------------------------------------------------------------------
(* Round trips.                                                            *)

\* start_login, start_renewal and start_link.
Start(b, t, kind) ==
    /\ trip[t].at = "new"
    /\ kind = "link" => Viewer(b) # None
    /\ trip' = [trip EXCEPT ![t] =
                  [at |-> "out", kind |-> kind, browser |-> b,
                   user |-> IF kind = "link" THEN Viewer(b) ELSE None,
                   until |-> now + TripTTL]]
    /\ cookie' = [cookie EXCEPT ![b] = t]
    /\ UNCHANGED <<now, account, links, records, ticket, token, answer, idp, provider, slot,
                   round, turns, history>>

\* The provider sends the browser back with a code, for those it lets in.
ProviderAnswers(t) ==
    /\ trip[t].at # "new" /\ answer[t] = None
    /\ LET s == idp[trip[t].browser] IN
         /\ s # None /\ roster[s] = "allowed"
         /\ answer' = [answer EXCEPT ![t] = s]
    /\ UNCHANGED <<now, tables, cookie, token, idp, provider, slot, round, turns, history>>

\* It sends it back without one, or too late, or to somebody who has signed out: the row
\* stays until it expires, the cookie goes.
Declined(t) ==
    LET b == trip[t].browser IN
    /\ Turn
    /\ trip[t].at # "new"
    /\ \/ answer[t] = None
       \/ trip[t].at = "used" \/ now >= trip[t].until
       \/ trip[t].kind = "link" /\ Viewer(b) = None
    /\ cookie' = [cookie EXCEPT ![b] = None]
    /\ UNCHANGED <<now, tables, token, answer, idp, provider, slot, round, history>>

\* What the callback makes of the answer, and for which account.
LinkDecision(t, s, u) ==
    IF \/ u # trip[t].user
       \/ identity[s] \notin {None, u}
       \/ LinksOf(u) \notin {{}, {s}}
    THEN [do |-> "burn", user |-> None]
    ELSE [do |-> "link", user |-> u]

LoginDecision(s) ==
    IF identity[s] # None
    THEN [do |-> IF CanEnter(identity[s]) THEN "enter" ELSE "refuse", user |-> identity[s]]
    ELSE IF account[Home[s]].exists
    THEN IF s \in Adopted /\ CanEnter(Home[s]) THEN [do |-> "adopt", user |-> Home[s]]
                                               ELSE [do |-> "burn", user |-> None]
    ELSE [do |-> "create", user |-> Home[s]]

Decision(t, b, s) ==
    IF cookie[b] # t THEN [do |-> "burn", user |-> None]
    ELSE IF trip[t].kind = "link" THEN LinkDecision(t, s, Viewer(b))
    ELSE LoginDecision(s)

\* The browser may come back twice (two tabs, a reload of the address).
BeginCallback(c, t) ==
    /\ slot[c] = Idle /\ answer[t] # None
    /\ trip[t].at = "out" /\ now < trip[t].until
    /\ LET b == trip[t].browser
           d == Decision(t, b, answer[t])
       IN /\ trip[t].kind = "link" => Viewer(b) # None
          /\ slot' = [slot EXCEPT ![c] =
                       [op |-> d.do, trip |-> t, subject |-> answer[t], user |-> d.user, browser |-> b]]
    /\ UNCHANGED <<now, tables, browsers, provider, round, turns, history>>

\* Mutant: the row is read, not deleted.
ConsumedMutant(t) == trip[t].at # "new" /\ UNCHANGED trip

\* consume: the one whose DELETE removes the row goes on.
Consumed(t) == trip[t].at = "out" /\ trip' = [trip EXCEPT ![t].at = "used"]

\* The cookie is dropped with every answer that is not an error 500.
Answer(c) ==
    /\ slot' = [slot EXCEPT ![c] = Idle]
    /\ cookie' = [cookie EXCEPT ![slot[c].browser] = None]

Issue(t, u, s) == ticket' = [ticket EXCEPT ![t] = [user |-> u, subject |-> s, until |-> now + TicketTTL]]

\* Mutant: the link is not saved.
InsertMutant(s, u) == UNCHANGED <<identity, lastLogin, was>>

Insert(s, u) ==
    /\ identity' = [identity EXCEPT ![s] = u]
    /\ lastLogin' = [lastLogin EXCEPT ![s] = now]
    /\ was' = was \cup {<<s, u>>}

\* A known subject enters: its row is touched.
Enter(c) ==
    LET s == slot[c].subject  u == slot[c].user  t == slot[c].trip IN
    /\ slot[c].op = "enter" /\ identity[s] # None /\ account[u].exists
    /\ Consumed(t) /\ Issue(t, u, s)
    /\ lastLogin' = [lastLogin EXCEPT ![s] = now]
    /\ Answer(c)
    /\ UNCHANGED <<account, identity, was>>

\* A new one is linked to the account with its address, or gets one of its own.
Welcome(c) ==
    LET s == slot[c].subject  u == slot[c].user  t == slot[c].trip IN
    /\ slot[c].op \in {"adopt", "create"} /\ identity[s] = None
    /\ account[u].exists <=> slot[c].op = "adopt"
    /\ Consumed(t) /\ Issue(t, u, s) /\ Insert(s, u)
    /\ account' = IF slot[c].op = "adopt" THEN account
                  ELSE [account EXCEPT ![u] = [exists |-> TRUE, active |-> TRUE, passkey |-> FALSE]]
    /\ Answer(c)

Link(c) ==
    LET s == slot[c].subject  u == slot[c].user IN
    /\ slot[c].op = "link" /\ identity[s] = None /\ account[u].exists
    /\ Consumed(slot[c].trip) /\ Insert(s, u)
    /\ Answer(c)
    /\ UNCHANGED <<account, ticket>>

\* Known, but not active: the row was touched before that was found, and the answer that
\* tells of it is a regular one, so that this is committed.
Refuse(c) ==
    LET s == slot[c].subject IN
    /\ slot[c].op = "refuse" /\ identity[s] # None
    /\ Consumed(slot[c].trip) /\ Answer(c)
    /\ lastLogin' = [lastLogin EXCEPT ![s] = now]
    /\ UNCHANGED <<account, identity, was, ticket>>

\* Refused, by this callback, by the provider, or because the name was taken meanwhile.
Burn(c) ==
    /\ slot[c].op \in Callbacks
    /\ Consumed(slot[c].trip) /\ Answer(c)
    /\ UNCHANGED <<account, links, ticket>>

\* Another request has used the trip.
Late(c) ==
    /\ slot[c].op \in Callbacks /\ trip[slot[c].trip].at # "out"
    /\ Answer(c)
    /\ UNCHANGED <<account, links, trip, ticket>>

\* A row to write to is gone, or there is one already: everything is rolled back, and the
\* error 500 leaves the cookie.
Spoilt(c) ==
    LET s == slot[c].subject  u == slot[c].user IN
    /\ slot[c].op \in Callbacks /\ trip[slot[c].trip].at = "out"
    /\ \/ slot[c].op = "enter" /\ (identity[s] = None \/ ~account[u].exists)
       \/ slot[c].op = "refuse" /\ identity[s] = None
       \/ slot[c].op \in {"adopt", "link"} /\ (identity[s] # None \/ ~account[u].exists)
       \/ slot[c].op = "create" /\ identity[s] # None /\ ~account[u].exists
    /\ slot' = [slot EXCEPT ![c] = Idle]
    /\ UNCHANGED <<account, links, trip, ticket, cookie>>

CommitCallback(c) ==
    /\ \/ Enter(c) \/ Welcome(c) \/ Link(c) \/ Refuse(c)
       \/ Burn(c) \/ Late(c) \/ Spoilt(c)
    /\ UNCHANGED <<now, records, token, answer, idp, provider, round, turns, history>>

-----------------------------------------------------------------------------
(* Tickets.                                                                *)

\* The page that a login comes back to, or the one that waits for a frame.
BeginExchange(c, t) ==
    LET b == trip[t].browser  u == ticket[t].user IN
    /\ slot[c] = Idle /\ u # None
    /\ CanEnter(u)
    /\ trip[t].kind = "renewal" => Continued(b) \in {None, u}
    /\ slot' = [slot EXCEPT ![c] =
                 [op |-> "exchange", trip |-> t, subject |-> ticket[t].subject, user |-> u, browser |-> b]]
    /\ UNCHANGED <<now, tables, browsers, provider, round, turns, history>>

CommitExchange(c) ==
    LET t == slot[c].trip  b == slot[c].browser IN
    /\ slot[c].op = "exchange"
    /\ slot' = [slot EXCEPT ![c] = Idle]
    /\ IF ticket[t].user # None /\ ~TicketOver(t)
       THEN /\ ticket' = [ticket EXCEPT ![t] = NoToken]
            /\ token' = [token EXCEPT ![b] =
                          [user |-> slot[c].user, subject |-> slot[c].subject, until |-> now + TokenLife]]
            /\ sessions' = [sessions EXCEPT ![t] = @ + 1]
       ELSE UNCHANGED <<ticket, token, sessions>>
    /\ UNCHANGED <<now, account, links, records, trip, cookie, answer, idp, provider, round, turns,
                   excused>>

-----------------------------------------------------------------------------
(* Accounts.                                                               *)

\* With the password or the passkey of an account.
SignIn(b, u) ==
    /\ CanEnter(u) /\ HasOtherEntrance(u) /\ Viewer(b) = None
    /\ token' = [token EXCEPT ![b] = [user |-> u, subject |-> None, until |-> now + TokenLife]]
    /\ UNCHANGED <<now, tables, cookie, answer, idp, provider, slot, round, turns, history>>

SignOut(b) ==
    /\ Turn
    /\ Viewer(b) # None
    /\ token' = [token EXCEPT ![b] = NoToken]
    /\ UNCHANGED <<now, tables, cookie, answer, idp, provider, slot, round, history>>

BeginUnlink(c, b) ==
    LET u == Viewer(b) IN
    /\ slot[c] = Idle /\ u # None /\ HasOtherEntrance(u)
    /\ \E s \in LinksOf(u) :
         slot' = [slot EXCEPT ![c] =
                   [op |-> "unlink", trip |-> None, subject |-> s, user |-> u, browser |-> b]]
    /\ UNCHANGED <<now, tables, browsers, provider, round, turns, history>>

\* The row goes by the identity at the provider, whoever it belongs to by now.
CommitUnlink(c) ==
    LET s == slot[c].subject IN
    /\ slot[c].op = "unlink"
    /\ slot' = [slot EXCEPT ![c] = Idle]
    /\ identity' = [identity EXCEPT ![s] = None]
    /\ excused' = excused \cup ({identity[s]} \ {None, slot[c].user})
    /\ UNCHANGED <<now, account, lastLogin, was, records, trip, ticket, browsers, provider, round,
                   turns, sessions>>

DeletePasskey(b) ==
    LET u == Viewer(b) IN
    /\ Turn
    /\ u # None /\ CanEnter(u) /\ account[u].passkey
    /\ account' = [account EXCEPT ![u].passkey = FALSE]
    /\ excused' = excused \cup {u}
    /\ UNCHANGED <<now, links, records, trip, ticket, browsers, provider, slot, round, sessions>>

RegisterPasskey(b) ==
    LET u == Viewer(b) IN
    /\ Turn
    /\ u # None /\ CanEnter(u) /\ ~account[u].passkey
    /\ account' = [account EXCEPT ![u].passkey = TRUE]
    /\ UNCHANGED <<now, links, records, trip, ticket, browsers, provider, slot, round, history>>

\* An administrator stops an account, lets it go on, or deletes it with all that hangs on it.
\* Its identifier names nobody any more: an account created later is another one.
SetActive(u) ==
    /\ Turn
    /\ account[u].exists
    /\ account' = [account EXCEPT ![u].active = ~@]
    /\ UNCHANGED <<now, links, records, trip, ticket, browsers, provider, slot, round, history>>

DeleteUser(u) ==
    /\ Turn
    /\ account[u].exists
    /\ account' = [account EXCEPT ![u] = [exists |-> FALSE, active |-> TRUE, passkey |-> FALSE]]
    /\ identity' = [s \in Subject |-> IF identity[s] = u THEN None ELSE identity[s]]
    /\ ticket' = [t \in Trip |-> IF ticket[t].user = u THEN NoToken ELSE ticket[t]]
    /\ excused' = excused \ {u}
    /\ slot' = [c \in Request |-> IF slot[c].op = "unlink" /\ slot[c].user = u
                                 THEN [slot[c] EXCEPT !.user = None] ELSE slot[c]]
    /\ UNCHANGED <<now, lastLogin, was, records, trip, browsers, provider, round, sessions>>

-----------------------------------------------------------------------------
(* Rounds of reconciliation.                                               *)

BeginRound(w) ==
    /\ round[w] = Resting /\ Linked # {}
    /\ round' = [round EXCEPT ![w] =
                  [at |-> "asking", asked |-> {<<s, lastLogin[s]>> : s \in Linked},
                   known |-> records, new |-> {}, drop |-> {}]]
    /\ UNCHANGED <<now, tables, browsers, provider, slot, turns, history>>

EveryoneIsUnknown(asked, states) ==
    Cardinality(asked) >= 2 /\ \A a \in asked : states[a[1]] = "unknown"

\* A roster that is held back, or cannot be had, ends the round.
AskRoster(w, states) ==
    LET asked == round[w].asked
        ended == {a \in asked : states[a[1]] # "allowed"}
    IN
    /\ round[w].at = "asking"
    /\ round' = [round EXCEPT ![w] =
                  IF EveryoneIsUnknown(asked, states) THEN Resting
                  ELSE [@ EXCEPT !.at = "writing", !.new = ended \ round[w].known,
                                 !.drop = {a[1] : a \in {x \in ended : states[x[1]] = "unknown"}}]]
    /\ UNCHANGED <<now, tables, browsers, provider, slot, history>>

RosterAnswers(w) == AskRoster(w, roster) /\ UNCHANGED turns

\* The provider answers for another tenant, where nobody is known.
WrongTenant(w) ==
    /\ Turn
    /\ AskRoster(w, [s \in Subject |-> "unknown"])

RosterFails(w) ==
    /\ round[w].at = "asking"
    /\ Turn
    /\ round' = [round EXCEPT ![w] = Resting]
    /\ UNCHANGED <<now, tables, browsers, provider, slot, history>>

\* Mutant: a record that another worker has written ends the rounds for good.
RacedMutant(w) == round[w].new \cap records # {} \/ round[w].new = {}

Raced(w) == round[w].new \cap records # {}

\* One transaction for everybody; a record of another worker rolls it back.
CommitRound(w) ==
    /\ round[w].at = "writing"
    /\ round' = [round EXCEPT ![w] = Resting]
    /\ IF Raced(w)
       THEN UNCHANGED <<identity, records, excused>>
       ELSE /\ records' = records \cup round[w].new
            /\ identity' = [s \in Subject |-> IF s \in round[w].drop THEN None ELSE identity[s]]
            /\ excused' = excused \cup {identity[s] : s \in round[w].drop \cap Linked}
    /\ UNCHANGED <<now, account, lastLogin, was, trip, ticket, browsers, provider, slot, turns, sessions>>

-----------------------------------------------------------------------------
(* The provider and the calendar.                                          *)

IdpSignIn(b) ==
    /\ Turn
    /\ idp' \in [Browser -> Subject \cup {None}]
    /\ \A x \in Browser \ {b} : idp'[x] = idp[x]
    /\ idp' # idp
    /\ UNCHANGED <<now, tables, cookie, token, answer, provider, slot, round, history>>

\* A subject is blocked, let in again, or deleted for good.
ProviderDecides(s) ==
    \/ /\ Turn /\ roster[s] = "allowed"
       /\ roster' \in {[roster EXCEPT ![s] = x] : x \in {"blocked", "unknown"}}
       /\ stopped' = [stopped EXCEPT ![s] = now]
       /\ UNCHANGED <<now, tables, browsers, slot, round, history>>
    \/ /\ Turn /\ roster[s] = "blocked"
       /\ roster' = [roster EXCEPT ![s] = "allowed"]
       /\ UNCHANGED <<now, tables, browsers, stopped, slot, round, history>>

\* Requests are short against the lives of trips, tickets and tokens.
Tick ==
    /\ now < MaxTime /\ \A c \in Request : slot[c] = Idle
    /\ now' = now + 1
    /\ UNCHANGED <<tables, browsers, provider, slot, round, turns, history>>

Next ==
    \/ \E t \in Trip, b \in Browser, k \in Kind : Start(b, t, k)
    \/ \E t \in Trip : ProviderAnswers(t) \/ Declined(t)
    \/ \E c \in Request, t \in Trip : BeginCallback(c, t) \/ BeginExchange(c, t)
    \/ \E c \in Request : CommitCallback(c) \/ CommitExchange(c) \/ CommitUnlink(c)
    \/ \E c \in Request, b \in Browser : BeginUnlink(c, b)
    \/ \E b \in Browser :
         \/ \E u \in User : SignIn(b, u)
         \/ SignOut(b) \/ DeletePasskey(b) \/ RegisterPasskey(b) \/ IdpSignIn(b)
    \/ \E u \in User : SetActive(u) \/ DeleteUser(u)
    \/ \E w \in Worker :
         BeginRound(w) \/ RosterAnswers(w) \/ WrongTenant(w) \/ RosterFails(w) \/ CommitRound(w)
    \/ \E s \in Subject : ProviderDecides(s)
    \/ Tick

Spec == Init /\ [][Next]_vars

\* The periodic thread of every worker goes on.
Round(w) == BeginRound(w) \/ RosterAnswers(w) \/ CommitRound(w)

Fairness == \A w \in Worker : WF_vars(Round(w))

FairSpec == Spec /\ Fairness

-----------------------------------------------------------------------------
(* Properties.                                                             *)

\* However often a browser comes back and sends its ticket, a round trip gives one session.
OneSessionPerTrip == \A t \in Trip : sessions[t] <= 1

\* Nobody holds a session, or a ticket for one, in an account its identity never was linked to.
EnterOnlyLinked ==
    /\ \A b \in Browser : token[b].subject # None => <<token[b].subject, token[b].user>> \in was
    /\ \A t \in Trip : ticket[t].user # None => <<ticket[t].subject, ticket[t].user>> \in was

\* A subject that the provider stops has no session left when the trip it was on, the
\* ticket and the token have run out one after the other (each at least one tick).
StopsArrive ==
    \A b \in Browser : LET s == token[b].subject IN
        s # None /\ Viewer(b) # None /\ roster[s] # "allowed"
        => now - stopped[s] <= TripTTL + TicketTTL + TokenLife - 3

\* An account is left without an entrance only after its owner deleted the passkey, the
\* provider said that the owner is gone, or a late request of another account, which the
\* identity was linked to before, took the link away (unlink_federated_identity.py).
KeepsAnEntrance ==
    \A u \in User :
        account[u].exists /\ u \notin Local /\ ~account[u].passkey /\ LinksOf(u) = {}
        => u \in excused

HeldBack == Cardinality(Linked) >= 2 /\ \A s \in Linked : roster[s] = "unknown"

\* Who is gone is unlinked again and again, in spite of rounds that fail or collide and of
\* callbacks that were under way.
GoneAreUnlinked == []<>(HeldBack \/ \A s \in Linked : roster[s] # "unknown")
=============================================================================
