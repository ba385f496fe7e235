----------------------- MODULE IdentityFederationProofs -----------------------
(***************************************************************************)
(* Proofs about IdentityFederation, for every number of identities,        *)
(* accounts, browsers, round trips, requests and workers.                  *)
(*                                                                         *)
(* The argument: only one request consumes a round trip, so that it issues *)
(* one ticket at most, and what issues a ticket has linked the identity to *)
(* the account, or has read such a link.  Accounts that have no entrance   *)
(* but a link lose it only with an excuse, and deadlines are handed on     *)
(* from trip to ticket to token while they run.                            *)
(***************************************************************************)
EXTENDS IdentityFederation, TLAPS

-----------------------------------------------------------------------------
(* Arithmetic of the calendar and of what is counted.                        *)

LEMMA UpByOne ==
    ASSUME NEW n \in Nat, NEW x \in 0 .. n, x < n
    PROVE  x + 1 \in 0 .. n
OBVIOUS

LEMMA LaterInRange ==
    ASSUME NEW n \in Nat, NEW a \in Nat, NEW b \in Nat, NEW c \in Nat, NEW x \in 0 .. n
    PROVE  /\ x + a \in 0 .. n + a + b + c
           /\ x + b \in 0 .. n + a + b + c
           /\ x + c \in 0 .. n + a + b + c
           /\ 0 \in 0 .. n + a + b + c
OBVIOUS

LEMMA Deadlines ==
    ASSUME TypeOK
    PROVE  /\ now + TripTTL \in Later /\ now + TicketTTL \in Later /\ now + TokenLife \in Later
           /\ 0 \in Later
BY LaterInRange, FederationAssumption DEF TypeOK, Later, Time

LEMMA TurnCounts ==
    ASSUME TypeOK, Turn
    PROVE  turns' \in 0 .. MaxTurns
BY UpByOne, FederationAssumption DEF TypeOK, Turn

-----------------------------------------------------------------------------
(* The inductive invariant.                                                  *)

\* What a request that is served may count on.
Serves(s) ==
    /\ s.op \in Callbacks => s.trip \in Trip /\ s.subject \in Subject /\ s.browser \in Browser
    /\ s.op \in Callbacks \ {"burn"} => s.user \in User
    /\ s.op = "exchange" => s.trip \in Trip
    /\ s.op \in {"enter", "exchange"} => <<s.subject, s.user>> \in was
    /\ s.op = "unlink" => s.subject \in Subject

\* A round trip that was not consumed has no ticket, and one with a ticket has given no
\* session.
TripInv ==
    /\ OneSessionPerTrip
    /\ \A t \in Trip : trip[t].at # "used" => ticket[t].user = None /\ sessions[t] = 0
    /\ \A t \in Trip : ticket[t].user # None => sessions[t] = 0

\* Links are remembered.
LinkInv ==
    /\ EnterOnlyLinked
    /\ \A s \in Subject : identity[s] # None => <<s, identity[s]>> \in was
    /\ \A c \in Request : Serves(slot[c])
    /\ \A t \in Trip : trip[t].at # "new" => trip[t].browser \in Browser

FedInv == TypeOK /\ TripInv /\ LinkInv

LEMMA Blanks ==
    ASSUME TypeOK
    PROVE  /\ NoTrip \in TripRow /\ NoToken \in Token /\ Idle \in Call /\ Resting \in Stage
           /\ NoToken.user = None /\ NoToken.subject = None /\ Serves(Idle)
<1>1. 0 \in Later
  BY Deadlines
<1>2. NoTrip \in TripRow
  BY <1>1 DEF NoTrip, TripRow, Kind
<1>3. NoToken \in Token
  BY <1>1 DEF NoToken, Token
<1>4. Idle \in Call /\ Serves(Idle)
  BY DEF Idle, Call, Ops, Serves, Callbacks
<1>5. Resting \in Stage
  BY DEF Resting, Stage
<1> QED
  BY <1>2, <1>3, <1>4, <1>5 DEF NoToken

LEMMA InitTypes ==
    ASSUME Init
    PROVE  TypeOK
<1>1. now \in Time /\ turns \in 0 .. MaxTurns
  BY FederationAssumption DEF Init, Time
<1>2. 0 \in Later /\ 0 \in Time
  BY FederationAssumption, LaterInRange DEF Later, Time
<1>3. PICK keys \in SUBSET Local, old \in SUBSET Subject :
         /\ account = [u \in User |-> [exists |-> u \in Local \cup {Home[s] : s \in old},
                                     active |-> TRUE, passkey |-> u \in keys]]
         /\ identity = [s \in Subject |-> IF s \in old THEN Home[s] ELSE None]
         /\ was = {<<s, Home[s]>> : s \in old}
  BY DEF Init
<1>4. account \in [User -> Account]
  BY <1>3 DEF Account
<1>5. identity \in [Subject -> User \cup {None}] /\ was \subseteq Subject \X User
  BY <1>3, FederationAssumption
<1>6. NoTrip \in TripRow /\ NoToken \in Token
  BY <1>2 DEF NoTrip, TripRow, Kind, NoToken, Token
<1>7. Idle \in Call /\ Resting \in Stage
  BY DEF Idle, Call, Ops, Resting, Stage
<1>8. lastLogin \in [Subject -> Time] /\ stopped \in [Subject -> Time] /\ records \subseteq Record
      /\ excused \subseteq User /\ roster \in [Subject -> {"allowed", "blocked", "unknown"}]
  BY <1>2 DEF Init
<1>9. trip \in [Trip -> TripRow] /\ ticket \in [Trip -> Token]
      /\ answer \in [Trip -> Subject \cup {None}] /\ sessions \in [Trip -> Nat]
      /\ cookie \in [Browser -> Trip \cup {None}] /\ token \in [Browser -> Token]
      /\ idp \in [Browser -> Subject \cup {None}]
      /\ slot \in [Request -> Call] /\ round \in [Worker -> Stage]
  BY <1>6, <1>7 DEF Init
<1> QED
  BY <1>1, <1>4, <1>5, <1>8, <1>9 DEF TypeOK

LEMMA InitFederation ==
    ASSUME Init
    PROVE  FedInv
<1>1. TypeOK
  BY InitTypes
<1>2. TripInv
  BY <1>1, Blanks DEF Init, TripInv, OneSessionPerTrip
<1>3. \A s \in Subject : identity[s] # None => <<s, identity[s]>> \in was
  <2>1. PICK old \in SUBSET Subject :
            /\ identity = [s \in Subject |-> IF s \in old THEN Home[s] ELSE None]
            /\ was = {<<s, Home[s]>> : s \in old}
    BY DEF Init
  <2> QED
    BY <2>1
<1>4. LinkInv
  BY <1>1, <1>3, Blanks DEF Init, LinkInv, EnterOnlyLinked, NoTrip
<1> QED
  BY <1>1, <1>2, <1>4 DEF FedInv

-----------------------------------------------------------------------------
(* Types.                                                                    *)

\* A request that ends with an answer drops the cookie.
LEMMA AnswerTypes ==
    ASSUME TypeOK, NEW c \in Request, Answer(c)
    PROVE  slot' \in [Request -> Call] /\ cookie' \in [Browser -> Trip \cup {None}]
BY Blanks DEF Answer, TypeOK

LEMMA IssueTypes ==
    ASSUME TypeOK, NEW t \in Trip, NEW u \in User, NEW s \in Subject, Issue(t, u, s)
    PROVE  ticket' \in [Trip -> Token]
<1>1. [user |-> u, subject |-> s, until |-> now + TicketTTL] \in Token
  BY Deadlines DEF Token
<1> QED
  BY <1>1 DEF Issue, TypeOK

LEMMA ConsumedTypes ==
    ASSUME TypeOK, NEW t \in Trip, Consumed(t)
    PROVE  trip' \in [Trip -> TripRow]
<1>1. [trip[t] EXCEPT !.at = "used"] \in TripRow
  BY DEF TypeOK, TripRow
<1> QED
  BY <1>1 DEF Consumed, TypeOK

LEMMA InsertTypes ==
    ASSUME TypeOK, NEW u \in User, NEW s \in Subject, Insert(s, u)
    PROVE  /\ identity' \in [Subject -> User \cup {None}]
           /\ lastLogin' \in [Subject -> Time] /\ was' \subseteq Subject \X User
BY DEF Insert, TypeOK

LEMMA CallbackTypes ==
    ASSUME TypeOK, LinkInv, NEW c \in Request, CommitCallback(c)
    PROVE  TypeOK'
<1> DEFINE s == slot[c].subject
           u == slot[c].user
           t == slot[c].trip
<1> USE DEF browsers, provider, history
<1>1. UNCHANGED <<now, records, token, answer, idp, provider, round, turns, history>>
  BY DEF CommitCallback
<1>2. Serves(slot[c])
  BY DEF LinkInv
<1>3. CASE Enter(c)
  <2>1. t \in Trip /\ s \in Subject /\ u \in User
    BY <1>2, <1>3 DEF Enter, Serves, Callbacks
  <2>2. lastLogin' \in [Subject -> Time]
    BY <1>3 DEF Enter, TypeOK
  <2> QED
    BY <1>1, <1>3, <2>1, <2>2, AnswerTypes, IssueTypes, ConsumedTypes DEF Enter, TypeOK
<1>4. CASE Welcome(c)
  <2>1. t \in Trip /\ s \in Subject /\ u \in User
    BY <1>2, <1>4 DEF Welcome, Serves, Callbacks
  <2>2. account' \in [User -> Account]
    BY <1>4 DEF Welcome, TypeOK, Account
  <2> QED
    BY <1>1, <1>4, <2>1, <2>2, AnswerTypes, IssueTypes, ConsumedTypes, InsertTypes
       DEF Welcome, TypeOK
<1>5. CASE Link(c)
  <2>1. t \in Trip /\ s \in Subject /\ u \in User
    BY <1>2, <1>5 DEF Link, Serves, Callbacks
  <2> QED
    BY <1>1, <1>5, <2>1, AnswerTypes, ConsumedTypes, InsertTypes DEF Link, TypeOK
<1>6. CASE Burn(c)
  <2>1. t \in Trip
    BY <1>2, <1>6 DEF Burn, Serves, Callbacks
  <2> QED
    BY <1>1, <1>6, <2>1, AnswerTypes, ConsumedTypes DEF Burn, TypeOK, links
<1>7. CASE Refuse(c)
  <2>1. t \in Trip /\ s \in Subject
    BY <1>2, <1>7 DEF Refuse, Serves, Callbacks
  <2>2. lastLogin' \in [Subject -> Time]
    BY <1>7 DEF Refuse, TypeOK
  <2> QED
    BY <1>1, <1>7, <2>1, <2>2, AnswerTypes, ConsumedTypes DEF Refuse, TypeOK
<1>8. CASE Late(c)
  BY <1>1, <1>8, AnswerTypes DEF Late, TypeOK, links
<1>9. CASE Spoilt(c)
  BY <1>1, <1>9, Blanks DEF Spoilt, TypeOK, links
<1> QED
  BY <1>3, <1>4, <1>5, <1>6, <1>7, <1>8, <1>9 DEF CommitCallback

LEMMA ViewerTypes ==
    ASSUME TypeOK, NEW b \in Browser
    PROVE  Viewer(b) \in User \cup {None}
<1>1. token[b] \in Token
  BY DEF TypeOK
<1> QED
  BY <1>1 DEF Viewer, Token

\* What the callback decides.
LEMMA DecisionKinds ==
    ASSUME TypeOK, NEW t \in Trip, NEW b \in Browser, NEW s \in Subject,
           trip[t].kind = "link" => Viewer(b) # None
    PROVE  \E d \in Callbacks, u \in User \cup {None} :
              /\ Decision(t, b, s) = [do |-> d, user |-> u]
              /\ d # "burn" => u \in User
              /\ d = "enter" => identity[s] # None /\ u = identity[s]
<1>1. Home[s] \in User /\ identity[s] \in User \cup {None} /\ Viewer(b) \in User \cup {None}
  BY FederationAssumption, ViewerTypes DEF TypeOK
<1>2. \/ Decision(t, b, s) = [do |-> "burn", user |-> None]
      \/ trip[t].kind = "link" /\ Decision(t, b, s) = [do |-> "link", user |-> Viewer(b)]
      \/ identity[s] # None /\ Decision(t, b, s) = [do |-> "enter", user |-> identity[s]]
      \/ identity[s] # None /\ Decision(t, b, s) = [do |-> "refuse", user |-> identity[s]]
      \/ Decision(t, b, s) = [do |-> "adopt", user |-> Home[s]]
      \/ Decision(t, b, s) = [do |-> "create", user |-> Home[s]]
  BY DEF Decision, LinkDecision, LoginDecision
<1>3. ASSUME NEW d \in Callbacks, NEW u \in User \cup {None},
             Decision(t, b, s) = [do |-> d, user |-> u], d # "burn" => u \in User,
             d = "enter" => identity[s] # None /\ u = identity[s]
      PROVE  \E e \in Callbacks, v \in User \cup {None} :
                /\ Decision(t, b, s) = [do |-> e, user |-> v]
                /\ e # "burn" => v \in User
                /\ e = "enter" => identity[s] # None /\ v = identity[s]
  BY <1>3
<1>4. /\ "burn" \in Callbacks /\ "link" \in Callbacks /\ "enter" \in Callbacks
      /\ "adopt" \in Callbacks /\ "create" \in Callbacks /\ "refuse" \in Callbacks
  BY DEF Callbacks
<1> QED
  BY <1>1, <1>2, <1>3, <1>4

\* The plan of a callback is well-formed, and so is what it may count on.
LEMMA BeginCallbackPlan ==
    ASSUME TypeOK, LinkInv, NEW c \in Request, NEW t \in Trip, BeginCallback(c, t)
    PROVE  \E call \in Call : slot' = [slot EXCEPT ![c] = call] /\ Serves(call)
<1> DEFINE b == trip[t].browser
           s == answer[t]
<1>1. b \in Browser /\ s \in Subject
  BY DEF BeginCallback, TypeOK, LinkInv
<1>2. trip[t].kind = "link" => Viewer(b) # None
  BY DEF BeginCallback
<1>3. slot' = [slot EXCEPT ![c] = [op |-> Decision(t, b, s).do, trip |-> t, subject |-> s,
                                   user |-> Decision(t, b, s).user, browser |-> b]]
  BY DEF BeginCallback
<1> HIDE DEF b, s
<1>4. PICK d \in Callbacks, u \in User \cup {None} :
              /\ Decision(t, b, s) = [do |-> d, user |-> u]
              /\ d # "burn" => u \in User
              /\ d = "enter" => identity[s] # None /\ u = identity[s]
  BY <1>1, <1>2, DecisionKinds
<1> DEFINE call == [op |-> d, trip |-> t, subject |-> s, user |-> u, browser |-> b]
<1>5. slot' = [slot EXCEPT ![c] = call]
  BY <1>3, <1>4
<1>6. call \in Call
  BY <1>1 DEF Call, Ops, Callbacks
<1>7. d = "enter" => <<s, u>> \in was
  BY <1>1, <1>4 DEF LinkInv
<1>8. Serves(call)
  BY <1>1, <1>4, <1>7 DEF Serves, Callbacks
<1> HIDE DEF call
<1> QED
  BY <1>5, <1>6, <1>8

LEMMA BeginExchangePlan ==
    ASSUME TypeOK, LinkInv, NEW c \in Request, NEW t \in Trip, BeginExchange(c, t)
    PROVE  \E call \in Call : slot' = [slot EXCEPT ![c] = call] /\ Serves(call)
<1> DEFINE b == trip[t].browser
           call == [op |-> "exchange", trip |-> t, subject |-> ticket[t].subject,
                    user |-> ticket[t].user, browser |-> b]
<1>1. slot' = [slot EXCEPT ![c] = call] /\ ticket[t].user # None
  BY DEF BeginExchange
<1>2. b \in Browser \cup {None} /\ ticket[t] \in Token
  BY DEF TypeOK, TripRow
<1>3. call \in Call
  BY <1>2 DEF Call, Ops, Token
<1>4. <<ticket[t].subject, ticket[t].user>> \in was
  BY <1>1 DEF LinkInv, EnterOnlyLinked
<1>5. Serves(call)
  BY <1>4 DEF Serves, Callbacks
<1> HIDE DEF call
<1> QED
  BY <1>1, <1>3, <1>5

LEMMA BeginUnlinkPlan ==
    ASSUME TypeOK, NEW c \in Request, NEW b \in Browser, BeginUnlink(c, b)
    PROVE  \E call \in Call : slot' = [slot EXCEPT ![c] = call] /\ Serves(call)
<1>1. PICK s \in Subject :
        slot' = [slot EXCEPT ![c] = [op |-> "unlink", trip |-> None, subject |-> s,
                                     user |-> Viewer(b), browser |-> b]]
  BY DEF BeginUnlink, LinksOf
<1> DEFINE call == [op |-> "unlink", trip |-> None, subject |-> s, user |-> Viewer(b), browser |-> b]
<1>2. call \in Call
  BY ViewerTypes DEF Call, Ops
<1>3. Serves(call)
  BY DEF Serves, Callbacks
<1> QED
  BY <1>1, <1>2, <1>3

LEMMA RoundTypes ==
    ASSUME TypeOK, NEW w \in Worker,
           BeginRound(w) \/ RosterAnswers(w) \/ WrongTenant(w) \/ RosterFails(w) \/ CommitRound(w)
    PROVE  TypeOK'
<1> USE DEF tables, links, browsers, provider, history
<1>1. CASE BeginRound(w)
  <2>1. {<<s, lastLogin[s]>> : s \in Linked} \subseteq Record
    BY DEF Linked, Record, TypeOK
  <2>2. [at |-> "asking", asked |-> {<<s, lastLogin[s]>> : s \in Linked},
         known |-> records, new |-> {}, drop |-> {}] \in Stage
    BY <2>1 DEF Stage, TypeOK
  <2> QED
    BY <1>1, <2>2 DEF BeginRound, TypeOK
<1>2. ASSUME NEW states, AskRoster(w, states), turns' \in 0 .. MaxTurns
      PROVE  TypeOK'
  <2> DEFINE ended == {a \in round[w].asked : states[a[1]] # "allowed"}
             drop == {a[1] : a \in {x \in ended : states[x[1]] = "unknown"}}
             next == [round[w] EXCEPT !.at = "writing", !.new = ended \ round[w].known, !.drop = drop]
  <2>1. round[w] \in Stage
    BY DEF TypeOK
  <2>2. ended \subseteq Record /\ drop \subseteq Subject
    BY <2>1 DEF Stage, Record
  <2> HIDE DEF ended, drop
  <2>3. next \in Stage
    BY <2>1, <2>2 DEF Stage
  <2>4. round' = [round EXCEPT ![w] = IF EveryoneIsUnknown(round[w].asked, states)
                                      THEN Resting ELSE next]
    BY <1>2 DEF AskRoster, ended, drop
  <2> HIDE DEF next
  <2>5. round' \in [Worker -> Stage]
    BY <2>3, <2>4, Blanks DEF TypeOK
  <2> QED
    BY <1>2, <2>5 DEF AskRoster, TypeOK
<1>3. CASE RosterAnswers(w)
  BY <1>2, <1>3 DEF RosterAnswers, TypeOK
<1>4. CASE WrongTenant(w)
  BY <1>2, <1>4, TurnCounts DEF WrongTenant
<1>5. CASE RosterFails(w)
  BY <1>5, TurnCounts, Blanks DEF RosterFails, TypeOK
<1>6. CASE CommitRound(w)
  <2>1. round[w] \in Stage /\ round' \in [Worker -> Stage]
    BY <1>6, Blanks DEF CommitRound, TypeOK
  <2>2. records' \subseteq Record /\ identity' \in [Subject -> User \cup {None}]
    BY <1>6, <2>1 DEF CommitRound, TypeOK, Stage
  <2>3. {identity[s] : s \in round[w].drop \cap Linked} \subseteq User
    BY DEF Linked, TypeOK
  <2>4. excused' \subseteq User
    BY <1>6, <2>3 DEF CommitRound, TypeOK
  <2> QED
    BY <1>6, <2>1, <2>2, <2>4 DEF CommitRound, TypeOK
<1> QED
  BY <1>1, <1>3, <1>4, <1>5, <1>6

\* Requests to unlink an account that is deleted forget whose they are.
LEMMA ForgottenTypes ==
    ASSUME TypeOK, NEW u \in User, DeleteUser(u)
    PROVE  /\ slot' \in [Request -> Call]
           /\ \A c \in Request :
                 \/ slot'[c] = slot[c] /\ ~(slot[c].op = "unlink" /\ slot[c].user = u)
                 \/ /\ slot[c].op = "unlink" /\ slot'[c].op = "unlink"
                    /\ slot'[c].user = None /\ slot'[c].subject = slot[c].subject
<1>1. slot' = [c \in Request |-> IF slot[c].op = "unlink" /\ slot[c].user = u
                                THEN [slot[c] EXCEPT !.user = None] ELSE slot[c]]
  BY DEF DeleteUser
<1>2. ASSUME NEW c \in Request
      PROVE  /\ slot[c] \in Call /\ [slot[c] EXCEPT !.user = None] \in Call
             /\ [slot[c] EXCEPT !.user = None].op = slot[c].op
             /\ [slot[c] EXCEPT !.user = None].user = None
             /\ [slot[c] EXCEPT !.user = None].subject = slot[c].subject
  BY DEF TypeOK, Call
<1> QED
  BY <1>1, <1>2

LEMMA PeopleTypes ==
    ASSUME TypeOK,
           \/ \E b \in Browser :
                \/ \E u \in User : SignIn(b, u)
                \/ SignOut(b) \/ DeletePasskey(b) \/ RegisterPasskey(b) \/ IdpSignIn(b)
           \/ \E u \in User : SetActive(u) \/ DeleteUser(u)
           \/ \E s \in Subject : ProviderDecides(s)
    PROVE  TypeOK'
<1> USE DEF tables, links, browsers, provider, history
<1>1. ASSUME NEW b \in Browser, NEW u \in User, SignIn(b, u)
      PROVE  TypeOK'
  <2>1. [user |-> u, subject |-> None, until |-> now + TokenLife] \in Token
    BY Deadlines DEF Token
  <2> QED
    BY <1>1, <2>1 DEF SignIn, TypeOK
<1>2. ASSUME NEW b \in Browser, SignOut(b)
      PROVE  TypeOK'
  BY <1>2, TurnCounts, Blanks DEF SignOut, TypeOK
<1>3. ASSUME NEW v \in User, NEW p \in BOOLEAN
      PROVE  /\ [account[v] EXCEPT !.passkey = p] \in Account
             /\ [account[v] EXCEPT !.active = ~@] \in Account
             /\ [exists |-> FALSE, active |-> TRUE, passkey |-> FALSE] \in Account
  BY DEF TypeOK, Account
<1>4. ASSUME NEW b \in Browser, DeletePasskey(b) \/ RegisterPasskey(b)
      PROVE  TypeOK'
  <2>1. Viewer(b) \in User
    BY <1>4, ViewerTypes DEF DeletePasskey, RegisterPasskey
  <2>2. account' \in [User -> Account]
    BY <1>3, <1>4, <2>1 DEF DeletePasskey, RegisterPasskey, TypeOK
  <2>3. excused' \subseteq User
    BY <1>4, <2>1 DEF DeletePasskey, RegisterPasskey, TypeOK
  <2> QED
    BY <1>4, <2>2, <2>3, TurnCounts DEF DeletePasskey, RegisterPasskey, TypeOK
<1>5. ASSUME NEW b \in Browser, IdpSignIn(b)
      PROVE  TypeOK'
  BY <1>5, TurnCounts DEF IdpSignIn, TypeOK
<1>6. ASSUME NEW u \in User, SetActive(u)
      PROVE  TypeOK'
  <2>1. account' \in [User -> Account]
    BY <1>3, <1>6 DEF SetActive, TypeOK
  <2> QED
    BY <1>6, <2>1, TurnCounts DEF SetActive, TypeOK
<1>7. ASSUME NEW u \in User, DeleteUser(u)
      PROVE  TypeOK'
  <2>1. account' \in [User -> Account]
    BY <1>3, <1>7 DEF DeleteUser, TypeOK
  <2>2. ticket' \in [Trip -> Token] /\ identity' \in [Subject -> User \cup {None}]
    BY <1>7, Blanks DEF DeleteUser, TypeOK
  <2>3. slot' \in [Request -> Call]
    BY <1>7, ForgottenTypes
  <2>4. excused' \subseteq User
    BY <1>7 DEF DeleteUser, TypeOK
  <2> QED
    BY <1>7, <2>1, <2>2, <2>3, <2>4, TurnCounts DEF DeleteUser, TypeOK
<1>8. ASSUME NEW s \in Subject, ProviderDecides(s)
      PROVE  TypeOK'
  <2>1. roster' \in [Subject -> {"allowed", "blocked", "unknown"}]
    BY <1>8 DEF ProviderDecides, TypeOK
  <2>2. stopped' \in [Subject -> Time]
    BY <1>8 DEF ProviderDecides, TypeOK
  <2> QED
    BY <1>8, <2>1, <2>2, TurnCounts DEF ProviderDecides, TypeOK
<1> QED
  BY <1>1, <1>2, <1>4, <1>5, <1>6, <1>7, <1>8

LEMMA TripTypes ==
    ASSUME TypeOK, LinkInv, NEW t \in Trip,
           (\E b \in Browser, k \in Kind : Start(b, t, k)) \/ ProviderAnswers(t) \/ Declined(t)
    PROVE  TypeOK'
<1> USE DEF tables, links, browsers, provider, history
<1>1. ASSUME NEW b \in Browser, NEW k \in Kind, Start(b, t, k)
      PROVE  TypeOK'
  <2>1. [at |-> "out", kind |-> k, browser |-> b, user |-> IF k = "link" THEN Viewer(b) ELSE None,
         until |-> now + TripTTL] \in TripRow
    BY ViewerTypes, Deadlines DEF TripRow
  <2> QED
    BY <1>1, <2>1 DEF Start, TypeOK
<1>2. CASE ProviderAnswers(t)
  <2>1. trip[t].browser \in Browser
    BY <1>2 DEF ProviderAnswers, LinkInv
  <2> QED
    BY <1>2, <2>1 DEF ProviderAnswers, TypeOK
<1>3. CASE Declined(t)
  BY <1>3, TurnCounts DEF Declined, TypeOK
<1> QED
  BY <1>1, <1>2, <1>3

LEMMA CommitTypes ==
    ASSUME TypeOK, LinkInv, NEW c \in Request, CommitExchange(c) \/ CommitUnlink(c)
    PROVE  TypeOK'
<1> USE DEF tables, links, browsers, provider, history
<1>4. CASE CommitExchange(c)
  <2> DEFINE s == slot[c]
  <2>1. slot' \in [Request -> Call]
    BY <1>4, Blanks DEF CommitExchange, TypeOK
  <2>2. s \in Call
    BY DEF TypeOK
  <2>3. [user |-> s.user, subject |-> s.subject, until |-> now + TokenLife] \in Token
    BY <2>2, Deadlines DEF Call, Token
  <2>4. ticket' \in [Trip -> Token] /\ token' \in [Browser -> Token] /\ sessions' \in [Trip -> Nat]
    BY <1>4, <2>3, Blanks DEF CommitExchange, TypeOK
  <2> QED
    BY <1>4, <2>1, <2>4 DEF CommitExchange, TypeOK
<1>5. CASE CommitUnlink(c)
  <2>1. slot[c].subject \in Subject
    BY <1>5 DEF CommitUnlink, LinkInv, Serves
  <2>2. excused' \subseteq User
    BY <1>5, <2>1 DEF CommitUnlink, TypeOK
  <2> QED
    BY <1>5, <2>2, Blanks DEF CommitUnlink, TypeOK
<1> QED
  BY <1>4, <1>5

LEMMA BeginTypes ==
    ASSUME TypeOK, LinkInv, NEW c \in Request,
           \/ \E t \in Trip : BeginCallback(c, t) \/ BeginExchange(c, t)
           \/ \E b \in Browser : BeginUnlink(c, b)
    PROVE  /\ UNCHANGED <<now, tables, browsers, provider, round, turns, history>>
           /\ slot' \in [Request -> Call] /\ \A d \in Request : Serves(slot'[d])
<1>1. PICK call \in Call : slot' = [slot EXCEPT ![c] = call] /\ Serves(call)
  BY BeginCallbackPlan, BeginExchangePlan, BeginUnlinkPlan
<1>2. UNCHANGED <<now, tables, browsers, provider, round, turns, history>>
  BY DEF BeginCallback, BeginExchange, BeginUnlink
<1>3. ASSUME NEW d \in Request
      PROVE  slot'[d] = IF d = c THEN call ELSE slot[d]
  BY <1>1 DEF TypeOK
<1> QED
  BY <1>1, <1>2, <1>3 DEF TypeOK, LinkInv

LEMMA TypesKept ==
    ASSUME TypeOK, LinkInv, [Next]_vars
    PROVE  TypeOK'
<1> USE DEF tables, links, browsers, provider, history
<1>1. CASE \/ \E t \in Trip, b \in Browser, k \in Kind : Start(b, t, k)
           \/ \E t \in Trip : ProviderAnswers(t) \/ Declined(t)
  BY <1>1, TripTypes
<1>2. ASSUME NEW c \in Request,
             \/ \E t \in Trip : BeginCallback(c, t) \/ BeginExchange(c, t)
             \/ \E b \in Browser : BeginUnlink(c, b)
      PROVE  TypeOK'
  BY <1>2, BeginTypes DEF TypeOK
<1>3. CASE Tick
  <2>1. now' \in Time
    BY <1>3, UpByOne, FederationAssumption DEF Tick, TypeOK, Time
  <2> QED
    BY <1>3, <2>1 DEF Tick, TypeOK
<1>4. CASE UNCHANGED vars
  BY <1>4 DEF vars, TypeOK
<1> QED
  BY <1>1, <1>2, <1>3, <1>4, CallbackTypes, CommitTypes, PeopleTypes, RoundTypes DEF Next

-----------------------------------------------------------------------------
(* A round trip gives one session.                                           *)

LEMMA SameTrips ==
    ASSUME TripInv, UNCHANGED <<trip, sessions>>,
           \A t \in Trip : ticket'[t].user = ticket[t].user \/ ticket'[t].user = None
    PROVE  TripInv'
BY DEF TripInv, OneSessionPerTrip

LEMMA CallbackTrips ==
    ASSUME TypeOK, TripInv, LinkInv, NEW c \in Request, CommitCallback(c)
    PROVE  TripInv'
<1> DEFINE t == slot[c].trip
<1>1. sessions' = sessions
  BY DEF CommitCallback, history
<1>2. CASE Late(c) \/ Spoilt(c)
  BY <1>1, <1>2, SameTrips DEF Late, Spoilt
<1>3. CASE ~Late(c) /\ ~Spoilt(c)
  <2>1. /\ Consumed(t) /\ slot[c].op \in Callbacks
        /\ ticket' = ticket \/ \E u \in User, s \in Subject : Issue(t, u, s)
    <3>1. slot[c].op \in Callbacks => slot[c].subject \in Subject
      BY DEF LinkInv, Serves
    <3>2. slot[c].op \in Callbacks \ {"burn"} => slot[c].user \in User
      BY DEF LinkInv, Serves
    <3> QED
      BY <1>3, <3>1, <3>2 DEF CommitCallback, Enter, Welcome, Link, Refuse, Burn, Callbacks
  <2>2. t \in Trip
    BY <2>1 DEF LinkInv, Serves
  <2> HIDE DEF t
  <2>3. trip[t].at = "out" /\ trip' = [trip EXCEPT ![t].at = "used"]
    BY <2>1 DEF Consumed
  <2>4. sessions[t] = 0
    BY <2>2, <2>3 DEF TripInv
  <2>5. trip'[t].at = "used"
    <3>1. \A y : y = [trip[t] EXCEPT !.at = "used"] => y.at = "used"
      BY <2>2 DEF TypeOK, TripRow
    <3> QED
      BY <2>2, <2>3, <3>1 DEF TypeOK
  <2>6. ASSUME NEW v \in Trip, v # t
        PROVE  trip'[v] = trip[v] /\ ticket'[v] = ticket[v]
    BY <2>1, <2>2, <2>3, <2>6 DEF Issue, TypeOK
  <2> QED
    BY <1>1, <2>4, <2>5, <2>6 DEF TripInv, OneSessionPerTrip
<1> QED
  BY <1>2, <1>3

LEMMA ExchangeTrips ==
    ASSUME TypeOK, TripInv, LinkInv, NEW c \in Request, CommitExchange(c)
    PROVE  TripInv'
<1> DEFINE t == slot[c].trip
<1>1. t \in Trip
  BY DEF CommitExchange, LinkInv, Serves
<1>2. trip' = trip
  BY DEF CommitExchange
<1> HIDE DEF t
<1>3. CASE ticket[t].user # None /\ ~TicketOver(t)
  <2>1. ticket' = [ticket EXCEPT ![t] = NoToken] /\ sessions' = [sessions EXCEPT ![t] = @ + 1]
    BY <1>3 DEF CommitExchange, t
  <2>2. sessions[t] = 0 /\ trip[t].at = "used"
    BY <1>1, <1>3 DEF TripInv
  <2>3. sessions'[t] = 1 /\ ticket'[t].user = None
    BY <1>1, <2>1, <2>2, Blanks DEF TypeOK
  <2>4. ASSUME NEW v \in Trip, v # t
        PROVE  sessions'[v] = sessions[v] /\ ticket'[v] = ticket[v]
    BY <2>1, <2>4 DEF TypeOK
  <2> QED
    BY <1>2, <2>2, <2>3, <2>4 DEF TripInv, OneSessionPerTrip
<1>4. CASE ~(ticket[t].user # None /\ ~TicketOver(t))
  BY <1>2, <1>4, SameTrips DEF CommitExchange, t
<1> QED
  BY <1>3, <1>4

LEMMA StepTrips ==
    ASSUME TypeOK, TripInv, LinkInv, [Next]_vars
    PROVE  TripInv'
<1> USE DEF tables, history
<1>1. ASSUME NEW t \in Trip, NEW b \in Browser, NEW k \in Kind, Start(b, t, k)
      PROVE  TripInv'
  <2>1. UNCHANGED <<ticket, sessions>> /\ trip[t].at = "new"
    BY <1>1 DEF Start
  <2>2. ASSUME NEW v \in Trip, v # t
        PROVE  trip'[v] = trip[v]
    BY <1>1, <2>2 DEF Start, TypeOK
  <2> QED
    BY <2>1, <2>2 DEF TripInv, OneSessionPerTrip
<1>2. ASSUME NEW t \in Trip, ProviderAnswers(t) \/ Declined(t)
      PROVE  TripInv'
  BY <1>2, SameTrips DEF ProviderAnswers, Declined
<1>3. ASSUME NEW c \in Request,
             \/ \E t \in Trip : BeginCallback(c, t) \/ BeginExchange(c, t)
             \/ \E b \in Browser : BeginUnlink(c, b)
      PROVE  TripInv'
  BY <1>3, BeginTypes, SameTrips
<1>4. ASSUME NEW c \in Request, CommitUnlink(c)
      PROVE  TripInv'
  BY <1>4, SameTrips DEF CommitUnlink
<1>5. ASSUME NEW b \in Browser,
             \/ \E u \in User : SignIn(b, u)
             \/ SignOut(b) \/ DeletePasskey(b) \/ RegisterPasskey(b) \/ IdpSignIn(b)
      PROVE  TripInv'
  BY <1>5, SameTrips DEF SignIn, SignOut, DeletePasskey, RegisterPasskey, IdpSignIn
<1>6. ASSUME NEW u \in User, SetActive(u) \/ DeleteUser(u)
      PROVE  TripInv'
  <2>1. CASE SetActive(u)
    BY <2>1, SameTrips DEF SetActive
  <2>2. CASE DeleteUser(u)
    <3>1. \A t \in Trip : ticket'[t].user = ticket[t].user \/ ticket'[t].user = None
      BY <2>2, Blanks DEF DeleteUser
    <3> QED
      BY <2>2, <3>1, SameTrips DEF DeleteUser
  <2> QED
    BY <1>6, <2>1, <2>2
<1>7. ASSUME NEW w \in Worker,
             BeginRound(w) \/ RosterAnswers(w) \/ WrongTenant(w) \/ RosterFails(w) \/ CommitRound(w)
      PROVE  TripInv'
  BY <1>7, SameTrips DEF BeginRound, RosterAnswers, WrongTenant, AskRoster, RosterFails, CommitRound
<1>8. CASE (\E s \in Subject : ProviderDecides(s)) \/ Tick \/ UNCHANGED vars
  BY <1>8, SameTrips DEF ProviderDecides, Tick, vars
<1> QED
  BY <1>1, <1>2, <1>3, <1>4, <1>5, <1>6, <1>7, <1>8, CallbackTrips, ExchangeTrips DEF Next

-----------------------------------------------------------------------------
(* Nobody enters an account that the identity was never linked to.           *)

\* What a step may do: keep links or remember new ones, hand on what is remembered, and
\* leave requests with plans that are sound.
LEMMA SameLinks ==
    ASSUME LinkInv, was \subseteq was',
           \A s \in Subject : identity'[s] \in {identity[s], None} \/ <<s, identity'[s]>> \in was',
           \A b \in Browser : \/ token'[b] = token[b] \/ token'[b].subject = None
                              \/ <<token'[b].subject, token'[b].user>> \in was',
           \A t \in Trip : \/ ticket'[t] = ticket[t] \/ ticket'[t].user = None
                           \/ <<ticket'[t].subject, ticket'[t].user>> \in was',
           \A c \in Request : slot'[c] = slot[c] \/ Serves(slot'[c]),
           \A t \in Trip : trip'[t].at # "new" =>
               trip'[t].browser \in Browser \/ (trip[t].at # "new" /\ trip'[t].browser = trip[t].browser)
    PROVE  LinkInv'
<1>1. EnterOnlyLinked'
  BY DEF LinkInv, EnterOnlyLinked
<1>2. \A s \in Subject : identity'[s] # None => <<s, identity'[s]>> \in was'
  BY DEF LinkInv
<1>3. ASSUME NEW c \in Request
      PROVE  Serves(slot[c])'
  <2>1. Serves(slot'[c])
    BY DEF LinkInv
  <2> QED
    BY <2>1 DEF Serves
<1>4. \A t \in Trip : trip'[t].at # "new" => trip'[t].browser \in Browser
  BY DEF LinkInv
<1> QED
  BY <1>1, <1>2, <1>3, <1>4 DEF LinkInv

LEMMA CallbackLinks ==
    ASSUME TypeOK, LinkInv, NEW c \in Request, CommitCallback(c)
    PROVE  LinkInv'
<1> DEFINE s == slot[c].subject
           u == slot[c].user
           t == slot[c].trip
<1>1. token' = token /\ slot' = [slot EXCEPT ![c] = Idle]
  BY DEF CommitCallback, Enter, Welcome, Link, Refuse, Burn, Late, Spoilt, Answer
<1>2. Serves(slot[c])
  BY DEF LinkInv
<1>3. \A d \in Request : slot'[d] = slot[d] \/ Serves(slot'[d])
  BY <1>1, Blanks DEF TypeOK
<1>4. \A v \in Trip : trip'[v].at # "new" => trip[v].at # "new" /\ trip'[v].browser = trip[v].browser
  <2>1. CASE trip' = trip
    BY <2>1
  <2>2. CASE Consumed(t)
    <3>1. ASSUME NEW v \in Trip
          PROVE  \A y : y = [trip[v] EXCEPT !.at = "used"] => y.browser = trip[v].browser
      BY DEF TypeOK, TripRow
    <3>2. trip[t].at = "out" /\ trip' = [trip EXCEPT ![t].at = "used"]
      BY <2>2 DEF Consumed
    <3> QED
      BY <3>1, <3>2 DEF TypeOK
  <2> QED
    BY <2>1, <2>2 DEF CommitCallback, Enter, Welcome, Link, Refuse, Burn, Late, Spoilt
<1>5. CASE Enter(c)
  <2>1. <<s, u>> \in was /\ was' = was /\ identity' = identity
    BY <1>2, <1>5 DEF Enter, Serves
  <2>2. \A v \in Trip : ticket'[v] = ticket[v] \/ <<ticket'[v].subject, ticket'[v].user>> \in was'
    BY <1>5, <2>1 DEF Enter, Issue, TypeOK
  <2> QED
    BY <1>1, <1>3, <1>4, <2>1, <2>2, SameLinks
<1>6. CASE Welcome(c) \/ Link(c)
  <2>1. was' = was \cup {<<s, u>>} /\ identity' = [identity EXCEPT ![s] = u]
    BY <1>6 DEF Welcome, Link, Insert
  <2>2. \A v \in Trip : ticket'[v] = ticket[v] \/ <<ticket'[v].subject, ticket'[v].user>> \in was'
    BY <1>6, <2>1 DEF Welcome, Link, Issue, TypeOK
  <2>3. \A x \in Subject : identity'[x] = identity[x] \/ <<x, identity'[x]>> \in was'
    BY <2>1 DEF TypeOK
  <2> QED
    BY <1>1, <1>3, <1>4, <2>1, <2>2, <2>3, SameLinks
<1>7. CASE Refuse(c) \/ Burn(c) \/ Late(c) \/ Spoilt(c)
  BY <1>1, <1>3, <1>4, <1>7, SameLinks DEF Refuse, Burn, Late, Spoilt, links
<1> QED
  BY <1>5, <1>6, <1>7 DEF CommitCallback

LEMMA ExchangeLinks ==
    ASSUME TypeOK, LinkInv, NEW c \in Request, CommitExchange(c)
    PROVE  LinkInv'
<1>1. <<slot[c].subject, slot[c].user>> \in was
  BY DEF CommitExchange, LinkInv, Serves
<1>2. UNCHANGED <<was, identity, trip>> /\ slot' = [slot EXCEPT ![c] = Idle]
  BY DEF CommitExchange, links
<1>3. \A d \in Request : slot'[d] = slot[d] \/ Serves(slot'[d])
  BY <1>2, Blanks DEF TypeOK
<1>4. \A b \in Browser : token'[b] = token[b] \/ <<token'[b].subject, token'[b].user>> \in was'
  BY <1>1, <1>2 DEF CommitExchange, TypeOK
<1>5. \A t \in Trip : ticket'[t] = ticket[t] \/ ticket'[t].user = None
  BY Blanks DEF CommitExchange, TypeOK
<1> QED
  BY <1>2, <1>3, <1>4, <1>5, SameLinks

LEMMA StepLinks ==
    ASSUME TypeOK, LinkInv, [Next]_vars
    PROVE  LinkInv'
<1> USE DEF tables, links, browsers, history
<1>1. ASSUME NEW t \in Trip, NEW b \in Browser, NEW k \in Kind, Start(b, t, k)
      PROVE  LinkInv'
  <2>1. UNCHANGED <<was, identity, token, ticket, slot>>
    BY <1>1 DEF Start
  <2>2. \A v \in Trip : trip'[v] = trip[v] \/ trip'[v].browser \in Browser
    BY <1>1 DEF Start, TypeOK
  <2>3. \A v \in Trip : trip'[v].at # "new" => trip'[v].browser \in Browser
    BY <2>2 DEF LinkInv
  <2> QED
    BY <2>1, <2>3, SameLinks
<1>2. ASSUME NEW t \in Trip, ProviderAnswers(t) \/ Declined(t)
      PROVE  LinkInv'
  BY <1>2, SameLinks DEF ProviderAnswers, Declined
<1>3. ASSUME NEW c \in Request,
             \/ \E t \in Trip : BeginCallback(c, t) \/ BeginExchange(c, t)
             \/ \E b \in Browser : BeginUnlink(c, b)
      PROVE  LinkInv'
  <2>1. UNCHANGED <<was, identity, token, ticket, trip>> /\ \A d \in Request : Serves(slot'[d])
    BY <1>3, BeginTypes
  <2> QED
    BY <2>1, SameLinks
<1>4. ASSUME NEW c \in Request, CommitUnlink(c)
      PROVE  LinkInv'
  <2>1. \A d \in Request : slot'[d] = slot[d] \/ Serves(slot'[d])
    BY <1>4, Blanks DEF CommitUnlink, TypeOK
  <2>2. \A s \in Subject : identity'[s] \in {identity[s], None}
    BY <1>4 DEF CommitUnlink, TypeOK
  <2> QED
    BY <1>4, <2>1, <2>2, SameLinks DEF CommitUnlink
<1>5. ASSUME NEW b \in Browser,
             \/ \E u \in User : SignIn(b, u)
             \/ SignOut(b)
      PROVE  LinkInv'
  <2>1. \A d \in Browser : token'[d] = token[d] \/ token'[d].subject = None
    BY <1>5, Blanks DEF SignIn, SignOut, TypeOK
  <2> QED
    BY <1>5, <2>1, SameLinks DEF SignIn, SignOut
<1>6. ASSUME NEW b \in Browser, DeletePasskey(b) \/ RegisterPasskey(b) \/ IdpSignIn(b)
      PROVE  LinkInv'
  BY <1>6, SameLinks DEF DeletePasskey, RegisterPasskey, IdpSignIn
<1>7. ASSUME NEW u \in User, SetActive(u) \/ DeleteUser(u)
      PROVE  LinkInv'
  <2>1. CASE SetActive(u)
    BY <2>1, SameLinks DEF SetActive
  <2>2. CASE DeleteUser(u)
    <3>1. \A t \in Trip : ticket'[t] = ticket[t] \/ ticket'[t].user = None
      BY <2>2, Blanks DEF DeleteUser
    <3>2. \A s \in Subject : identity'[s] \in {identity[s], None}
      BY <2>2 DEF DeleteUser
    <3>3. \A c \in Request : slot'[c] = slot[c] \/ Serves(slot'[c])
      <4>1. \A c \in Request : Serves(slot[c])
        BY DEF LinkInv
      <4> QED
        BY <2>2, <4>1, ForgottenTypes DEF Serves, Callbacks
    <3> QED
      BY <2>2, <3>1, <3>2, <3>3, SameLinks DEF DeleteUser
  <2> QED
    BY <1>7, <2>1, <2>2
<1>8. ASSUME NEW w \in Worker,
             BeginRound(w) \/ RosterAnswers(w) \/ WrongTenant(w) \/ RosterFails(w)
      PROVE  LinkInv'
  BY <1>8, SameLinks DEF BeginRound, RosterAnswers, WrongTenant, AskRoster, RosterFails
<1>9. ASSUME NEW w \in Worker, CommitRound(w)
      PROVE  LinkInv'
  <2>1. \A s \in Subject : identity'[s] \in {identity[s], None}
    BY <1>9 DEF CommitRound
  <2> QED
    BY <1>9, <2>1, SameLinks DEF CommitRound
<1>10. CASE (\E s \in Subject : ProviderDecides(s)) \/ Tick \/ UNCHANGED vars
  BY <1>10, SameLinks DEF ProviderDecides, Tick, vars
<1> QED
  BY <1>1, <1>2, <1>3, <1>4, <1>5, <1>6, <1>7, <1>8, <1>9, <1>10, CallbackLinks, ExchangeLinks
     DEF Next

-----------------------------------------------------------------------------
(* Nobody is left without an entrance.                                       *)

\* An account has a way in besides links, or an excuse.
HasEntrance(u) == HasOtherEntrance(u) \/ u \in excused

\* Links are of accounts that exist, and so are planned unlinkings, which have looked for
\* another entrance.
EntranceInv ==
    /\ KeepsAnEntrance
    /\ \A s \in Subject, u \in User : identity[s] = u => account[u].exists
    /\ \A c \in Request, u \in User : slot[c].op = "unlink" /\ slot[c].user = u =>
          account[u].exists /\ HasEntrance(u)

\* What a step may do: an account that stays keeps its entrances, one that is new has a
\* link, whoever loses a link has another entrance, and links and plans are of accounts that
\* exist.
LEMMA SameEntrances ==
    ASSUME EntranceInv,
           \A u \in User : account[u].exists /\ account'[u].exists /\ HasEntrance(u)
               => HasEntrance(u)',
           \A u \in User : account'[u].exists =>
               account[u].exists \/ \E s \in Subject : identity'[s] = u,
           \A s \in Subject, u \in User : identity[s] = u /\ account'[u].exists =>
               identity'[s] = u \/ HasEntrance(u)',
           \A s \in Subject, u \in User : identity'[s] = u => account'[u].exists,
           \A c \in Request, u \in User : slot'[c].op = "unlink" /\ slot'[c].user = u =>
               account'[u].exists /\ (slot'[c] = slot[c] \/ HasEntrance(u)')
    PROVE  EntranceInv'
<1>1. ASSUME NEW u \in User, account'[u].exists, u \notin Local, ~account'[u].passkey,
             \A s \in Subject : identity'[s] # u
      PROVE  u \in excused'
  <2>1. account[u].exists
    BY <1>1
  <2>2. CASE \E s \in Subject : identity[s] = u
    <3>1. HasEntrance(u)'
      BY <1>1, <2>2
    <3> QED
      BY <1>1, <3>1 DEF HasEntrance, HasOtherEntrance
  <2>3. CASE \A s \in Subject : identity[s] # u
    <3>1. HasEntrance(u)
      BY <2>1, <2>3 DEF EntranceInv, KeepsAnEntrance, LinksOf, HasEntrance, HasOtherEntrance
    <3>2. HasEntrance(u)'
      BY <1>1, <2>1, <3>1
    <3> QED
      BY <1>1, <3>2 DEF HasEntrance, HasOtherEntrance
  <2> QED
    BY <2>2, <2>3
<1>2. KeepsAnEntrance'
  BY <1>1 DEF KeepsAnEntrance, LinksOf
<1>3. ASSUME NEW c \in Request, NEW u \in User, slot'[c].op = "unlink", slot'[c].user = u
      PROVE  account'[u].exists /\ HasEntrance(u)'
  <2>1. CASE slot'[c] = slot[c]
    <3>1. account[u].exists /\ HasEntrance(u)
      BY <1>3, <2>1 DEF EntranceInv
    <3>2. account'[u].exists
      BY <1>3
    <3> QED
      BY <3>1, <3>2
  <2> QED
    BY <1>3, <2>1
<1>4. \A s \in Subject, u \in User : (identity[s] = u => account[u].exists)'
  OBVIOUS
<1> QED
  BY <1>2, <1>3, <1>4 DEF EntranceInv

LEMMA InitEntrances ==
    ASSUME Init
    PROVE  EntranceInv
<1>1. PICK keys \in SUBSET Local, old \in SUBSET Subject :
         /\ account = [u \in User |-> [exists |-> u \in Local \cup {Home[s] : s \in old},
                                     active |-> TRUE, passkey |-> u \in keys]]
         /\ identity = [s \in Subject |-> IF s \in old THEN Home[s] ELSE None]
  BY DEF Init
<1>2. ASSUME NEW u \in User
      PROVE  account[u].exists <=> u \in Local \cup {Home[s] : s \in old}
  BY <1>1
<1>3. KeepsAnEntrance
  <2>1. ASSUME NEW u \in User, account[u].exists, u \notin Local
        PROVE  LinksOf(u) # {}
    <3>1. PICK s \in old : u = Home[s]
      BY <1>2, <2>1
    <3>2. identity[s] = u
      BY <1>1, <3>1
    <3> QED
      BY <3>1, <3>2 DEF LinksOf
  <2> QED
    BY <2>1 DEF KeepsAnEntrance
<1>4. \A s \in Subject, u \in User : identity[s] = u => account[u].exists
  BY <1>1, <1>2, FederationAssumption
<1>5. \A c \in Request : slot[c].op # "unlink"
  BY DEF Init, Idle
<1> QED
  BY <1>3, <1>4, <1>5 DEF EntranceInv

\* Steps that touch neither accounts nor links, and plan no unlinking.
LEMMA QuietEntrances ==
    ASSUME EntranceInv, UNCHANGED <<account, identity, excused>>,
           \A c \in Request : slot'[c] = slot[c] \/ slot'[c].op # "unlink"
    PROVE  EntranceInv'
<1>1. \A u \in User : HasEntrance(u) => HasEntrance(u)'
  BY DEF HasEntrance, HasOtherEntrance
<1>2. \A c \in Request, u \in User : slot'[c].op = "unlink" /\ slot'[c].user = u =>
          account'[u].exists /\ slot'[c] = slot[c]
  BY DEF EntranceInv
<1>3. \A s \in Subject, u \in User : identity'[s] = u => account'[u].exists
  BY DEF EntranceInv
<1> QED
  BY <1>1, <1>2, <1>3, SameEntrances

LEMMA CallbackEntrances ==
    ASSUME TypeOK, LinkInv, EntranceInv, NEW c \in Request, CommitCallback(c)
    PROVE  EntranceInv'
<1> DEFINE s == slot[c].subject
           u == slot[c].user
<1>1. excused' = excused /\ slot' = [slot EXCEPT ![c] = Idle]
  BY DEF CommitCallback, history, Enter, Welcome, Link, Refuse, Burn, Late, Spoilt, Answer
<1>2. \A d \in Request : slot'[d] = slot[d] \/ slot'[d].op # "unlink"
  BY <1>1 DEF TypeOK, Idle
<1>3. CASE Enter(c) \/ Refuse(c) \/ Burn(c) \/ Late(c) \/ Spoilt(c)
  BY <1>1, <1>2, <1>3, QuietEntrances DEF Enter, Refuse, Burn, Late, Spoilt, links
<1>4. CASE Welcome(c) \/ Link(c)
  <2>1. slot[c].op \in Callbacks \ {"burn"}
    BY <1>4 DEF Welcome, Link, Callbacks
  <2>2. s \in Subject /\ u \in User
    BY <2>1 DEF LinkInv, Serves, Callbacks
  <2>3. identity[s] = None /\ identity' = [identity EXCEPT ![s] = u]
    BY <1>4 DEF Welcome, Link, Insert
  <2>4. \/ account' = account /\ account[u].exists
        \/ /\ ~account[u].exists
           /\ account' = [account EXCEPT ![u] = [exists |-> TRUE, active |-> TRUE, passkey |-> FALSE]]
    BY <1>4 DEF Welcome, Link
  <2> HIDE DEF s, u
  <2>5. account'[u].exists /\ \A v \in User \ {u} : account'[v] = account[v]
    BY <2>2, <2>4 DEF TypeOK
  <2>6. ASSUME NEW v \in User, account[v].exists
        PROVE  account'[v] = account[v] /\ account'[v].exists
    BY <2>4, <2>5, <2>6
  <2>7. ASSUME NEW v \in User, account[v].exists, HasEntrance(v)
        PROVE  HasEntrance(v)'
    BY <1>1, <2>6, <2>7 DEF HasEntrance, HasOtherEntrance
  <2>8. \A v \in User : account'[v].exists => account[v].exists \/ \E x \in Subject : identity'[x] = v
    BY <2>2, <2>3, <2>5 DEF TypeOK
  <2>9. \A x \in Subject, v \in User : identity[x] = v => identity'[x] = v
    BY <2>3, FederationAssumption DEF TypeOK
  <2>10. \A x \in Subject, v \in User : identity'[x] = v => account'[v].exists
    BY <2>2, <2>3, <2>5, <2>6 DEF EntranceInv, TypeOK
  <2>11. \A d \in Request, v \in User : slot'[d].op = "unlink" /\ slot'[d].user = v =>
             account'[v].exists /\ slot'[d] = slot[d]
    BY <1>2, <2>6 DEF EntranceInv
  <2> QED
    BY <2>7, <2>8, <2>9, <2>10, <2>11, SameEntrances
<1> QED
  BY <1>3, <1>4 DEF CommitCallback

LEMMA BeginEntrances ==
    ASSUME TypeOK, EntranceInv, NEW c \in Request,
           \/ \E t \in Trip : BeginCallback(c, t) \/ BeginExchange(c, t)
           \/ \E b \in Browser : BeginUnlink(c, b)
    PROVE  EntranceInv'
<1> USE DEF tables, links, history
<1>1. ASSUME NEW t \in Trip, BeginExchange(c, t)
      PROVE  EntranceInv'
  <2>1. \A d \in Request : slot'[d] = slot[d] \/ slot'[d].op = "exchange"
    BY <1>1 DEF BeginExchange, TypeOK
  <2> QED
    BY <1>1, <2>1, QuietEntrances DEF BeginExchange
<1>2. ASSUME NEW t \in Trip, BeginCallback(c, t)
      PROVE  EntranceInv'
  <2> DEFINE b == trip[t].browser
             s == answer[t]
  <2>1. slot' = [slot EXCEPT ![c] = [op |-> Decision(t, b, s).do, trip |-> t, subject |-> s,
                                     user |-> Decision(t, b, s).user, browser |-> b]]
    BY <1>2 DEF BeginCallback
  <2>2. Decision(t, b, s).do # "unlink"
    BY DEF Decision, LinkDecision, LoginDecision
  <2> HIDE DEF b, s
  <2>3. \A d \in Request : slot'[d] = slot[d] \/ slot'[d].op # "unlink"
    BY <2>1, <2>2 DEF TypeOK
  <2> QED
    BY <1>2, <2>3, QuietEntrances DEF BeginCallback
<1>3. ASSUME NEW b \in Browser, BeginUnlink(c, b)
      PROVE  EntranceInv'
  <2>1. PICK u : u = Viewer(b)
    OBVIOUS
  <2>2. u # None /\ HasOtherEntrance(u) /\ UNCHANGED <<account, identity, excused>>
    BY <1>3, <2>1 DEF BeginUnlink
  <2>3. PICK s \in LinksOf(u) :
         slot' = [slot EXCEPT ![c] =
                   [op |-> "unlink", trip |-> None, subject |-> s, user |-> u, browser |-> b]]
    BY <1>3, <2>1 DEF BeginUnlink
  <2>4. u \in User /\ account[u].exists
    BY <2>2, <2>3 DEF LinksOf, EntranceInv, TypeOK
  <2>5. \A v \in User : HasEntrance(v) => HasEntrance(v)'
    BY <2>2 DEF HasEntrance, HasOtherEntrance
  <2>6. account'[u].exists /\ HasEntrance(u)'
    BY <2>2, <2>4, <2>5 DEF HasEntrance
  <2>7. \A d \in Request : slot'[d] = slot[d] \/ slot'[d].user = u
    BY <2>3 DEF TypeOK
  <2>8. \A d \in Request, v \in User : slot'[d].op = "unlink" /\ slot'[d].user = v =>
            account'[v].exists /\ (slot'[d] = slot[d] \/ HasEntrance(v)')
    BY <2>2, <2>6, <2>7 DEF EntranceInv
  <2>9. \A x \in Subject, v \in User : identity'[x] = v => account'[v].exists
    BY <2>2 DEF EntranceInv
  <2> QED
    BY <2>2, <2>5, <2>8, <2>9, SameEntrances
<1> QED
  BY <1>1, <1>2, <1>3

LEMMA UnlinkEntrances ==
    ASSUME TypeOK, LinkInv, EntranceInv, NEW c \in Request, CommitUnlink(c)
    PROVE  EntranceInv'
<1>1. PICK s \in Subject, u \in User \cup {None} : s = slot[c].subject /\ u = slot[c].user
  BY DEF CommitUnlink, LinkInv, Serves, TypeOK, Call
<1>2. /\ slot[c].op = "unlink" /\ slot' = [slot EXCEPT ![c] = Idle] /\ account' = account
      /\ identity' = [identity EXCEPT ![s] = None]
      /\ excused' = excused \cup ({identity[s]} \ {None, u})
  BY <1>1 DEF CommitUnlink
<1>3. u \in User => HasEntrance(u)
  BY <1>1, <1>2 DEF EntranceInv
<1>4. ASSUME NEW v \in User, HasEntrance(v)
      PROVE  HasEntrance(v)'
  BY <1>2, <1>4 DEF HasEntrance, HasOtherEntrance
<1>5. ASSUME NEW x \in Subject, NEW v \in User, identity[x] = v
      PROVE  identity'[x] = v \/ HasEntrance(v)'
  <2>1. CASE x # s
    BY <1>2, <1>5, <2>1 DEF TypeOK
  <2>2. CASE x = s /\ v = u
    BY <1>3, <1>4, <2>2
  <2>3. CASE x = s /\ v # u
    BY <1>2, <1>5, <2>3, FederationAssumption DEF HasEntrance
  <2> QED
    BY <2>1, <2>2, <2>3
<1>6. \A x \in Subject, v \in User : identity'[x] = v => account'[v].exists
  BY <1>2, FederationAssumption DEF EntranceInv, TypeOK
<1>7. \A d \in Request, v \in User : slot'[d].op = "unlink" /\ slot'[d].user = v =>
          account'[v].exists /\ slot'[d] = slot[d]
  BY <1>2 DEF EntranceInv, TypeOK, Idle
<1> QED
  BY <1>2, <1>4, <1>5, <1>6, <1>7, SameEntrances

LEMMA PeopleEntrances ==
    ASSUME TypeOK, EntranceInv,
           \/ \E b \in Browser : DeletePasskey(b) \/ RegisterPasskey(b)
           \/ \E u \in User : SetActive(u) \/ DeleteUser(u)
    PROVE  EntranceInv'
<1> USE DEF tables, links, browsers, history
<1>1. ASSUME NEW v \in User, NEW x,
             \/ x = [account[v] EXCEPT !.passkey = FALSE]
             \/ x = [account[v] EXCEPT !.passkey = TRUE]
             \/ x = [account[v] EXCEPT !.active = ~@]
      PROVE  /\ x.exists = account[v].exists
             /\ x.passkey = account[v].passkey \/ x = [account[v] EXCEPT !.passkey = FALSE]
                \/ x.passkey
  BY <1>1 DEF TypeOK, Account
<1>2. ASSUME NEW u \in User, UNCHANGED <<identity, slot>>, NEW x,
             account' = [account EXCEPT ![u] = x], x.exists = account[u].exists,
             excused \subseteq excused',
             x.passkey \/ x.passkey = account[u].passkey \/ u \in excused'
      PROVE  EntranceInv'
  <2>1. ASSUME NEW v \in User
        PROVE  /\ account'[v].exists = account[v].exists
               /\ HasEntrance(v) => HasEntrance(v)'
    BY <1>2 DEF HasEntrance, HasOtherEntrance, TypeOK
  <2>2. \A c \in Request, v \in User : slot'[c].op = "unlink" /\ slot'[c].user = v =>
            account'[v].exists /\ slot'[c] = slot[c]
    BY <1>2, <2>1 DEF EntranceInv
  <2>3. \A s \in Subject, v \in User : identity'[s] = v => account'[v].exists
    BY <1>2, <2>1 DEF EntranceInv
  <2> QED
    BY <1>2, <2>1, <2>2, <2>3, SameEntrances
<1>3. ASSUME NEW b \in Browser, DeletePasskey(b)
      PROVE  EntranceInv'
  <2>1. PICK u \in User : u = Viewer(b)
    BY <1>3, ViewerTypes DEF DeletePasskey
  <2>2. PICK x : x = [account[u] EXCEPT !.passkey = FALSE]
    OBVIOUS
  <2>3. account' = [account EXCEPT ![u] = x] /\ excused' = excused \cup {u}
        /\ UNCHANGED <<identity, slot>>
    BY <1>3, <2>1, <2>2 DEF DeletePasskey
  <2> QED
    BY <1>1, <1>2, <2>2, <2>3
<1>4. ASSUME NEW b \in Browser, RegisterPasskey(b)
      PROVE  EntranceInv'
  <2>1. PICK u \in User : u = Viewer(b)
    BY <1>4, ViewerTypes DEF RegisterPasskey
  <2>2. PICK x : x = [account[u] EXCEPT !.passkey = TRUE]
    OBVIOUS
  <2>3. account' = [account EXCEPT ![u] = x] /\ UNCHANGED <<identity, slot, excused>>
    BY <1>4, <2>1, <2>2 DEF RegisterPasskey
  <2>4. x.passkey /\ x.exists = account[u].exists
    BY <2>2 DEF TypeOK, Account
  <2> QED
    BY <1>2, <2>3, <2>4
<1>5. ASSUME NEW u \in User, SetActive(u)
      PROVE  EntranceInv'
  <2>1. PICK x : x = [account[u] EXCEPT !.active = ~@]
    OBVIOUS
  <2>2. account' = [account EXCEPT ![u] = x] /\ UNCHANGED <<identity, slot, excused>>
    BY <1>5, <2>1 DEF SetActive
  <2>3. x.passkey = account[u].passkey /\ x.exists = account[u].exists
    BY <2>1 DEF TypeOK, Account
  <2> QED
    BY <1>2, <2>2, <2>3
<1>6. ASSUME NEW u \in User, DeleteUser(u)
      PROVE  EntranceInv'
  <2>1. /\ account' = [account EXCEPT ![u] = [exists |-> FALSE, active |-> TRUE, passkey |-> FALSE]]
        /\ identity' = [s \in Subject |-> IF identity[s] = u THEN None ELSE identity[s]]
        /\ excused' = excused \ {u}
    BY <1>6 DEF DeleteUser
  <2>2. ~account'[u].exists /\ \A v \in User \ {u} : account'[v] = account[v]
    BY <2>1 DEF TypeOK
  <2>3. ASSUME NEW v \in User, account'[v].exists, HasEntrance(v)
        PROVE  HasEntrance(v)'
    BY <2>1, <2>2, <2>3 DEF HasEntrance, HasOtherEntrance
  <2>4. \A s \in Subject, v \in User : identity'[s] = v =>
            v # u /\ identity[s] = v /\ account'[v].exists
    BY <2>1, <2>2, FederationAssumption DEF EntranceInv
  <2>5. \A s \in Subject, v \in User : identity[s] = v /\ account'[v].exists => identity'[s] = v
    BY <2>1, <2>2
  <2>6. \A c \in Request, v \in User : slot'[c].op = "unlink" /\ slot'[c].user = v =>
            account'[v].exists /\ slot'[c] = slot[c]
    BY <1>6, <2>2, ForgottenTypes, FederationAssumption DEF EntranceInv
  <2> QED
    BY <2>2, <2>3, <2>4, <2>5, <2>6, SameEntrances
<1> QED
  BY <1>3, <1>4, <1>5, <1>6

LEMMA RoundEntrances ==
    ASSUME TypeOK, EntranceInv, NEW w \in Worker, CommitRound(w)
    PROVE  EntranceInv'
<1>1. UNCHANGED <<account, slot>>
  BY DEF CommitRound
<1>2. \/ UNCHANGED <<identity, excused>>
      \/ /\ identity' = [s \in Subject |-> IF s \in round[w].drop THEN None ELSE identity[s]]
         /\ excused' = excused \cup {identity[s] : s \in round[w].drop \cap Linked}
  BY DEF CommitRound
<1>3. \A u \in User : HasEntrance(u) => HasEntrance(u)'
  BY <1>1, <1>2 DEF HasEntrance, HasOtherEntrance
<1>4. \A s \in Subject, u \in User : identity'[s] = u => account'[u].exists
  BY <1>1, <1>2, FederationAssumption DEF EntranceInv
<1>5. ASSUME NEW s \in Subject, NEW u \in User, identity[s] = u
      PROVE  identity'[s] = u \/ HasEntrance(u)'
  BY <1>2, <1>5, FederationAssumption DEF HasEntrance, Linked
<1>6. \A c \in Request, u \in User : slot'[c].op = "unlink" /\ slot'[c].user = u =>
          account'[u].exists /\ slot'[c] = slot[c]
  BY <1>1 DEF EntranceInv
<1> QED
  BY <1>1, <1>3, <1>4, <1>5, <1>6, SameEntrances

LEMMA StepEntrances ==
    ASSUME TypeOK, LinkInv, EntranceInv, [Next]_vars
    PROVE  EntranceInv'
<1> USE DEF tables, links, history
<1>1. CASE \/ \E t \in Trip, b \in Browser, k \in Kind : Start(b, t, k)
           \/ \E t \in Trip : ProviderAnswers(t) \/ Declined(t)
           \/ \E b \in Browser : (\E u \in User : SignIn(b, u)) \/ SignOut(b) \/ IdpSignIn(b)
  BY <1>1, QuietEntrances DEF Start, ProviderAnswers, Declined, SignIn, SignOut, IdpSignIn
<1>2. ASSUME NEW c \in Request, CommitExchange(c)
      PROVE  EntranceInv'
  <2>1. \A d \in Request : slot'[d] = slot[d] \/ slot'[d].op # "unlink"
    BY <1>2 DEF CommitExchange, TypeOK, Idle
  <2> QED
    BY <1>2, <2>1, QuietEntrances DEF CommitExchange
<1>3. ASSUME NEW w \in Worker,
             BeginRound(w) \/ RosterAnswers(w) \/ WrongTenant(w) \/ RosterFails(w)
      PROVE  EntranceInv'
  BY <1>3, QuietEntrances DEF BeginRound, RosterAnswers, WrongTenant, AskRoster, RosterFails
<1>4. CASE (\E s \in Subject : ProviderDecides(s)) \/ Tick \/ UNCHANGED vars
  BY <1>4, QuietEntrances DEF ProviderDecides, Tick, vars
<1> QED
  BY <1>1, <1>2, <1>3, <1>4, CallbackEntrances, BeginEntrances, UnlinkEntrances, PeopleEntrances,
     RoundEntrances DEF Next

-----------------------------------------------------------------------------
(* Stops arrive.                                                             *)

\* When the provider last let a subject in, as far as trips are concerned.
LastAllowed(s) == IF roster[s] = "allowed" THEN now ELSE stopped[s]

\* A trip, its ticket and its token run out in due time after the subject was let in last,
\* and a request that is served hands on what was in time.
StopInv ==
    /\ \A s \in Subject : stopped[s] <= now
    /\ \A t \in Trip : trip[t].at # "new" => trip[t].until <= now + TripTTL
    /\ \A t \in Trip, s \in Subject : answer[t] = s =>
          trip[t].at # "new" /\ trip[t].until <= LastAllowed(s) + TripTTL
    /\ \A t \in Trip, s \in Subject : ticket[t].user # None /\ ticket[t].subject = s =>
          ticket[t].until <= LastAllowed(s) + TripTTL + TicketTTL - 1
    /\ \A b \in Browser, s \in Subject : token[b].subject = s =>
          token[b].until <= LastAllowed(s) + TripTTL + TicketTTL + TokenLife - 2
    /\ \A c \in Request : slot[c].op \in Callbacks =>
          answer[slot[c].trip] = slot[c].subject /\ now < trip[slot[c].trip].until
    /\ \A c \in Request : slot[c].op = "exchange" =>
          /\ trip[slot[c].trip].at = "used"
          /\ ticket[slot[c].trip].user # None => ticket[slot[c].trip].subject = slot[c].subject

LEMMA AtMostLater ==
    ASSUME NEW x \in Int, NEW a \in Int, NEW b \in Int, NEW d \in Int, x <= a + d, a <= b
    PROVE  x <= b + d
OBVIOUS

LEMMA NextDeadline ==
    ASSUME NEW x \in Int, NEW n \in Int, NEW until \in Int, NEW a \in Int, NEW d \in Int, NEW life \in Int,
           n < until, until <= a + d, x = n + life
    PROVE  x <= a + (d + life - 1)
OBVIOUS

LEMMA LastDeadline ==
    ASSUME NEW n \in Int, NEW until \in Int, NEW a \in Int, NEW d \in Int,
           n < until, until <= a + d - 2
    PROVE  n - a <= d - 3
OBVIOUS

LEMMA Sums ==
    ASSUME NEW a \in Int, NEW x \in Int, NEW y \in Int, NEW z \in Int
    PROVE  /\ a + x + y - 1 = a + (x + y - 1)
           /\ a + x + y + z - 2 = a + ((x + y - 1) + z - 1)
           /\ a + x + y + z - 2 = a + (x + y + z) - 2
OBVIOUS

LEMMA AllNumbers ==
    /\ \A x \in Time : x \in Int
    /\ \A x \in TripRow \cup Token : x.until \in Int
    /\ TripTTL \in Int /\ TicketTTL \in Int /\ TokenLife \in Int
<1>1. (\A x \in Time : x \in Int) /\ (\A x \in Later : x \in Int)
  BY FederationAssumption DEF Time, Later
<1>2. \A x \in TripRow \cup Token : x.until \in Later
  BY DEF TripRow, Token
<1> QED
  BY <1>1, <1>2, FederationAssumption

LEMMA Numbers ==
    ASSUME TypeOK
    PROVE  /\ now \in Int
           /\ \A s \in Subject : stopped[s] \in Int /\ LastAllowed(s) \in Int
           /\ \A t \in Trip : trip[t].until \in Int /\ ticket[t].until \in Int
           /\ \A b \in Browser : token[b].until \in Int
BY AllNumbers DEF TypeOK, LastAllowed

LEMMA NumbersNext ==
    ASSUME TypeOK'
    PROVE  /\ now' \in Int
           /\ \A s \in Subject : LastAllowed(s)' \in Int
           /\ \A t \in Trip : trip'[t].until \in Int /\ ticket'[t].until \in Int
           /\ \A b \in Browser : token'[b].until \in Int
BY AllNumbers DEF TypeOK, LastAllowed

\* The actions that may change a deadline, or what it depends on.
LEMMA ClockSteps ==
    ASSUME [Next]_vars
    PROVE  \/ UNCHANGED <<now, roster, stopped>>
           \/ Tick
           \/ \E s \in Subject : ProviderDecides(s)
<1> USE DEF tables, links, browsers, provider, history
<1>1. ASSUME NEW c \in Request, CommitCallback(c) \/ CommitExchange(c) \/ CommitUnlink(c)
      PROVE  UNCHANGED <<now, roster, stopped>>
  BY <1>1 DEF CommitCallback, CommitExchange, CommitUnlink
<1>2. ASSUME NEW w \in Worker,
             BeginRound(w) \/ RosterAnswers(w) \/ WrongTenant(w) \/ RosterFails(w) \/ CommitRound(w)
      PROVE  UNCHANGED <<now, roster, stopped>>
  BY <1>2 DEF BeginRound, RosterAnswers, WrongTenant, AskRoster, RosterFails, CommitRound
<1>3. CASE \/ \E t \in Trip, b \in Browser, k \in Kind : Start(b, t, k)
           \/ \E t \in Trip : ProviderAnswers(t) \/ Declined(t)
           \/ \E c \in Request, t \in Trip : BeginCallback(c, t) \/ BeginExchange(c, t)
           \/ \E c \in Request, b \in Browser : BeginUnlink(c, b)
  BY <1>3 DEF Start, ProviderAnswers, Declined, BeginCallback, BeginExchange, BeginUnlink
<1>4. CASE \/ \E b \in Browser :
                \/ \E u \in User : SignIn(b, u)
                \/ SignOut(b) \/ DeletePasskey(b) \/ RegisterPasskey(b) \/ IdpSignIn(b)
           \/ \E u \in User : SetActive(u) \/ DeleteUser(u)
  BY <1>4 DEF SignIn, SignOut, DeletePasskey, RegisterPasskey, IdpSignIn, SetActive, DeleteUser
<1>5. CASE UNCHANGED vars
  BY <1>5 DEF vars
<1> QED
  BY <1>1, <1>2, <1>3, <1>4, <1>5 DEF Next

LEMMA DeadlineSteps ==
    ASSUME [Next]_vars
    PROVE  \/ UNCHANGED <<trip, answer, ticket, token>>
           \/ \E t \in Trip, b \in Browser, k \in Kind : Start(b, t, k)
           \/ \E t \in Trip : ProviderAnswers(t)
           \/ \E c \in Request : CommitCallback(c) \/ CommitExchange(c)
           \/ \E b \in Browser : (\E u \in User : SignIn(b, u)) \/ SignOut(b)
           \/ \E u \in User : DeleteUser(u)
<1> USE DEF tables, links, browsers, provider, history
<1>1. ASSUME NEW w \in Worker,
             BeginRound(w) \/ RosterAnswers(w) \/ WrongTenant(w) \/ RosterFails(w) \/ CommitRound(w)
      PROVE  UNCHANGED <<trip, answer, ticket, token>>
  BY <1>1 DEF BeginRound, RosterAnswers, WrongTenant, AskRoster, RosterFails, CommitRound
<1>2. CASE \/ \E t \in Trip : Declined(t)
           \/ \E c \in Request, t \in Trip : BeginCallback(c, t) \/ BeginExchange(c, t)
           \/ \E c \in Request, b \in Browser : BeginUnlink(c, b)
           \/ \E c \in Request : CommitUnlink(c)
  BY <1>2 DEF Declined, BeginCallback, BeginExchange, BeginUnlink, CommitUnlink
<1>3. CASE \/ \E b \in Browser : DeletePasskey(b) \/ RegisterPasskey(b) \/ IdpSignIn(b)
           \/ \E u \in User : SetActive(u)
           \/ \E s \in Subject : ProviderDecides(s)
           \/ Tick \/ UNCHANGED vars
  BY <1>3 DEF DeletePasskey, RegisterPasskey, IdpSignIn, SetActive, ProviderDecides, Tick, vars
<1> QED
  BY <1>1, <1>2, <1>3 DEF Next

LEMMA SlotSteps ==
    ASSUME TypeOK, [Next]_vars, NEW c \in Request
    PROVE  \/ slot'[c] = slot[c]
           \/ \E t \in Trip : BeginCallback(c, t) \/ BeginExchange(c, t)
           \/ slot'[c].op \in {"idle", "unlink"}
<1> USE DEF tables, links, browsers, provider, history
<1>1. ASSUME NEW w \in Worker,
             BeginRound(w) \/ RosterAnswers(w) \/ WrongTenant(w) \/ RosterFails(w) \/ CommitRound(w)
      PROVE  slot' = slot
  BY <1>1 DEF BeginRound, RosterAnswers, WrongTenant, AskRoster, RosterFails, CommitRound
<1>2. ASSUME NEW d \in Request, CommitCallback(d) \/ CommitExchange(d) \/ CommitUnlink(d)
      PROVE  slot'[c] = slot[c] \/ slot'[c].op = "idle"
  <2>1. slot' = [slot EXCEPT ![d] = Idle]
    BY <1>2 DEF CommitCallback, CommitExchange, CommitUnlink, Enter, Welcome, Link, Refuse, Burn,
       Late, Spoilt, Answer
  <2> QED
    BY <2>1 DEF TypeOK, Idle
<1>3. ASSUME NEW d \in Request, NEW t \in Trip, BeginCallback(d, t) \/ BeginExchange(d, t)
      PROVE  slot'[c] = slot[c] \/ c = d
  BY <1>3 DEF BeginCallback, BeginExchange, TypeOK
<1>4. ASSUME NEW d \in Request, NEW b \in Browser, BeginUnlink(d, b)
      PROVE  slot'[c] = slot[c] \/ slot'[c].op = "unlink"
  BY <1>4 DEF BeginUnlink, TypeOK
<1>5. ASSUME NEW u \in User, DeleteUser(u)
      PROVE  slot'[c] = slot[c] \/ slot'[c].op = "unlink"
  BY <1>5, ForgottenTypes
<1>6. CASE \/ \E t \in Trip, b \in Browser, k \in Kind : Start(b, t, k)
           \/ \E t \in Trip : ProviderAnswers(t) \/ Declined(t)
           \/ \E b \in Browser :
                \/ \E u \in User : SignIn(b, u)
                \/ SignOut(b) \/ DeletePasskey(b) \/ RegisterPasskey(b) \/ IdpSignIn(b)
           \/ \E u \in User : SetActive(u)
           \/ \E s \in Subject : ProviderDecides(s)
           \/ Tick \/ UNCHANGED vars
  BY <1>6 DEF Start, ProviderAnswers, Declined, SignIn, SignOut, DeletePasskey, RegisterPasskey,
     IdpSignIn, SetActive, ProviderDecides, Tick, vars
<1> QED
  BY <1>1, <1>2, <1>3, <1>4, <1>5, <1>6 DEF Next

\* What is known of the calendar: it goes on, and so does the time of being let in last.
LEMMA ClockGoesOn ==
    ASSUME TypeOK, TypeOK', [Next]_vars, \A s \in Subject : stopped[s] <= now
    PROVE  /\ now <= now'
           /\ \A s \in Subject : stopped'[s] <= now' /\ LastAllowed(s) <= LastAllowed(s)'
<1>1. now \in Int /\ \A s \in Subject : stopped[s] \in Int
  BY Numbers
<1>2. CASE UNCHANGED <<now, roster, stopped>>
  BY <1>1, <1>2 DEF LastAllowed
<1>3. CASE Tick
  <2>1. now' = now + 1 /\ UNCHANGED <<roster, stopped>>
    BY <1>3 DEF Tick, provider
  <2> QED
    BY <1>1, <2>1 DEF LastAllowed
<1>4. ASSUME NEW x \in Subject, ProviderDecides(x)
      PROVE  /\ now <= now'
             /\ \A s \in Subject : stopped'[s] <= now' /\ LastAllowed(s) <= LastAllowed(s)'
  <2>1. now' = now
    BY <1>4 DEF ProviderDecides
  <2>2. ASSUME NEW s \in Subject, s # x
        PROVE  stopped'[s] = stopped[s] /\ roster'[s] = roster[s]
    BY <1>4, <2>2 DEF ProviderDecides, TypeOK
  <2>3. \/ roster[x] = "allowed" /\ roster'[x] # "allowed" /\ stopped'[x] = now
        \/ roster'[x] = "allowed" /\ stopped'[x] = stopped[x]
    BY <1>4 DEF ProviderDecides, TypeOK
  <2>4. ASSUME NEW s \in Subject
        PROVE  stopped'[s] <= now' /\ LastAllowed(s) <= LastAllowed(s)'
    <3>1. CASE s = x
      BY <1>1, <2>1, <2>3, <3>1 DEF LastAllowed
    <3>2. CASE s # x
      BY <1>1, <2>1, <2>2, <3>2 DEF LastAllowed
    <3> QED
      BY <3>1, <3>2
  <2> QED
    BY <1>1, <2>1, <2>4
<1> QED
  BY <1>2, <1>3, <1>4, ClockSteps

\* A trip that has left never leaves again.
LEMMA TripSteps ==
    ASSUME TypeOK, [Next]_vars, NEW t \in Trip
    PROVE  \/ trip'[t] = trip[t]
           \/ trip[t].at = "new" /\ trip'[t].until = now + TripTTL
           \/ trip[t].at = "out" /\ trip'[t].at = "used" /\ trip'[t].until = trip[t].until
<1> USE DEF tables, links, browsers, provider, history
<1>1. ASSUME NEW x \in Trip, NEW b \in Browser, NEW k \in Kind, Start(b, x, k)
      PROVE  trip'[t] = trip[t] \/ (trip[t].at = "new" /\ trip'[t].until = now + TripTTL)
  BY <1>1 DEF Start, TypeOK
<1>2. ASSUME NEW c \in Request, CommitCallback(c)
      PROVE  \/ trip'[t] = trip[t]
             \/ trip[t].at = "out" /\ trip'[t].at = "used" /\ trip'[t].until = trip[t].until
  <2>1. \/ trip' = trip
        \/ trip[slot[c].trip].at = "out" /\ trip' = [trip EXCEPT ![slot[c].trip].at = "used"]
    BY <1>2 DEF CommitCallback, Enter, Welcome, Link, Refuse, Burn, Late, Spoilt, Consumed
  <2>2. \A y : y = [trip[t] EXCEPT !.at = "used"] => y.at = "used" /\ y.until = trip[t].until
    BY DEF TypeOK, TripRow
  <2> QED
    BY <2>1, <2>2 DEF TypeOK
<1>3. CASE \/ \E x \in Trip : ProviderAnswers(x)
           \/ \E c \in Request : CommitExchange(c)
           \/ \E b \in Browser : (\E u \in User : SignIn(b, u)) \/ SignOut(b)
           \/ \E u \in User : DeleteUser(u)
  BY <1>3 DEF ProviderAnswers, CommitExchange, SignIn, SignOut, DeleteUser
<1> QED
  BY <1>1, <1>2, <1>3, DeadlineSteps

LEMMA AnswerSteps ==
    ASSUME TypeOK, [Next]_vars, NEW t \in Trip
    PROVE  \/ answer'[t] = answer[t]
           \/ /\ answer[t] = None /\ trip[t].at # "new" /\ trip' = trip
              /\ roster[answer'[t]] = "allowed"
<1> USE DEF tables, links, browsers, provider, history
<1>1. ASSUME NEW x \in Trip, ProviderAnswers(x)
      PROVE  \/ answer'[t] = answer[t]
             \/ /\ answer[t] = None /\ trip[t].at # "new" /\ trip' = trip
                /\ roster[answer'[t]] = "allowed"
  BY <1>1 DEF ProviderAnswers, TypeOK
<1>2. CASE \/ \E x \in Trip, b \in Browser, k \in Kind : Start(b, x, k)
           \/ \E c \in Request : CommitCallback(c) \/ CommitExchange(c)
           \/ \E b \in Browser : (\E u \in User : SignIn(b, u)) \/ SignOut(b)
           \/ \E u \in User : DeleteUser(u)
  BY <1>2 DEF Start, CommitCallback, CommitExchange, SignIn, SignOut, DeleteUser
<1> QED
  BY <1>1, <1>2, DeadlineSteps

\* A ticket is for the subject that the provider has answered for its trip.
LEMMA TicketSteps ==
    ASSUME TypeOK, LinkInv, [Next]_vars, NEW t \in Trip
    PROVE  \/ ticket'[t] = ticket[t]
           \/ ticket'[t].user = None
           \/ \E c \in Request :
                 /\ slot[c].op \in Callbacks /\ slot[c].trip = t /\ trip[t].at = "out"
                 /\ ticket'[t].subject = slot[c].subject
                 /\ ticket'[t].until = now + TicketTTL
<1> USE DEF tables, links, browsers, provider, history
<1>1. ASSUME NEW c \in Request, CommitCallback(c)
      PROVE  \/ ticket'[t] = ticket[t]
             \/ /\ slot[c].op \in Callbacks /\ slot[c].trip = t /\ trip[t].at = "out"
                /\ ticket'[t].subject = slot[c].subject
                /\ ticket'[t].until = now + TicketTTL
  <2>1. \/ ticket' = ticket
        \/ /\ slot[c].op \in Callbacks /\ Consumed(slot[c].trip)
           /\ Issue(slot[c].trip, slot[c].user, slot[c].subject)
    BY <1>1 DEF CommitCallback, Enter, Welcome, Link, Refuse, Burn, Late, Spoilt, Callbacks
  <2> QED
    BY <2>1 DEF Consumed, Issue, TypeOK
<1>2. CASE \/ \E c \in Request : CommitExchange(c)
           \/ \E u \in User : DeleteUser(u)
  BY <1>2, Blanks DEF CommitExchange, DeleteUser, TypeOK
<1>3. CASE \/ \E x \in Trip, b \in Browser, k \in Kind : Start(b, x, k)
           \/ \E x \in Trip : ProviderAnswers(x)
           \/ \E b \in Browser : (\E u \in User : SignIn(b, u)) \/ SignOut(b)
  BY <1>3 DEF Start, ProviderAnswers, SignIn, SignOut
<1> QED
  BY <1>1, <1>2, <1>3, DeadlineSteps

LEMMA TokenSteps ==
    ASSUME TypeOK, LinkInv, [Next]_vars, NEW b \in Browser
    PROVE  \/ token'[b] = token[b]
           \/ token'[b].subject = None
           \/ \E c \in Request :
                 /\ slot[c].op = "exchange" /\ slot[c].trip \in Trip
                 /\ ticket[slot[c].trip].user # None /\ now < ticket[slot[c].trip].until
                 /\ token'[b].subject = slot[c].subject
                 /\ token'[b].until = now + TokenLife
<1> USE DEF tables, links, browsers, provider, history
<1>1. ASSUME NEW c \in Request, CommitExchange(c)
      PROVE  \/ token'[b] = token[b]
             \/ /\ slot[c].op = "exchange" /\ slot[c].trip \in Trip
                /\ ticket[slot[c].trip].user # None /\ now < ticket[slot[c].trip].until
                /\ token'[b].subject = slot[c].subject
                /\ token'[b].until = now + TokenLife
  <2>1. slot[c].op = "exchange" /\ slot[c].trip \in Trip
    BY <1>1 DEF CommitExchange, LinkInv, Serves
  <2>2. CASE ticket[slot[c].trip].user # None /\ ~TicketOver(slot[c].trip)
    <3>1. now < ticket[slot[c].trip].until
      BY <2>1, <2>2, Numbers DEF TicketOver
    <3> QED
      BY <1>1, <2>1, <2>2, <3>1 DEF CommitExchange, TypeOK
  <2>3. CASE ~(ticket[slot[c].trip].user # None /\ ~TicketOver(slot[c].trip))
    BY <1>1, <2>3 DEF CommitExchange
  <2> QED
    BY <2>2, <2>3
<1>2. ASSUME NEW d \in Browser, (\E u \in User : SignIn(d, u)) \/ SignOut(d)
      PROVE  token'[b] = token[b] \/ token'[b].subject = None
  BY <1>2, Blanks DEF SignIn, SignOut, TypeOK
<1>3. CASE \/ \E t \in Trip, d \in Browser, k \in Kind : Start(d, t, k)
           \/ \E t \in Trip : ProviderAnswers(t)
           \/ \E c \in Request : CommitCallback(c)
           \/ \E u \in User : DeleteUser(u)
  BY <1>3 DEF Start, ProviderAnswers, CommitCallback, DeleteUser
<1> QED
  BY <1>1, <1>2, <1>3, DeadlineSteps

LEMMA InitStops ==
    ASSUME Init
    PROVE  StopInv
<1>1. TypeOK
  BY InitTypes
<1>2. \A s \in Subject : stopped[s] <= now
  BY DEF Init
<1>3. \A t \in Trip : trip[t].at = "new" /\ answer[t] = None /\ ticket[t].user = None
  BY DEF Init, NoTrip, NoToken
<1>4. \A b \in Browser : token[b].subject = None
  BY DEF Init, NoToken
<1>5. \A c \in Request : slot[c].op = "idle"
  BY DEF Init, Idle
<1> QED
  BY <1>2, <1>3, <1>4, <1>5, FederationAssumption DEF StopInv, Callbacks

LEMMA StepStops ==
    ASSUME TypeOK, TypeOK', TripInv, LinkInv, StopInv, [Next]_vars
    PROVE  StopInv'
<1>1. /\ now <= now'
      /\ \A s \in Subject : stopped'[s] <= now' /\ LastAllowed(s) <= LastAllowed(s)'
  BY ClockGoesOn DEF StopInv
<1>2. /\ now \in Int /\ now' \in Int
      /\ TripTTL \in Int /\ TicketTTL \in Int /\ TokenLife \in Int
      /\ \A s \in Subject : LastAllowed(s) \in Int /\ LastAllowed(s)' \in Int
      /\ \A t \in Trip : trip[t].until \in Int /\ ticket[t].until \in Int
      /\ \A t \in Trip : trip'[t].until \in Int /\ ticket'[t].until \in Int
      /\ \A b \in Browser : token[b].until \in Int /\ token'[b].until \in Int
  BY AllNumbers, Numbers, NumbersNext
<1>3. ASSUME NEW x \in Int, NEW s \in Subject, NEW d \in Int, x <= LastAllowed(s) + d
      PROVE  x <= LastAllowed(s)' + d
  <2>1. LastAllowed(s) \in Int /\ LastAllowed(s)' \in Int /\ LastAllowed(s) <= LastAllowed(s)'
    BY <1>1, <1>2
  <2> QED
    BY <1>3, <2>1, AtMostLater
<1>4. ASSUME NEW t \in Trip, trip[t].at # "new"
      PROVE  trip'[t].at # "new" /\ trip'[t].until = trip[t].until
             /\ (trip[t].at = "used" => trip'[t].at = "used")
  BY <1>4, TripSteps
<1>5. ASSUME NEW t \in Trip, trip'[t].at # "new"
      PROVE  trip'[t].until <= now' + TripTTL
  <2>1. trip'[t].until <= now + TripTTL
    <3>1. CASE trip[t].at # "new"
      BY <1>4, <3>1 DEF StopInv
    <3>2. CASE trip[t].at = "new"
      <4>1. trip'[t].until = now + TripTTL
        BY <1>5, <3>2, TripSteps
      <4> QED
        BY <1>2, <4>1
    <3> QED
      BY <3>1, <3>2
  <2> QED
    BY <1>1, <1>2, <2>1, AtMostLater
<1>6. ASSUME NEW t \in Trip, NEW s \in Subject, answer'[t] = s
      PROVE  trip'[t].at # "new" /\ trip'[t].until <= LastAllowed(s)' + TripTTL
  <2>1. trip[t].at # "new" /\ trip[t].until <= LastAllowed(s) + TripTTL
    <3>1. CASE answer'[t] = answer[t]
      BY <1>6, <3>1 DEF StopInv
    <3>2. CASE trip[t].at # "new" /\ roster[s] = "allowed"
      <4>1. LastAllowed(s) = now
        BY <3>2 DEF LastAllowed
      <4> QED
        BY <3>2, <4>1 DEF StopInv
    <3> QED
      BY <1>6, <3>1, <3>2, AnswerSteps
  <2>2. trip[t].until <= LastAllowed(s)' + TripTTL
    BY <1>2, <1>3, <2>1
  <2> QED
    BY <1>4, <2>1, <2>2
<1>7. ASSUME NEW t \in Trip, NEW s \in Subject, ticket'[t].user # None, ticket'[t].subject = s
      PROVE  ticket'[t].until <= LastAllowed(s)' + TripTTL + TicketTTL - 1
  <2>1. ticket'[t].until <= LastAllowed(s) + (TripTTL + TicketTTL - 1)
    <3>1. CASE ticket'[t] = ticket[t]
      <4>1. ticket'[t].until <= LastAllowed(s) + TripTTL + TicketTTL - 1
        BY <1>7, <3>1 DEF StopInv
      <4> QED
        BY <1>2, <4>1, Sums
    <3>2. ASSUME NEW c \in Request, slot[c].op \in Callbacks, slot[c].trip = t,
                 trip[t].at = "out", ticket'[t].subject = slot[c].subject,
                 ticket'[t].until = now + TicketTTL
          PROVE  ticket'[t].until <= LastAllowed(s) + (TripTTL + TicketTTL - 1)
      <4>1. answer[t] = s /\ now < trip[t].until
        BY <1>7, <3>2 DEF StopInv
      <4>2. trip[t].until <= LastAllowed(s) + TripTTL
        BY <4>1 DEF StopInv
      <4> QED
        BY <1>2, <3>2, <4>1, <4>2, NextDeadline
    <3> QED
      BY <1>7, <3>1, <3>2, TicketSteps
  <2>2. ticket'[t].until <= LastAllowed(s)' + (TripTTL + TicketTTL - 1)
    BY <1>2, <1>3, <2>1
  <2> QED
    BY <1>2, <2>2, Sums
<1>8. ASSUME NEW b \in Browser, NEW s \in Subject, token'[b].subject = s
      PROVE  token'[b].until <= LastAllowed(s)' + TripTTL + TicketTTL + TokenLife - 2
  <2>1. token'[b].until <= LastAllowed(s) + ((TripTTL + TicketTTL - 1) + TokenLife - 1)
    <3>1. CASE token'[b] = token[b]
      <4>1. token'[b].until <= LastAllowed(s) + TripTTL + TicketTTL + TokenLife - 2
        BY <1>8, <3>1 DEF StopInv
      <4> QED
        BY <1>2, <4>1, Sums
    <3>2. ASSUME NEW c \in Request, slot[c].op = "exchange", slot[c].trip \in Trip,
                 ticket[slot[c].trip].user # None, now < ticket[slot[c].trip].until,
                 token'[b].subject = slot[c].subject, token'[b].until = now + TokenLife
          PROVE  token'[b].until <= LastAllowed(s) + ((TripTTL + TicketTTL - 1) + TokenLife - 1)
      <4>1. PICK t \in Trip : t = slot[c].trip
        BY <3>2
      <4>2. ticket[t].subject = s
        BY <1>8, <3>2, <4>1 DEF StopInv
      <4>3. ticket[t].until <= LastAllowed(s) + TripTTL + TicketTTL - 1
        BY <3>2, <4>1, <4>2 DEF StopInv
      <4>4. ticket[t].until <= LastAllowed(s) + (TripTTL + TicketTTL - 1)
        BY <1>2, <4>3, Sums
      <4> QED
        BY <1>2, <3>2, <4>1, <4>4, NextDeadline
    <3> QED
      BY <1>8, <3>1, <3>2, TokenSteps, FederationAssumption
  <2>2. token'[b].until <= LastAllowed(s)' + ((TripTTL + TicketTTL - 1) + TokenLife - 1)
    BY <1>2, <1>3, <2>1
  <2> QED
    BY <1>2, <2>2, Sums
<1>9. now' = now \/ \A c \in Request : slot'[c].op = "idle"
  <2>1. CASE Tick
    BY <2>1 DEF Tick, Idle
  <2> QED
    BY <2>1, ClockSteps DEF ProviderDecides
<1>10. ASSUME NEW c \in Request, NEW t, t = slot'[c].trip, slot'[c].op \in Callbacks
       PROVE  answer'[t] = slot'[c].subject /\ now' < trip'[t].until
  <2>1. now' = now
    BY <1>9, <1>10 DEF Callbacks
  <2>2. t \in Trip /\ slot'[c].subject \in Subject
        /\ trip[t].at # "new" /\ answer[t] = slot'[c].subject /\ now < trip[t].until
    <3>1. CASE slot'[c] = slot[c]
      <4>1. PICK s \in Subject : s = slot[c].subject
        BY <1>10, <3>1 DEF LinkInv, Serves
      <4>2. t \in Trip /\ answer[t] = s /\ now < trip[t].until
        BY <1>10, <3>1, <4>1 DEF LinkInv, Serves, StopInv
      <4> QED
        BY <3>1, <4>1, <4>2 DEF StopInv
    <3>2. ASSUME NEW x \in Trip, BeginCallback(c, x)
          PROVE  t = x /\ slot'[c].subject = answer[x] /\ answer[x] \in Subject
                 /\ trip[x].at = "out" /\ now < trip[x].until
      BY <1>10, <3>2 DEF BeginCallback, TypeOK
    <3>3. ASSUME NEW x \in Trip, BeginExchange(c, x)
          PROVE  FALSE
      BY <1>10, <3>3 DEF BeginExchange, TypeOK, Callbacks
    <3>4. slot'[c].op \notin {"idle", "unlink"}
      BY <1>10 DEF Callbacks
    <3> QED
      BY <3>1, <3>2, <3>3, <3>4, SlotSteps
  <2>3. answer'[t] = answer[t]
    BY <2>2, AnswerSteps, FederationAssumption
  <2> QED
    BY <1>4, <2>1, <2>2, <2>3
<1>11. ASSUME NEW c \in Request, NEW t, t = slot'[c].trip, slot'[c].op = "exchange"
       PROVE  /\ trip'[t].at = "used"
              /\ ticket'[t].user # None => ticket'[t].subject = slot'[c].subject
  <2>1. /\ t \in Trip /\ trip[t].at = "used"
        /\ ticket[t].user # None => ticket[t].subject = slot'[c].subject
    <3>1. CASE slot'[c] = slot[c]
      BY <1>11, <3>1 DEF LinkInv, Serves, StopInv
    <3>2. ASSUME NEW x \in Trip, BeginExchange(c, x)
          PROVE  t = x /\ slot'[c].subject = ticket[x].subject /\ trip[x].at = "used"
      BY <1>11, <3>2 DEF BeginExchange, TypeOK, TripInv
    <3>3. ASSUME NEW x \in Trip, BeginCallback(c, x)
          PROVE  FALSE
      <4>1. slot'[c].op = Decision(x, trip[x].browser, answer[x]).do
        BY <3>3 DEF BeginCallback, TypeOK
      <4>2. Decision(x, trip[x].browser, answer[x]).do # "exchange"
        BY DEF Decision, LinkDecision, LoginDecision
      <4> QED
        BY <1>11, <4>1, <4>2
    <3> QED
      BY <1>11, <3>1, <3>2, <3>3, SlotSteps
  <2>2. ticket'[t] = ticket[t] \/ ticket'[t].user = None
    BY <2>1, TicketSteps
  <2> QED
    BY <1>4, <2>1, <2>2
<1> QED
  BY <1>1, <1>5, <1>6, <1>7, <1>8, <1>10, <1>11 DEF StopInv

LEMMA StopsFollow ==
    ASSUME TypeOK, LinkInv, StopInv
    PROVE  StopsArrive
<1>1. ASSUME NEW b \in Browser, NEW s \in Subject \cup {None}, token[b].subject = s,
             s # None, Viewer(b) # None, roster[s] # "allowed"
      PROVE  now - stopped[s] <= TripTTL + TicketTTL + TokenLife - 3
  <2>1. token[b].until <= stopped[s] + TripTTL + TicketTTL + TokenLife - 2
    BY <1>1 DEF StopInv, LastAllowed
  <2>2. /\ token[b].until \in Int /\ now \in Int /\ stopped[s] \in Int
        /\ TripTTL \in Int /\ TicketTTL \in Int /\ TokenLife \in Int
    BY <1>1, AllNumbers, Numbers
  <2>3. now < token[b].until
    BY <1>1, <2>2 DEF Viewer
  <2>4. token[b].until <= stopped[s] + (TripTTL + TicketTTL + TokenLife) - 2
    BY <2>1, <2>2, Sums
  <2> QED
    BY <2>2, <2>3, <2>4, LastDeadline
<1>2. \A b \in Browser : token[b].subject \in Subject \cup {None}
  BY DEF TypeOK, Token
<1> QED
  BY <1>1, <1>2 DEF StopsArrive

-----------------------------------------------------------------------------
(* The theorems.                                                             *)

(***************************************************************************)
(* The inductive invariant: trips, tickets and links of every interleaving *)
(* of callbacks, exchanges, unlinkings and rounds (router.py).             *)
(***************************************************************************)
THEOREM FederationAlways == Spec => []FedInv
<1>1. FedInv /\ [Next]_vars => FedInv'
  BY TypesKept, StepTrips, StepLinks DEF FedInv
<1> QED
  BY <1>1, InitFederation, PTL DEF Spec

(***************************************************************************)
(* Rows, cookies, tokens, requests and rounds are well-formed.             *)
(***************************************************************************)
THEOREM FederationTypesCorrect == Spec => []TypeOK
<1>1. FedInv => TypeOK
  BY DEF FedInv
<1> QED
  BY <1>1, FederationAlways, PTL

(***************************************************************************)
(* However often browsers come back and tickets are sent, a round trip     *)
(* gives one session (sql_sso_login_session_repository.py, consume;        *)
(* sql_sso_login_ticket_repository.py, consume).                           *)
(***************************************************************************)
THEOREM OneSession == Spec => []OneSessionPerTrip
<1>1. FedInv => OneSessionPerTrip
  BY DEF FedInv, TripInv
<1> QED
  BY <1>1, FederationAlways, PTL

(***************************************************************************)
(* Whatever is linked, unlinked, stopped and deleted meanwhile, sessions   *)
(* and tickets are only for accounts the identity was linked to            *)
(* (resolve_federated_account.py, complete_sso_link.py).                   *)
(***************************************************************************)
THEOREM OnlyLinkedEnter == Spec => []EnterOnlyLinked
<1>1. FedInv => EnterOnlyLinked
  BY DEF FedInv, LinkInv
<1> QED
  BY <1>1, FederationAlways, PTL

(***************************************************************************)
(* However requests to unlink, deletions of passkeys, accounts and rounds  *)
(* interleave, an account that the code leaves without an entrance has     *)
(* lost it in one of the three ways that are excused                       *)
(* (unlink_federated_identity.py, reconcile_federated_users.py).           *)
(***************************************************************************)
THEOREM EntrancesAreKept == Spec => []KeepsAnEntrance
<1>1. FedInv /\ EntranceInv /\ [Next]_vars => EntranceInv'
  BY StepEntrances DEF FedInv
<1>2. EntranceInv => KeepsAnEntrance
  BY DEF EntranceInv
<1> QED
  BY <1>1, <1>2, InitEntrances, FederationAlways, PTL DEF Spec

(***************************************************************************)
(* Whatever round trip, ticket and token were under way when the provider  *)
(* stopped a subject, they are over when their three lives are: a renewal  *)
(* needs a new answer of the provider (complete_sso_login.py,              *)
(* sso_login_session.py, token_service.py).                                *)
(***************************************************************************)
THEOREM StopsComeThrough == Spec => []StopsArrive
<1>1. FedInv /\ FedInv' /\ StopInv /\ [Next]_vars => StopInv'
  BY StepStops DEF FedInv
<1>2. FedInv /\ StopInv => StopsArrive
  BY StopsFollow DEF FedInv
<1> QED
  BY <1>1, <1>2, InitStops, FederationAlways, PTL DEF Spec
=============================================================================
