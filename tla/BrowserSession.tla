---------------------------- MODULE BrowserSession ----------------------------
(***************************************************************************)
(* The session of a person in a browser (frontend/src/services/api.ts,     *)
(* silentRenewal.ts, silentSso.ts, store/AuthContext.tsx) and the answers  *)
(* of the server it rests on.  The tabs of a browser share localStorage:   *)
(* an access token of five minutes, a refresh token after a sign-in with a *)
(* password, none after a sign-in through the identity provider (IdP).     *)
(* When a request is answered 401, its tab continues the session once for  *)
(* all its waiting requests: with the refresh token, or by asking the IdP  *)
(* in a hidden frame, one tab at a time.  A server that is being replaced  *)
(* does not answer for a while.                                            *)
(***************************************************************************)
EXTENDS Naturals

CONSTANTS
    Tab,          \* tabs of one browser
    Person,       \* people who sign in with it
    None,         \* nobody, nothing
    MaxOutages    \* bound on how often the server goes down

Token == [who : Person, sso : BOOLEAN, fresh : BOOLEAN]
Trip == {"frame", "page"} \X Tab

ASSUME BrowserAssumption == None \notin Person \cup Token \cup Trip /\ MaxOutages \in Nat

VARIABLES
    access,       \* localStorage: the access token
    refresh,      \* localStorage: whose refresh token it holds
    signedOut,    \* localStorage: "ssoSignedOut"
    tried,        \* sessionStorage of each tab: "ssoSilentTried"
    reloaded,     \* whether a reload opened the document of each tab (openedByReload)
    shown,        \* the person each tab shows
    unreachable,  \* whether the tab says that the server cannot be reached
    page,         \* where each tab is
    ticket,       \* whose ticket a tab came back from the IdP with
    job,          \* requests of each tab that are not answered yet
    cont,         \* how far each tab is with continuing the session
    cookie,       \* "sso_binding": the round trip the browser is bound to
    idp,          \* who is signed in at the IdP in this browser
    up, outages,  \* whether the server answers; how often it went down
    calm,         \* history: nobody came or left while another was still there
    kept          \* history: the tokens were never cleared while a session was being continued

storage == <<access, refresh, signedOut, kept>>
marks == <<tried, reloaded>>
world == <<idp, up, outages>>
browser == <<storage, marks, shown, unreachable, page, ticket, job, cont, cookie, world, calm>>

Somebody == Person \cup {None}
\* "load" is the refreshMe of a page that opens, "me" any later one.
Kind == {"load", "me", "view"}

NoJob == [at |-> "idle", as |-> None]
Quiet == [at |-> "idle", who |-> None, with |-> None]

BrowserTypeOK ==
    /\ access \in Token \cup {None} /\ refresh \in Somebody
    /\ signedOut \in BOOLEAN /\ tried \in [Tab -> BOOLEAN]
    /\ reloaded \in [Tab -> BOOLEAN]
    /\ shown \in [Tab -> Somebody] /\ unreachable \in [Tab -> BOOLEAN]
    /\ page \in [Tab -> {"app", "trying", "login", "asking", "away", "landing"}]
    /\ ticket \in [Tab -> Somebody]
    /\ job \in [Tab -> [Kind -> [at : {"idle", "sent", "joined", "again"}, as : Somebody]]]
    /\ cont \in [Tab -> [at : {"idle", "refresh", "wait", "still", "frame", "out", "exchange"},
                         who : Somebody, with : Somebody]]
    /\ cookie \in Trip \cup {None}
    /\ idp \in Somebody /\ up \in BOOLEAN /\ outages \in 0 .. MaxOutages
    /\ calm \in BOOLEAN /\ kept \in BOOLEAN

BrowserInit ==
    /\ access = None /\ refresh = None /\ signedOut = FALSE
    /\ tried = [t \in Tab |-> FALSE] /\ reloaded = [t \in Tab |-> FALSE]
    /\ shown = [t \in Tab |-> None] /\ unreachable = [t \in Tab |-> FALSE]
    /\ page = [t \in Tab |-> "app"] /\ ticket = [t \in Tab |-> None]
    /\ job = [t \in Tab |-> [k \in Kind |-> NoJob]]
    /\ cont = [t \in Tab |-> Quiet]
    /\ cookie = None /\ idp \in Somebody /\ up = TRUE /\ outages = 0
    /\ calm = TRUE /\ kept = TRUE

-----------------------------------------------------------------------------
(* What a request carries, and what the server makes of it.                *)

\* The person a request is answered for: its token is checked without the database.
Header == IF access # None /\ access.fresh THEN access.who ELSE None

\* Whose session a token continues, expired or not; only tokens of a sign-in by the IdP.
ContinuedUser == IF access # None /\ access.sso THEN access.who ELSE None

\* Mutant: the ticket of a renewal is exchanged for whomever it is.
SamePersonMutant(p, carried) == TRUE

\* A renewal is exchanged for the person whose token came with it.
SamePerson(p, carried) == carried \in {None, p}

Sent(t, k) == [job EXCEPT ![t][k] = [at |-> "sent", as |-> Header]]

Busy(t) == \E k \in Kind : job[t][k] # NoJob

Waiting(t) == {k \in Kind : job[t][k].at = "joined"}

\* The tab that holds the Web Lock "sso-renewal".
Renewing(t) == cont[t].at \in {"still", "frame", "out", "exchange"}

\* Mutant: the lock is not waited for.
LockFreeMutant == TRUE

LockFree == \A t \in Tab : ~Renewing(t)

-----------------------------------------------------------------------------
(* How continuing a session ends, for every request of the tab that waits. *)

SetTokens(p, sso) ==
    /\ access' = [who |-> p, sso |-> sso, fresh |-> TRUE]
    /\ refresh' = IF sso THEN None ELSE p
    /\ UNCHANGED kept

KeepTokens == UNCHANGED <<access, refresh, kept>>

ClearTokens(others) ==
    /\ access' = None /\ refresh' = None
    /\ kept' = (kept /\ \A u \in others : cont[u] = Quiet)

\* Continued: the waiting requests are sent again with the tokens there are now.
Resume(t) ==
    /\ job' = [job EXCEPT ![t] = [k \in Kind |->
                 IF k \in Waiting(t)
                 THEN [at |-> "again", as |-> IF access'.fresh THEN access'.who ELSE None]
                 ELSE @[k]]]
    /\ cont' = [cont EXCEPT ![t] = Quiet]
    /\ UNCHANGED <<shown, unreachable>>

Drop(t) ==
    /\ job' = [job EXCEPT ![t] = [k \in Kind |-> IF k \in Waiting(t) THEN NoJob ELSE @[k]]]
    /\ cont' = [cont EXCEPT ![t] = Quiet]

AskedWho(t) == Waiting(t) \cap {"load", "me"} # {}

\* Not continued: the tab shows nobody, and refreshMe takes the 401 for a sign-out.
GiveUp(t, forget) ==
    /\ shown' = [shown EXCEPT ![t] = None]
    /\ unreachable' = [unreachable EXCEPT ![t] = @ /\ ~AskedWho(t)]
    /\ IF forget \/ AskedWho(t) THEN ClearTokens(Tab \ {t}) ELSE KeepTokens
    /\ Drop(t)

\* The network failed on the way: the error reaches the callers.
Threw(t) ==
    /\ unreachable' = [unreachable EXCEPT ![t] = @ \/ AskedWho(t)]
    /\ Drop(t)
    /\ KeepTokens /\ UNCHANGED shown

\* Mutant: a refused renewal does not count as the try of this tab.
MarkTriedMutant(t) == UNCHANGED tried

MarkTried(t) == tried' = [tried EXCEPT ![t] = TRUE]

ClearMarks(t) ==
    /\ signedOut' = FALSE
    /\ tried' = [tried EXCEPT ![t] = FALSE]

-----------------------------------------------------------------------------
(* Requests and their answers.                                             *)

View(t) ==
    /\ page[t] = "app" /\ shown[t] # None /\ job[t]["view"] = NoJob
    /\ job' = Sent(t, "view")
    /\ UNCHANGED <<storage, marks, shown, unreachable, page, ticket, cont, cookie, world, calm>>

\* Mutant: the screen is not asked again.
ReconnectMutant(t) == FALSE /\ UNCHANGED browser

\* The timer of a tab that could not reach the server.
Reconnect(t) ==
    /\ unreachable[t] /\ job[t]["me"] = NoJob
    /\ IF access = None
       THEN shown' = [shown EXCEPT ![t] = None] /\ UNCHANGED job
       ELSE job' = Sent(t, "me") /\ UNCHANGED shown
    /\ UNCHANGED <<storage, marks, unreachable, page, ticket, cont, cookie, world, calm>>

Delivered(t, k) ==
    /\ job[t][k].at \in {"sent", "again"} /\ job[t][k].as # None /\ up
    /\ job' = [job EXCEPT ![t][k] = NoJob]
    /\ IF k = "view"
       THEN UNCHANGED <<shown, unreachable>>
       ELSE /\ shown' = [shown EXCEPT ![t] = job[t][k].as]
            /\ unreachable' = [unreachable EXCEPT ![t] = FALSE]
    /\ UNCHANGED <<storage, marks, page, ticket, cont, cookie, world, calm>>

\* A 5xx, or no answer at all.
Undelivered(t, k) ==
    /\ job[t][k].at \in {"sent", "again"} /\ ~up
    /\ job' = [job EXCEPT ![t][k] = NoJob]
    /\ unreachable' = [unreachable EXCEPT ![t] = @ \/ k # "view"]
    /\ UNCHANGED <<storage, marks, shown, page, ticket, cont, cookie, world, calm>>

\* The first 401 makes the request wait for the session to be continued.
Expired(t, k) ==
    /\ job[t][k].at = "sent" /\ job[t][k].as = None /\ up
    /\ job' = [job EXCEPT ![t][k].at = "joined"]
    /\ UNCHANGED <<storage, marks, shown, unreachable, page, ticket, cont, cookie, world, calm>>

\* The second is an error; refreshMe takes it for a sign-out.
RefusedAgain(t, k) ==
    /\ job[t][k].at = "again" /\ job[t][k].as = None /\ up
    /\ job' = [job EXCEPT ![t][k] = NoJob]
    /\ IF k = "view"
       THEN KeepTokens /\ UNCHANGED <<shown, unreachable>>
       ELSE /\ ClearTokens(Tab)
            /\ shown' = [shown EXCEPT ![t] = None]
            /\ unreachable' = [unreachable EXCEPT ![t] = FALSE]
    /\ UNCHANGED <<signedOut, marks, page, ticket, cont, cookie, world, calm>>

-----------------------------------------------------------------------------
(* Continuing a session.                                                   *)

\* tryRefresh: one for all the requests of a tab.
Continue(t) ==
    /\ cont[t] = Quiet /\ Waiting(t) # {}
    /\ IF refresh # None
       THEN /\ cont' = [cont EXCEPT ![t] = [at |-> "refresh", who |-> refresh, with |-> None]]
            /\ KeepTokens /\ UNCHANGED <<shown, unreachable, job>>
       ELSE IF access = None \/ signedOut
       THEN GiveUp(t, FALSE)
       ELSE /\ cont' = [cont EXCEPT ![t].at = "wait"]
            /\ KeepTokens /\ UNCHANGED <<shown, unreachable, job>>
    /\ UNCHANGED <<signedOut, marks, page, ticket, cookie, world, calm>>

\* sendRefresh: an answer that is not a success clears the tokens, whatever it is.
Refreshed(t) ==
    /\ cont[t].at = "refresh"
    /\ \/ up /\ SetTokens(cont[t].who, FALSE) /\ Resume(t)
       \/ GiveUp(t, TRUE)
       \/ ~up /\ Threw(t)
    /\ UNCHANGED <<signedOut, marks, page, ticket, cookie, world, calm>>

\* The tab has the lock and asks whether another tab has continued meanwhile.
AcquireLock(t) ==
    /\ cont[t].at = "wait" /\ LockFree
    /\ cont' = [cont EXCEPT ![t] = [at |-> "still", who |-> None, with |-> Header]]
    /\ UNCHANGED <<storage, marks, shown, unreachable, page, ticket, job, cookie, world, calm>>

StillSignedIn(t) ==
    /\ cont[t].at = "still"
    /\ \/ up /\ cont[t].with # None /\ access # None
          /\ KeepTokens /\ Resume(t)
       \/ up /\ cont[t].with # None /\ access = None
          /\ KeepTokens
          /\ job' = [job EXCEPT ![t] = [k \in Kind |->
                       IF k \in Waiting(t) THEN [at |-> "again", as |-> None] ELSE @[k]]]
          /\ cont' = [cont EXCEPT ![t] = Quiet]
          /\ UNCHANGED <<shown, unreachable>>
       \/ ~up /\ Threw(t)
       \/ /\ ~up \/ cont[t].with = None
          /\ cont' = [cont EXCEPT ![t] = [at |-> "frame", who |-> None, with |-> None]]
          /\ KeepTokens /\ UNCHANGED <<shown, unreachable, job>>
    /\ UNCHANGED <<signedOut, marks, page, ticket, cookie, world, calm>>

\* The frame asks for /renew: a round trip begins, and the cookie is bound to it.
StartRenewal(t) ==
    /\ cont[t].at = "frame" /\ up
    /\ cont' = [cont EXCEPT ![t].at = "out"]
    /\ cookie' = <<"frame", t>>
    /\ UNCHANGED <<storage, marks, shown, unreachable, page, ticket, job, world, calm>>

\* The frame comes back: with a ticket, refused, or as a trip the cookie does not know.
CompleteRenewal(t) ==
    /\ cont[t].at = "out" /\ up
    /\ cookie' = None
    /\ \/ /\ cookie = <<"frame", t>> /\ idp # None
          /\ cont' = [cont EXCEPT ![t] = [at |-> "exchange", who |-> idp, with |-> ContinuedUser]]
          /\ KeepTokens /\ UNCHANGED <<tried, shown, unreachable, job>>
       \/ cookie = <<"frame", t>> /\ idp = None /\ MarkTried(t) /\ GiveUp(t, FALSE)
       \/ cookie # <<"frame", t>> /\ GiveUp(t, FALSE) /\ UNCHANGED tried
    /\ UNCHANGED <<reloaded, signedOut, page, ticket, world, calm>>

\* The frame failed, or the time was up.
RenewalFails(t) ==
    /\ cont[t].at \in {"frame", "out"}
    /\ GiveUp(t, FALSE)
    /\ UNCHANGED <<signedOut, marks, page, ticket, cookie, world, calm>>

ExchangeRenewal(t) ==
    /\ cont[t].at = "exchange"
    /\ \/ /\ up /\ SamePerson(cont[t].who, cont[t].with)
          /\ SetTokens(cont[t].who, TRUE) /\ ClearMarks(t) /\ Resume(t)
       \/ /\ ~up \/ ~SamePerson(cont[t].who, cont[t].with)
          /\ GiveUp(t, FALSE) /\ UNCHANGED <<signedOut, tried>>
       \/ ~up /\ Threw(t) /\ UNCHANGED <<signedOut, tried>>
    /\ UNCHANGED <<reloaded, page, ticket, cookie, world, calm>>

-----------------------------------------------------------------------------
(* Pages.  Leaving one ends its requests and releases its lock; the        *)
(* document that follows is opened by a redirect.                          *)

Unload(t) ==
    /\ reloaded' = [reloaded EXCEPT ![t] = FALSE]
    /\ job' = [job EXCEPT ![t] = [k \in Kind |-> NoJob]]
    /\ cont' = [cont EXCEPT ![t] = Quiet]
    /\ shown' = [shown EXCEPT ![t] = None]
    /\ unreachable' = [unreachable EXCEPT ![t] = FALSE]

\* A page that opens asks who is signed in, if there are tokens.
Load(t) ==
    /\ job' = [job EXCEPT ![t] = [k \in Kind |->
                 IF k = "load" /\ access # None THEN [at |-> "sent", as |-> Header] ELSE NoJob]]
    /\ cont' = [cont EXCEPT ![t] = Quiet]
    /\ shown' = [shown EXCEPT ![t] = None]
    /\ unreachable' = [unreachable EXCEPT ![t] = FALSE]

\* Once in a tab; a document that a reload has opened may ask again.
MaySilentSso(t) == ~signedOut /\ (reloaded[t] \/ ~tried[t])

\* A tab that shows nobody goes to the login page.
OpenLogin(t) ==
    /\ page[t] = "app" /\ shown[t] = None /\ ~unreachable[t]
    /\ job[t]["load"] = NoJob /\ job[t]["me"] = NoJob
    /\ page' = [page EXCEPT ![t] = IF MaySilentSso(t) THEN "trying" ELSE "login"]
    /\ UNCHANGED <<storage, marks, shown, unreachable, ticket, job, cont, cookie, world, calm>>

\* The login page leaves for the IdP by itself.
LeaveSilently(t) ==
    /\ page[t] = "trying" /\ up
    /\ MarkTried(t) /\ Unload(t)
    /\ page' = [page EXCEPT ![t] = "asking"]
    /\ cookie' = <<"page", t>>
    /\ UNCHANGED <<storage, ticket, world, calm>>

PressButton(t) ==
    /\ page[t] = "login" /\ up
    /\ Unload(t)
    /\ page' = [page EXCEPT ![t] = "away"]
    /\ cookie' = <<"page", t>>
    /\ UNCHANGED <<storage, tried, ticket, world, calm>>

\* Back from the IdP; by the button somebody signs in there first.
ComeBack(t) ==
    /\ page[t] \in {"asking", "away"} /\ up
    /\ \/ page[t] = "asking" /\ UNCHANGED idp
       \/ page[t] = "away" /\ idp' \in Person
    /\ cookie' = None
    /\ IF cookie = <<"page", t>> /\ idp' # None
       THEN page' = [page EXCEPT ![t] = "landing"] /\ ticket' = [ticket EXCEPT ![t] = idp']
       ELSE page' = [page EXCEPT ![t] = "login"] /\ UNCHANGED ticket
    /\ Load(t)
    /\ UNCHANGED <<storage, marks, up, outages, calm>>

\* Nobody else is there whose session the newcomer would take over.
ComesAlone(t, p) ==
    /\ \A u \in Tab : ~Busy(u) /\ cont[u] = Quiet
    /\ \A u \in Tab : shown[u] \in {None, p} /\ (u # t => page[u] # "landing")

Enter(t, p, sso) ==
    /\ SetTokens(p, sso) /\ ClearMarks(t)
    /\ job' = [job EXCEPT ![t]["me"] = [at |-> "sent", as |-> p]]
    /\ page' = [page EXCEPT ![t] = "app"]
    /\ ticket' = [ticket EXCEPT ![t] = None]
    /\ calm' = (calm /\ ComesAlone(t, p))

\* SsoCallbackPage exchanges its ticket for tokens.
Land(t) ==
    /\ page[t] = "landing"
    /\ \/ up /\ job[t]["me"] = NoJob /\ Enter(t, ticket[t], TRUE)
       \/ /\ ~up
          /\ page' = [page EXCEPT ![t] = "login"]
          /\ ticket' = [ticket EXCEPT ![t] = None]
          /\ UNCHANGED <<storage, tried, job, calm>>
    /\ UNCHANGED <<reloaded, shown, unreachable, cont, cookie, world>>

\* A sign-in with a password or a passkey.
SignIn(t, p) ==
    /\ page[t] = "login" /\ shown[t] = None /\ job[t]["me"] = NoJob /\ up
    /\ Enter(t, p, FALSE)
    /\ UNCHANGED <<reloaded, shown, unreachable, cont, cookie, world>>

Logout(t) ==
    /\ page[t] = "app" /\ shown[t] # None
    /\ ClearTokens(Tab) /\ signedOut' = TRUE
    /\ shown' = [shown EXCEPT ![t] = None]
    /\ calm' = (calm /\ (\A u \in Tab : ~Busy(u) /\ cont[u] = Quiet /\ (u # t => shown[u] = None)))
    /\ UNCHANGED <<marks, unreachable, page, ticket, job, cont, cookie, world>>

\* A reload of the login page may try the IdP again, unless an error is shown there.
Reload(t) ==
    /\ page[t] \in {"app", "trying", "login"}
    /\ \/ page[t] = "app" /\ UNCHANGED page
       \/ /\ page[t] # "app"
          /\ \E to \in IF signedOut THEN {"login"} ELSE {"login", "trying"} :
                page' = [page EXCEPT ![t] = to]
    /\ Load(t)
    /\ reloaded' = [reloaded EXCEPT ![t] = TRUE]
    /\ UNCHANGED <<storage, tried, ticket, cookie, world, calm>>

-----------------------------------------------------------------------------
(* The world.                                                              *)

TokenExpires ==
    /\ access # None /\ access.fresh
    /\ access' = [access EXCEPT !.fresh = FALSE]
    /\ UNCHANGED <<refresh, signedOut, kept, marks, shown, unreachable, page, ticket, job, cont,
                   cookie, world, calm>>

\* Somebody signs in or out at the IdP, for another application.
IdpChanges ==
    /\ idp' \in Somebody \ {idp}
    /\ UNCHANGED <<storage, marks, shown, unreachable, page, ticket, job, cont, cookie, up,
                   outages, calm>>

GoDown ==
    /\ up /\ outages < MaxOutages
    /\ up' = FALSE /\ outages' = outages + 1
    /\ UNCHANGED <<storage, marks, shown, unreachable, page, ticket, job, cont, cookie, idp, calm>>

ComeUp ==
    /\ ~up /\ up' = TRUE
    /\ UNCHANGED <<storage, marks, shown, unreachable, page, ticket, job, cont, cookie, idp,
                   outages, calm>>

Proceeds(t) ==
    \/ \E k \in Kind : Delivered(t, k) \/ Undelivered(t, k) \/ Expired(t, k) \/ RefusedAgain(t, k)
    \/ Continue(t) \/ Refreshed(t) \/ AcquireLock(t) \/ StillSignedIn(t)
    \/ CompleteRenewal(t) \/ RenewalFails(t) \/ ExchangeRenewal(t)

BrowserNext ==
    \/ \E t \in Tab :
         \/ View(t) \/ Reconnect(t) \/ Proceeds(t) \/ StartRenewal(t)
         \/ OpenLogin(t) \/ LeaveSilently(t) \/ PressButton(t) \/ ComeBack(t) \/ Land(t)
         \/ Logout(t) \/ Reload(t)
         \/ \E p \in Person : SignIn(t, p)
    \/ TokenExpires \/ IdpChanges \/ GoDown \/ ComeUp

BrowserSpec == BrowserInit /\ [][BrowserNext]_browser

\* Every answer arrives, the timer of a tab goes on, and an outage ends.
BrowserFairness ==
    /\ WF_browser(ComeUp)
    /\ \A t \in Tab :
         /\ WF_browser(Reconnect(t))
         /\ \A k \in Kind :
              WF_browser(Delivered(t, k) \/ Undelivered(t, k) \/ Expired(t, k) \/ RefusedAgain(t, k))
         /\ WF_browser(Continue(t) \/ Refreshed(t) \/ StillSignedIn(t)
                      \/ CompleteRenewal(t) \/ RenewalFails(t) \/ ExchangeRenewal(t))
         /\ SF_browser(AcquireLock(t))

-----------------------------------------------------------------------------
(* Properties.                                                             *)

WorksForItsPerson(t) == shown[t] # None /\ access # None => shown[t] = access.who

\* As long as people come and go one after the other, and the tokens are not cleared while
\* a session is being continued, a tab never works with the tokens of somebody it does not
\* show, even when the IdP answers for another.
ScreenKeepsItsPerson == calm /\ kept => \A t \in Tab : WorksForItsPerson(t)

\* The binding of a renewal that is out is lost to a sign-in page only, never to the
\* renewal of another tab.
RenewalsDoNotClash ==
    [][\A t \in Tab :
         cont[t].at = "out" /\ cont'[t].at = "out" /\ cookie = <<"frame", t>> /\ cookie' # cookie
         => \E u \in Tab : page'[u] # page[u]]_browser

\* A tab that says it cannot reach the server gets through again, as long as somebody
\* is signed in.
ReachesAgain ==
    \A t \in Tab : unreachable[t] /\ access # None ~> ~unreachable[t] \/ access = None
=============================================================================
