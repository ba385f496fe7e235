----------------------------- MODULE MCSilentAsks -----------------------------
(* BrowserSession with a count of the times the IdP has answered that       *)
(* nobody is signed in there (LoginPage.tsx, silentSso.ts, api.ts           *)
(* continueSession).                                                        *)
EXTENDS BrowserSession

VARIABLES
    refusals,   \* since somebody did something, or the server went or came back
    again       \* since then a document opened by a reload has left for the IdP by itself

SomethingHappens ==
    \/ access' # access /\ access' # None /\ access'.fresh
    \/ \E t \in Tab : tried[t] /\ ~tried'[t]    \* new tokens, even if they say the same
    \/ \E t \in Tab : page[t] = "landing" /\ page'[t] = "app"
    \/ \E t \in Tab : View(t) \/ Reload(t) \/ PressButton(t)
    \/ up' # up

IsRefused(t) ==
    /\ idp = None /\ cookie' = None
    /\ \/ cookie = <<"frame", t>> /\ cont[t].at = "out" /\ cont'[t].at # "out"
       \/ cookie = <<"page", t>> /\ page[t] = "asking" /\ page'[t] # "asking"

AsksAgain == \E t \in Tab : reloaded[t] /\ page[t] = "trying" /\ page'[t] = "asking"

CountRefusals ==
    /\ refusals' = IF SomethingHappens THEN 0
                   ELSE IF \E t \in Tab : IsRefused(t) THEN refusals + 1 ELSE refusals
    /\ again' = (~SomethingHappens /\ (again \/ AsksAgain))

CountingSpec ==
    /\ BrowserInit /\ refusals = 0 /\ again = FALSE
    /\ [][BrowserNext /\ CountRefusals]_<<browser, refusals, again>>
    /\ BrowserFairness

-----------------------------------------------------------------------------
(***************************************************************************)
(* A browser does not go round in circles between the login page, the IdP  *)
(* and the frames that continue a session (silentSso.ts): refused there    *)
(* twice at most (as a page, and by the request that the page makes when   *)
(* it is back), it waits for somebody to do something.  It is refused a    *)
(* third time only if a document that somebody has reloaded asked as a     *)
(* page although a frame had been refused before (ADR-0054).               *)
(***************************************************************************)
RefusalsAreTaken == refusals <= IF again THEN 3 ELSE 2
=============================================================================
