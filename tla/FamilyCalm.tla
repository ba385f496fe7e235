------------------------------ MODULE FamilyCalm ------------------------------
(***************************************************************************)
(* FamilyMembership with a history variable that remembers whether two     *)
(* requests ever were open at the same time: what only such an overlap can *)
(* do (ADR-0013 accepts it).                                               *)
(***************************************************************************)
EXTENDS FamilyMembership

VARIABLE calm   \* no two requests have been open at the same time

Alone == \A r, s \in Request : Serving(r, "idle") \/ Serving(s, "idle") \/ r = s

CalmInit == Init /\ calm = TRUE

CalmNext == Next /\ calm' = (calm /\ Alone')

CalmSpec == CalmInit /\ [][CalmNext]_<<vars, calm>>

(***************************************************************************)
(* Only requests that overlap can leave a family without the one owner who *)
(* can sign in that LeaveFamilyUseCase, RemoveMembershipUseCase and        *)
(* EnsureUserCanBeDeletedUseCase are there to keep, and only they bring an *)
(* account into a second family (ADR-0013 accepts it).                     *)
(***************************************************************************)
OnlyOverlapLosesOwners == calm => OwnerRuns /\ OneFamilyPerAccount

(***************************************************************************)
(* Only a request that overlaps takes somebody along who was not asked: a  *)
(* dissolution takes the owner alone, an independence a child whose        *)
(* proposal stands (DissolveFamilyUseCase, ApproveIndependenceUseCase).    *)
(***************************************************************************)
OnlyOverlapSweepsAway == [][calm => SweepsNobody]_<<vars, calm>>
=============================================================================
