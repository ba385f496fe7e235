-------------------------- MODULE DailyBonusProofs --------------------------
(***************************************************************************)
(* Proofs about DailyBonus, for every number of ledgers, workers, parents, *)
(* days, crashes and every catch-up limit.                                 *)
(*                                                                         *)
(* The argument: identifiers of bonuses are never reused, so an open round *)
(* whose plan names the bonus that exists now read that very bonus.  What  *)
(* its plan does not grant, skip or find granted was settled before, and   *)
(* what it grants lies on days the promise covers.                         *)
(***************************************************************************)
EXTENDS BonusArchive, TLAPS

-----------------------------------------------------------------------------
(* The inductive invariant.                                                  *)

Settled(l, d) == granted[<<l, d>>] >= 1 \/ d \in skipped[l]

\* Every day a bonus is granted through is granted or skipped.
AllSettled ==
    \A l \in Ledger, d \in Day :
        Exists(bonus[l]) /\ bonus[l].startsOn <= d /\ d <= bonus[l].through
            => Settled(l, d)

\* A worker logs what its last round has skipped before it begins the next.
LogsFirst == \A w \in Worker : round[w].open => telling[w] = NothingToTell

\* Identifiers are handed out in order, to bonuses and through them to plans.
IdsAreOld ==
    /\ \A l \in Ledger : bonus[l].id < nextId
    /\ \A w \in Worker : round[w].open =>
          \A l \in Ledger : round[w].plan[l].id < nextId

\* A plan for the bonus that exists leaves no day unsettled.
PlansSettle ==
    \A w \in Worker : round[w].open =>
        \A l \in Ledger, d \in Day :
            /\ Granting(w, l)
            /\ bonus[l].id = round[w].plan[l].id
            /\ bonus[l].startsOn <= d
            /\ d <= round[w].last
            => Settled(l, d) \/ d \in round[w].plan[l].fresh \/ d \in round[w].plan[l].skip

\* A bonus that exists is a promise from its start on.
PromiseCovers ==
    \A l \in Ledger, d \in Day :
        Exists(bonus[l]) /\ bonus[l].startsOn <= d /\ d <= today => d \in promised[l]

\* A plan grants promised days only.
PlansArePromised ==
    \A w \in Worker : round[w].open =>
        \A l \in Ledger : Granting(w, l) => round[w].plan[l].fresh \subseteq promised[l]

\* A request that is under way starts its bonus on the day after its own.
AskedForTomorrow ==
    \A p \in Parent : asked[p].phase = "open" =>
        asked[p].startsOn = asked[p].day + 1 /\ asked[p].day <= today

\* What is due next is never before the start of the bonus.
DueFromStart ==
    /\ \A l \in Ledger : bonus[l].startsOn <= FirstDue(bonus[l])
    /\ \A w \in Worker : round[w].open =>
          \A l \in Ledger :
              Granting(w, l) /\ bonus[l].id = round[w].plan[l].id
                  => bonus[l].startsOn <= round[w].last

BonusInv ==
    /\ TypeOK
    /\ IdsAreOld
    /\ LogsFirst
    /\ OnePerDay
    /\ AllSettled
    /\ PlansSettle
    /\ PromiseCovers
    /\ PlansArePromised
    /\ AskedForTomorrow
    /\ DueFromStart
    /\ OnlyPromisedDays
-----------------------------------------------------------------------------
(* Days and plans.                                                           *)

\* The days of a plan are days of the calendar, and what is due is granted or
\* skipped.
LEMMA DueOrSkipped ==
    ASSUME NEW b \in Bonus, today \in Day
    PROVE  /\ DueDays(b) \subseteq Day
           /\ SkippedDays(b) \subseteq Day
           /\ \A d \in Day : FirstDue(b) <= d /\ d <= today
                 => d \in DueDays(b) \/ d \in SkippedDays(b)
  <1>1. Limit \in Nat
    BY BonusAssumption DEF Limit
  <1>2. FirstDue(b) \in Int
    BY DEF FirstDue, Bonus
  <1> QED
    BY <1>1, <1>2, BonusAssumption DEF DueDays, SkippedDays, Day

\* The row CommitRound writes is a bonus.
LEMMA BonusRecord ==
    ASSUME NEW i \in Nat, NEW s \in Nat, NEW t \in Nat
    PROVE  [id |-> i, startsOn |-> s, through |-> t] \in Bonus
  BY DEF Bonus

\* What BeginRound decides about a ledger is well typed.
LEMMA PlanTyped ==
    ASSUME TypeOK, NEW l \in Ledger
    PROVE  Plan(l) \in DayPlan
  <1>1. bonus[l] \in Bonus /\ today \in Day
    BY DEF TypeOK
  <1>2. bonus[l].id \in Nat
    BY <1>1 DEF Bonus
  <1>3. DueDays(bonus[l]) \subseteq Day /\ SkippedDays(bonus[l]) \subseteq Day
    BY <1>1, DueOrSkipped
  <1> QED
    BY <1>2, <1>3 DEF Plan, DayPlan

\* What an open round holds.
LEMMA PlanOfRound ==
    ASSUME TypeOK, NEW w \in Worker, round[w].open, NEW l \in Ledger
    PROVE  /\ round[w].last \in Day
           /\ round[w].plan[l].id \in Nat
           /\ round[w].plan[l].days \subseteq Day
           /\ round[w].plan[l].fresh \subseteq Day
           /\ round[w].plan[l].skip \subseteq Day
  <1>1. round[w] \in [open : {TRUE}, last : Day, plan : [Ledger -> DayPlan]]
    BY DEF TypeOK, Round
  <1>2. round[w].last \in Day /\ round[w].plan[l] \in DayPlan
    BY <1>1
  <1> QED
    BY <1>2 DEF DayPlan

\* What is skipped depends on what is logged, cut off or still to be logged.
LEMMA SameSkipped == reports' = reports => skipped' = skipped /\ telling' = telling
  BY DEF reports, skipped

\* A round that commits while its worker has nothing else to log adds its days.
LEMMA CommitSkips ==
    ASSUME TypeOK, LogsFirst, NEW w \in Worker, CommitRound(w), NEW l \in Ledger
    PROVE  skipped'[l] = skipped[l] \cup (IF Granting(w, l) THEN round[w].plan[l].skip ELSE {})
  <1> DEFINE S == IF Granting(w, l) THEN round[w].plan[l].skip ELSE {}
  <1>1. \A v \in Worker : telling'[v][l] = IF v = w THEN S ELSE telling[v][l]
    BY DEF CommitRound, TypeOK
  <1>2. telling[w][l] = {}
    BY DEF CommitRound, CanCommit, LogsFirst, NothingToTell
  <1>3. reported' = reported /\ cutOff' = cutOff
    BY DEF CommitRound
  <1> HIDE DEF S
  <1>4. UNION {telling'[v][l] : v \in Worker} = S \cup UNION {telling[v][l] : v \in Worker}
    BY <1>1, <1>2
  <1>5. /\ skipped[l] = reported[l] \cup cutOff[l] \cup UNION {telling[v][l] : v \in Worker}
        /\ skipped'[l] = reported'[l] \cup cutOff'[l] \cup UNION {telling'[v][l] : v \in Worker}
    BY DEF skipped
  <1>6. skipped'[l] = skipped[l] \cup S
    BY <1>3, <1>4, <1>5
  <1> QED
    BY <1>6 DEF S

\* A log line, and a worker that dies before it, leave what is skipped alone.
LEMMA TellingSkipsNothing ==
    ASSUME TypeOK, NEW w \in Worker, Report(w) \/ CrashReport(w), NEW l \in Ledger
    PROVE  skipped'[l] = skipped[l]
  <1>1. \A v \in Worker : telling'[v][l] = IF v = w THEN {} ELSE telling[v][l]
    BY DEF Report, CrashReport, ToldOf, NothingToTell, TypeOK
  <1>2. reported'[l] \cup cutOff'[l] = reported[l] \cup cutOff[l] \cup telling[w][l]
    BY DEF Report, CrashReport
  <1>3. UNION {telling[v][l] : v \in Worker}
          = telling[w][l] \cup UNION {telling'[v][l] : v \in Worker}
    BY <1>1
  <1>4. /\ skipped[l] = reported[l] \cup cutOff[l] \cup UNION {telling[v][l] : v \in Worker}
        /\ skipped'[l] = reported'[l] \cup cutOff'[l] \cup UNION {telling'[v][l] : v \in Worker}
    BY DEF skipped
  <1> QED
    BY <1>2, <1>3, <1>4

-----------------------------------------------------------------------------
(* The steps.                                                                *)

\* The end of a worker's log line.
LEMMA TellingKeeps ==
    ASSUME BonusInv, NEW w \in Worker, Report(w) \/ CrashReport(w)
    PROVE  BonusInv'
  <1>1. /\ UNCHANGED <<ledgers, bonus, parents, granted, promises, today, round>>
        /\ telling' = [telling EXCEPT ![w] = NothingToTell]
    BY DEF Report, CrashReport, ToldOf
  <1>2. NothingToTell \in [Ledger -> SUBSET Day]
    BY DEF NothingToTell
  <1>3. telling' \in [Worker -> [Ledger -> SUBSET Day]]
    BY <1>1, <1>2 DEF BonusInv, TypeOK
  <1>4. \A l \in Ledger : telling[w][l] \subseteq Day
    BY DEF BonusInv, TypeOK
  <1>5. reported' \in [Ledger -> SUBSET Day] /\ cutOff' \in [Ledger -> SUBSET Day]
    BY <1>4 DEF Report, CrashReport, BonusInv, TypeOK
  <1>6. crashes' \in Nat
    BY DEF Report, CrashReport, BonusInv, TypeOK
  <1>7. TypeOK'
    BY <1>1, <1>3, <1>5, <1>6 DEF BonusInv, TypeOK, parents, promises
  <1>8. \A v \in Worker : telling'[v] = IF v = w THEN NothingToTell ELSE telling[v]
    BY <1>1 DEF BonusInv, TypeOK
  <1>9. LogsFirst'
    <2>1. NothingToTell' = NothingToTell
      BY DEF NothingToTell
    <2> QED
      BY <1>1, <1>8, <2>1 DEF BonusInv, LogsFirst
  <1>10. \A l \in Ledger : skipped'[l] = skipped[l]
    BY TellingSkipsNothing DEF BonusInv
  <1>11. AllSettled' /\ PlansSettle'
    BY <1>1, <1>10 DEF BonusInv, AllSettled, PlansSettle, Settled, Granting, Exists
  <1>12. IdsAreOld' /\ PlansArePromised' /\ DueFromStart' /\ OnePerDay'
    BY <1>1 DEF BonusInv, IdsAreOld, PlansArePromised, DueFromStart, OnePerDay, Granting,
                FirstDue, parents, promises
  <1>13. PromiseCovers' /\ AskedForTomorrow' /\ OnlyPromisedDays'
    BY <1>1 DEF BonusInv, PromiseCovers, AskedForTomorrow, OnlyPromisedDays, Exists,
                parents, promises
  <1> QED
    BY <1>7, <1>9, <1>11, <1>12, <1>13 DEF BonusInv

\* A round that ends without a trace.
LEMMA TracelessEnd ==
    ASSUME BonusInv, NEW w \in Worker, EndOf(w), crashes' \in Nat,
           UNCHANGED <<ledgers, bonus, parents, grants, promises, today>>
    PROVE  BonusInv'
  <1>1. \A v \in Worker : round'[v] = IF v = w THEN [open |-> FALSE] ELSE round[v]
    BY DEF EndOf, BonusInv, TypeOK
  <1>2. \A v \in Worker : round'[v].open => v # w /\ round'[v] = round[v]
    BY <1>1
  <1>3. TypeOK'
    <2>1. round' \in [Worker -> Round]
      BY DEF EndOf, BonusInv, TypeOK, Round
    <2> QED
      BY <2>1 DEF BonusInv, TypeOK, parents, reports, grants, promises
  <1>4. IdsAreOld'
    BY <1>2 DEF BonusInv, IdsAreOld, parents
  <1>5. PlansSettle'
    BY <1>2, SameSkipped DEF BonusInv, PlansSettle, Granting, Settled, grants
  <1>6. PlansArePromised'
    BY <1>2 DEF BonusInv, PlansArePromised, Granting, promises
  <1>7. DueFromStart'
    BY <1>2 DEF BonusInv, DueFromStart, Granting, FirstDue
  <1>8. OnePerDay' /\ AllSettled' /\ PromiseCovers' /\ AskedForTomorrow' /\ OnlyPromisedDays'
    BY SameSkipped
       DEF BonusInv, OnePerDay, AllSettled, Settled, PromiseCovers, AskedForTomorrow,
           OnlyPromisedDays, Exists, parents, grants, promises
  <1>9. LogsFirst'
    BY <1>2, SameSkipped DEF BonusInv, LogsFirst, NothingToTell, grants
  <1> QED
    BY <1>3, <1>4, <1>5, <1>6, <1>7, <1>8, <1>9 DEF BonusInv

\* A parent asks, or is answered, without a trace.
LEMMA TracelessAnswer ==
    ASSUME BonusInv, asked' \in [Parent -> Asked], AskedForTomorrow',
           UNCHANGED <<ledgers, bonus, nextId, grants, promises, today, round, crashes>>
    PROVE  BonusInv'
  <1>1. TypeOK'
    BY DEF BonusInv, TypeOK, reports, grants, promises
  <1>2. IdsAreOld' /\ PlansSettle' /\ PlansArePromised' /\ DueFromStart' /\ LogsFirst'
    BY SameSkipped
       DEF BonusInv, IdsAreOld, PlansSettle, PlansArePromised, DueFromStart, LogsFirst,
           NothingToTell, Granting, Settled, FirstDue, grants, promises
  <1>3. OnePerDay' /\ AllSettled' /\ PromiseCovers' /\ OnlyPromisedDays'
    BY SameSkipped
       DEF BonusInv, OnePerDay, AllSettled, Settled, PromiseCovers, OnlyPromisedDays, Exists,
           grants, promises
  <1> QED
    BY <1>1, <1>2, <1>3 DEF BonusInv

\* A request that begins asks for a bonus from tomorrow on.
LEMMA BeginConfigureKeeps ==
    ASSUME BonusInv, NEW p \in Parent, NEW l \in Ledger, BeginConfigure(p, l)
    PROVE  BonusInv'
  <1> DEFINE a == [phase |-> "open", ledger |-> l, startsOn |-> NextDay, day |-> today]
  <1>1. today \in Day /\ today \in Nat
    BY DEF BonusInv, TypeOK, Day
  <1>2. a \in Asked
    BY <1>1 DEF Asked, NextDay
  <1>3. a.phase = "open" /\ a.startsOn = today + 1 /\ a.day = today
    BY DEF NextDay
  <1> HIDE DEF a
  <1>4. asked' = [asked EXCEPT ![p] = a]
    BY DEF BeginConfigure, a
  <1>5. asked' \in [Parent -> Asked]
    BY <1>2, <1>4 DEF BonusInv, TypeOK
  <1>6. \A q \in Parent : asked'[q] = IF q = p THEN a ELSE asked[q]
    BY <1>4 DEF BonusInv, TypeOK
  <1>7. AskedForTomorrow'
    BY <1>1, <1>3, <1>6 DEF BeginConfigure, BonusInv, AskedForTomorrow
  <1> QED
    BY <1>5, <1>7, TracelessAnswer DEF BeginConfigure

\* What an open request asks for.
LEMMA AskedOpen ==
    ASSUME TypeOK, NEW p \in Parent, asked[p].phase = "open"
    PROVE  asked[p].ledger \in Ledger /\ asked[p].startsOn \in Nat /\ asked[p].day \in Day
  <1>1. asked[p] \in [phase : {"open"}, ledger : Ledger, startsOn : Nat, day : Day]
    BY DEF TypeOK, Asked, NotAsking
  <1> QED
    BY <1>1

\* A request that meets a constraint leaves nothing.
LEMMA ConflictConfigureKeeps ==
    ASSUME BonusInv, NEW p \in Parent, ConflictConfigure(p)
    PROVE  BonusInv'
  <1>1. NotAsking \in Asked /\ NotAsking.phase # "open"
    BY DEF Asked, NotAsking
  <1>2. asked' = [asked EXCEPT ![p] = NotAsking]
    BY DEF ConflictConfigure
  <1>3. asked' \in [Parent -> Asked]
    BY <1>1, <1>2 DEF BonusInv, TypeOK
  <1>4. \A q \in Parent : asked'[q] = IF q = p THEN NotAsking ELSE asked[q]
    BY <1>2 DEF BonusInv, TypeOK
  <1>5. AskedForTomorrow'
    BY <1>1, <1>4 DEF ConflictConfigure, BonusInv, AskedForTomorrow
  <1> QED
    BY <1>3, <1>5, TracelessAnswer DEF ConflictConfigure

\* A new bonus has a new identifier, so that no open plan is for it.
LEMMA CommitConfigureKeeps ==
    ASSUME BonusInv, NEW p \in Parent, CommitConfigure(p)
    PROVE  BonusInv'
  <1> DEFINE l == asked[p].ledger
             b == [id |-> nextId, startsOn |-> asked[p].startsOn, through |-> -1]
             new == (asked[p].day + 1)..today
  <1>1. /\ l \in Ledger
        /\ asked[p].startsOn \in Nat
        /\ asked[p].startsOn = asked[p].day + 1
        /\ asked[p].day \in Day
        /\ nextId \in Nat \ {0}
        /\ today \in Day
    BY AskedOpen DEF CommitConfigure, BonusInv, TypeOK, AskedForTomorrow
  <1>2. b \in Bonus /\ b.id = nextId /\ b.startsOn = asked[p].day + 1 /\ b.through = -1
    BY <1>1 DEF Bonus
  <1>3. NotAsking \in Asked /\ NotAsking.phase # "open"
    BY DEF Asked, NotAsking
  <1>4. new \subseteq Day /\ \A d \in Day : asked[p].day + 1 <= d /\ d <= today => d \in new
    BY <1>1, BonusAssumption DEF Day
  <1>5. /\ bonus' = [bonus EXCEPT ![l] = b]
        /\ promised' = [promised EXCEPT ![l] = @ \cup new]
        /\ asked' = [asked EXCEPT ![p] = NotAsking]
        /\ nextId' = nextId + 1
        /\ UNCHANGED <<ledgers, grants, today, round, crashes>>
    BY DEF CommitConfigure
  <1> HIDE DEF l, b, new
  <1>6. /\ \A k \in Ledger : bonus'[k] = IF k = l THEN b ELSE bonus[k]
        /\ \A k \in Ledger : promised'[k] = IF k = l THEN promised[k] \cup new ELSE promised[k]
        /\ \A q \in Parent : asked'[q] = IF q = p THEN NotAsking ELSE asked[q]
    BY <1>1, <1>5 DEF BonusInv, TypeOK
  <1>7. TypeOK'
    <2>1. bonus' \in [Ledger -> Bonus] /\ promised' \in [Ledger -> SUBSET Day]
      BY <1>1, <1>2, <1>4, <1>5 DEF BonusInv, TypeOK
    <2>2. asked' \in [Parent -> Asked]
      BY <1>3, <1>5 DEF BonusInv, TypeOK
    <2>3. overtaken' \subseteq overtaken \cup {asked[p].ledger}
      BY DEF CommitConfigure
    <2>4. overtaken' \subseteq Ledger
      BY <1>1, <2>3 DEF BonusInv, TypeOK, l
    <2> QED
      BY <1>1, <1>5, <2>1, <2>2, <2>4 DEF BonusInv, TypeOK, reports, grants
  <1>8. \A w \in Worker, k \in Ledger :
            round[w].open => /\ round[w].plan[k].id \in Nat
                             /\ round[w].plan[k].id < nextId
    BY PlanOfRound DEF BonusInv, IdsAreOld
  <1>9. IdsAreOld'
    <2>1. \A k \in Ledger : bonus[k].id \in Nat /\ bonus[k].id < nextId
      BY DEF BonusInv, TypeOK, Bonus, IdsAreOld
    <2> QED
      BY <1>1, <1>2, <1>5, <1>6, <1>8, <2>1 DEF IdsAreOld
  <1>10. PlansSettle'
    BY <1>2, <1>5, <1>6, <1>8, SameSkipped DEF BonusInv, PlansSettle, Granting, Settled, grants
  <1>11. PlansArePromised'
    BY <1>5, <1>6 DEF BonusInv, PlansArePromised, Granting
  <1>12. DueFromStart'
    <2>1. \A w \in Worker, k \in Ledger : round[w].open =>
              round[w].plan[k].id # nextId
      BY <1>1, <1>8
    <2>2. b.startsOn <= FirstDue(b)
      BY <1>1, <1>2 DEF FirstDue, Day
    <2>3. \A k \in Ledger : (bonus[k].startsOn <= FirstDue(bonus[k]))'
      BY <1>6, <2>2 DEF BonusInv, DueFromStart, FirstDue
    <2>4. \A w \in Worker : round[w].open =>
            \A k \in Ledger :
                Granting(w, k) /\ bonus'[k].id = round[w].plan[k].id
                  => bonus'[k].startsOn <= round[w].last
      BY <1>2, <1>6, <2>1 DEF BonusInv, DueFromStart
    <2> QED
      BY <1>5, <2>3, <2>4 DEF DueFromStart, Granting
  <1>13. AllSettled'
    <2>1. \A d \in Day : ~(d <= -1)
      BY DEF Day
    <2> QED
      BY <1>2, <1>5, <1>6, <2>1, SameSkipped DEF BonusInv, AllSettled, Settled, Exists, grants
  <1>14. PromiseCovers'
    BY <1>2, <1>4, <1>5, <1>6 DEF BonusInv, PromiseCovers, Exists
  <1>15. AskedForTomorrow'
    BY <1>3, <1>5, <1>6 DEF BonusInv, AskedForTomorrow
  <1>16. OnePerDay' /\ OnlyPromisedDays'
    BY <1>5, <1>6 DEF BonusInv, OnePerDay, OnlyPromisedDays, grants
  <1>17. LogsFirst'
    BY <1>5, SameSkipped DEF BonusInv, LogsFirst, NothingToTell, grants
  <1> QED
    BY <1>7, <1>9, <1>10, <1>11, <1>12, <1>13, <1>14, <1>15, <1>16, <1>17 DEF BonusInv

\* Without its bonus a ledger has nothing to settle and no plan to be granted.
LEMMA WithoutBonus ==
    ASSUME BonusInv, NEW l \in Ledger, bonus' = [bonus EXCEPT ![l] = None],
           ledgers' \subseteq Ledger,
           granted' \in [Ledger \X Day -> Nat],
           \A x \in Ledger \X Day : x[1] # l => granted'[x] = granted[x],
           \A x \in Ledger \X Day : granted'[x] <= granted[x],
           UNCHANGED <<reports, promises, parents, today, round, crashes>>
    PROVE  BonusInv'
  <1>1. None \in Bonus /\ None.id = 0 /\ None.startsOn = 0 /\ FirstDue(None) = 0
    BY DEF None, Bonus, FirstDue
  <1>2. \A k \in Ledger : bonus'[k] = IF k = l THEN None ELSE bonus[k]
    BY DEF BonusInv, TypeOK
  <1>3. TypeOK'
    BY <1>1 DEF BonusInv, TypeOK, parents, reports, promises
  <1>4. IdsAreOld'
    BY <1>1, <1>2 DEF BonusInv, IdsAreOld, TypeOK, parents
  <1>5. \A k \in Ledger, d \in Day : k # l => granted'[<<k, d>>] = granted[<<k, d>>]
    OBVIOUS
  <1>6. PlansSettle'
    BY <1>1, <1>2, <1>5, SameSkipped DEF BonusInv, PlansSettle, Granting, Settled
  <1>7. PlansArePromised'
    BY DEF BonusInv, PlansArePromised, Granting, promises
  <1>8. DueFromStart'
    <2>1. \A k \in Ledger : (bonus[k].startsOn <= FirstDue(bonus[k]))'
      BY <1>1, <1>2 DEF BonusInv, DueFromStart, FirstDue
    <2>2. \A w \in Worker : round'[w].open =>
            \A k \in Ledger :
                round'[w].plan[k].id # 0 /\ bonus'[k].id = round'[w].plan[k].id
                  => bonus'[k].startsOn <= round'[w].last
      BY <1>1, <1>2 DEF BonusInv, DueFromStart, Granting
    <2> QED
      BY <2>1, <2>2 DEF DueFromStart, Granting
  <1>9. AllSettled'
    BY <1>1, <1>2, <1>5, SameSkipped DEF BonusInv, AllSettled, Settled, Exists
  <1>10. PromiseCovers' /\ AskedForTomorrow'
    BY <1>1, <1>2 DEF BonusInv, PromiseCovers, AskedForTomorrow, Exists, parents, promises
  <1>11. \A x \in Ledger \X Day : granted[x] \in Nat /\ granted'[x] \in Nat
    BY DEF BonusInv, TypeOK
  <1>12. OnePerDay'
    BY <1>11 DEF BonusInv, OnePerDay
  <1>13. OnlyPromisedDays'
    <2>1. \A k \in Ledger, d \in Day : granted'[<<k, d>>] >= 1 => granted[<<k, d>>] >= 1
      BY <1>11
    <2> QED
      BY <2>1 DEF BonusInv, OnlyPromisedDays, promises
  <1>14. LogsFirst'
    BY SameSkipped DEF BonusInv, LogsFirst, NothingToTell
  <1> QED
    BY <1>3, <1>4, <1>6, <1>7, <1>8, <1>9, <1>10, <1>12, <1>13, <1>14 DEF BonusInv

\* A stop removes the bonus and nothing else.
LEMMA StopKeeps ==
    ASSUME BonusInv, NEW l \in Ledger, Stop(l)
    PROVE  BonusInv'
  <1>1. \A x \in Ledger \X Day : granted'[x] = granted[x] /\ granted[x] \in Nat
    BY DEF Stop, grants, BonusInv, TypeOK
  <1>2. granted' \in [Ledger \X Day -> Nat] /\ ledgers' \subseteq Ledger
    BY DEF Stop, grants, BonusInv, TypeOK
  <1>3. \A x \in Ledger \X Day : granted'[x] <= granted[x]
    BY <1>1
  <1> QED
    BY <1>1, <1>2, <1>3, WithoutBonus DEF Stop, grants

\* A ledger that is closed takes its bonus and its rows with it.
LEMMA CloseKeeps ==
    ASSUME BonusInv, NEW l \in Ledger, Close(l)
    PROVE  BonusInv'
  <1>1. \A x \in Ledger \X Day : /\ granted'[x] = IF x[1] = l THEN 0 ELSE granted[x]
                                 /\ granted[x] \in Nat
    BY DEF Close, BonusInv, TypeOK
  <1>2. granted' \in [Ledger \X Day -> Nat] /\ ledgers' \subseteq Ledger
    BY DEF Close, BonusInv, TypeOK
  <1>3. \A x \in Ledger \X Day : granted'[x] <= granted[x]
    BY <1>1
  <1>4. \A x \in Ledger \X Day : x[1] # l => granted'[x] = granted[x]
    BY <1>1
  <1> QED
    BY <1>2, <1>3, <1>4, WithoutBonus DEF Close

\* A plan settles, from the start of the bonus to the day it was made.
LEMMA BeginRoundKeeps ==
    ASSUME BonusInv, NEW w \in Worker, BeginRound(w)
    PROVE  BonusInv'
  <1> DEFINE R == [open |-> TRUE, last |-> today, plan |-> [l \in Ledger |-> Plan(l)]]
  <1>1. R \in Round
    BY PlanTyped DEF BonusInv, TypeOK, Round
  <1>2. R.open /\ R.last = today /\ \A l \in Ledger : R.plan[l] = Plan(l)
    OBVIOUS
  <1>3. /\ round' = [round EXCEPT ![w] = R]
        /\ UNCHANGED <<ledgers, bonus, parents, grants, promises, today, crashes>>
    BY DEF BeginRound
  <1> HIDE DEF R
  <1>4. \A v \in Worker : round'[v] = IF v = w THEN R ELSE round[v]
    BY <1>3 DEF BonusInv, TypeOK
  <1>5. \A l \in Ledger : /\ bonus[l] \in Bonus
                          /\ bonus[l].id \in Nat
                          /\ bonus[l].startsOn \in Nat
                          /\ bonus[l].through \in Nat \cup {-1}
                          /\ today \in Nat
    BY DEF BonusInv, TypeOK, Bonus, Day
  <1>6. TypeOK'
    <2>1. round' \in [Worker -> Round]
      BY <1>1, <1>3 DEF BonusInv, TypeOK
    <2> QED
      BY <1>3, <2>1 DEF BonusInv, TypeOK, parents, reports, grants, promises
  <1>7. IdsAreOld'
    <2>1. \A l \in Ledger : Plan(l).id < nextId
      <3>1. nextId \in Nat \ {0} /\ \A l \in Ledger : bonus[l].id < nextId
        BY DEF BonusInv, IdsAreOld, TypeOK
      <3>2. \A l \in Ledger : Plan(l).id = bonus[l].id \/ Plan(l).id = 0
        BY DEF Plan
      <3>3. ASSUME NEW l \in Ledger PROVE Plan(l).id < nextId
        <4>1. CASE Plan(l).id = 0
          <5>1. 0 < nextId
            BY <3>1
          <5> QED
            BY <4>1, <5>1
        <4>2. CASE Plan(l).id = bonus[l].id
          BY <3>1, <4>2
        <4> QED
          BY <3>2, <4>1, <4>2
      <3> QED
        BY <3>3
    <2> QED
      BY <1>2, <1>3, <1>4, <2>1 DEF BonusInv, IdsAreOld, parents
  <1>8. \A l \in Ledger, d \in Day :
            Plan(l).id # 0 /\ bonus[l].startsOn <= d /\ d <= today
            => Settled(l, d) \/ d \in Plan(l).fresh \/ d \in Plan(l).skip
    <2> SUFFICES ASSUME NEW l \in Ledger, NEW d \in Day, Plan(l).id # 0,
                        bonus[l].startsOn <= d, d <= today
                 PROVE  Settled(l, d) \/ d \in Plan(l).fresh \/ d \in Plan(l).skip
      OBVIOUS
    <2>1. Exists(bonus[l]) /\ d \in Nat
      BY DEF Plan, IsDue, Day
    <2>2. granted[<<l, d>>] \in Nat
      BY DEF BonusInv, TypeOK
    <2>3. CASE d < FirstDue(bonus[l])
      <3>1. d <= bonus[l].through
        BY <1>5, <2>1, <2>3 DEF FirstDue
      <3> QED
        BY <2>1, <3>1 DEF BonusInv, AllSettled, Settled
    <2>4. CASE FirstDue(bonus[l]) <= d
      <3>1. d \in DueDays(bonus[l]) \/ d \in SkippedDays(bonus[l])
        BY <1>5, <2>4, DueOrSkipped DEF BonusInv, TypeOK
      <3> QED
        BY <2>2, <3>1 DEF Plan, Settled
    <2>5. FirstDue(bonus[l]) \in Int
      BY <1>5 DEF FirstDue
    <2> QED
      BY <2>1, <2>3, <2>4, <2>5
  <1>9. PlansSettle'
    BY <1>2, <1>3, <1>4, <1>8, SameSkipped DEF BonusInv, PlansSettle, Granting, Settled, grants
  <1>10. \A l \in Ledger : Plan(l).id # 0 => bonus[l].startsOn <= today
    BY <1>5 DEF Plan, IsDue, BonusInv, DueFromStart, FirstDue
  <1>11. \A l \in Ledger : Plan(l).id # 0 => Plan(l).fresh \subseteq promised[l]
    <2> SUFFICES ASSUME NEW l \in Ledger, Plan(l).id # 0, NEW d \in Plan(l).fresh
                 PROVE  d \in promised[l]
      OBVIOUS
    <2>1. d \in Day /\ FirstDue(bonus[l]) <= d /\ d <= today /\ Exists(bonus[l])
      BY DEF Plan, DueDays, IsDue
    <2>2. bonus[l].startsOn <= d
      BY <1>5, <2>1 DEF BonusInv, DueFromStart, FirstDue, Day
    <2> QED
      BY <2>1, <2>2 DEF BonusInv, PromiseCovers
  <1>12. PlansArePromised'
    BY <1>2, <1>3, <1>4, <1>11 DEF BonusInv, PlansArePromised, Granting, promises
  <1>13. DueFromStart'
    <2>1. \A l \in Ledger : (bonus[l].startsOn <= FirstDue(bonus[l]))'
      BY <1>3 DEF BonusInv, DueFromStart, FirstDue
    <2>2. \A v \in Worker : round'[v].open =>
            \A l \in Ledger :
                round'[v].plan[l].id # 0 /\ bonus[l].id = round'[v].plan[l].id
                  => bonus[l].startsOn <= round'[v].last
      BY <1>2, <1>4, <1>10 DEF BonusInv, DueFromStart, Granting
    <2> QED
      BY <1>3, <2>1, <2>2 DEF DueFromStart, Granting
  <1>14. OnePerDay' /\ AllSettled' /\ PromiseCovers' /\ AskedForTomorrow' /\ OnlyPromisedDays'
    BY <1>3, SameSkipped
       DEF BonusInv, OnePerDay, AllSettled, Settled, PromiseCovers, AskedForTomorrow,
           OnlyPromisedDays, Exists, parents, grants, promises
  <1>15. LogsFirst'
    <2>1. telling[w] = NothingToTell
      BY DEF BeginRound
    <2>2. \A v \in Worker : round'[v].open => telling[v] = NothingToTell
      BY <1>4, <2>1 DEF BonusInv, LogsFirst
    <2> QED
      BY <1>3, <2>2, SameSkipped DEF LogsFirst, NothingToTell, grants
  <1> QED
    BY <1>6, <1>7, <1>9, <1>12, <1>13, <1>14, <1>15 DEF BonusInv

\* A round that commits grants its fresh days once, and settles its bonuses up
\* to the day it read.
LEMMA CommitRoundKeeps ==
    ASSUME BonusInv, NEW w \in Worker, CommitRound(w)
    PROVE  BonusInv'
  <1>1. /\ round[w].open
        /\ \A l \in Ledger : Granting(w, l) =>
              /\ bonus[l].id = round[w].plan[l].id
              /\ \A d \in round[w].plan[l].fresh : granted[<<l, d>>] = 0
        /\ UNCHANGED <<ledgers, parents, promises, today, crashes>>
    BY DEF CommitRound, CanCommit, Writable
  <1>2. /\ \A l \in Ledger, d \in Day :
               Granting(w, l) /\ d \in round[w].plan[l].fresh
                   => granted'[<<l, d>>] = granted[<<l, d>>] + 1
        /\ \A l \in Ledger, d \in Day :
               ~(Granting(w, l) /\ d \in round[w].plan[l].fresh)
                   => granted'[<<l, d>>] = granted[<<l, d>>]
    <2>1. ASSUME NEW l \in Ledger, NEW d \in Day
          PROVE  granted'[<<l, d>>] = IF Granting(w, l) /\ d \in round[w].plan[l].fresh
                                        THEN granted[<<l, d>>] + 1 ELSE granted[<<l, d>>]
      BY DEF CommitRound
    <2> QED
      BY <2>1
  <1>3. ASSUME NEW l \in Ledger, Granting(w, l)
        PROVE  /\ bonus'[l] = [id |-> bonus[l].id, startsOn |-> bonus[l].startsOn,
                               through |-> round[w].last]
               /\ bonus'[l].id = bonus[l].id
               /\ bonus'[l].startsOn = bonus[l].startsOn
               /\ bonus'[l].through = round[w].last
               /\ skipped'[l] = skipped[l] \cup round[w].plan[l].skip
    <2>1. bonus'[l] = [id |-> bonus[l].id, startsOn |-> bonus[l].startsOn,
                       through |-> round[w].last]
      BY <1>3 DEF CommitRound
    <2>2. skipped'[l] = skipped[l] \cup round[w].plan[l].skip
      BY <1>3, CommitSkips DEF BonusInv
    <2> QED
      BY <2>1, <2>2
  <1>4. ASSUME NEW l \in Ledger, ~Granting(w, l)
        PROVE  bonus'[l] = bonus[l] /\ skipped'[l] = skipped[l]
    <2>1. bonus'[l] = bonus[l]
      BY <1>4 DEF CommitRound
    <2>2. skipped'[l] = skipped[l]
      BY <1>4, CommitSkips DEF BonusInv
    <2> QED
      BY <2>1, <2>2
  <1>5. \A v \in Worker : round'[v] = IF v = w THEN [open |-> FALSE] ELSE round[v]
    BY DEF CommitRound, EndOf, BonusInv, TypeOK
  <1>6. \A v \in Worker : round'[v].open => v # w /\ round'[v] = round[v] /\ round[v].open
    BY <1>5
  <1>7. \A l \in Ledger : /\ round[w].last \in Day
                          /\ round[w].plan[l].id \in Nat
                          /\ round[w].plan[l].fresh \subseteq Day
                          /\ round[w].plan[l].skip \subseteq Day
    BY <1>1, PlanOfRound DEF BonusInv
  <1>8. \A l \in Ledger : /\ bonus[l].id \in Nat
                          /\ bonus[l].startsOn \in Nat
                          /\ bonus[l].through \in Nat \cup {-1}
    BY DEF BonusInv, TypeOK, Bonus
  <1>9. \A l \in Ledger, d \in Day : granted[<<l, d>>] \in Nat
    BY DEF BonusInv, TypeOK
  <1>10. \A l \in Ledger : bonus'[l].id = bonus[l].id /\ bonus'[l].startsOn = bonus[l].startsOn
    BY <1>3, <1>4
  <1>11. \A l \in Ledger, d \in Day : Settled(l, d) => Settled(l, d)'
    <2>1. \A l \in Ledger : skipped[l] \subseteq skipped'[l]
      BY <1>3, <1>4
    <2>2. \A l \in Ledger, d \in Day : granted[<<l, d>>] >= 1 => granted'[<<l, d>>] >= 1
      BY <1>9, <1>2
    <2> QED
      BY <2>1, <2>2 DEF Settled
  <1>12. \A l \in Ledger, d \in Day :
            Granting(w, l) /\ (d \in round[w].plan[l].fresh \/ d \in round[w].plan[l].skip)
                => Settled(l, d)'
    <2>1. \A l \in Ledger, d \in Day :
              Granting(w, l) /\ d \in round[w].plan[l].fresh => granted'[<<l, d>>] >= 1
      BY <1>9, <1>2
    <2> QED
      BY <1>3, <2>1 DEF Settled
  <1>13. TypeOK'
    <2>1. granted' \in [Ledger \X Day -> Nat]
      BY DEF CommitRound, BonusInv, TypeOK
    <2>2. bonus' \in [Ledger -> Bonus]
      <3>1. \A l \in Ledger : bonus'[l] \in Bonus
        <4> TAKE l \in Ledger
        <4>1. CASE Granting(w, l)
          <5>1. round[w].last \in Nat
            BY <1>7 DEF Day
          <5>2. bonus[l].id \in Nat /\ bonus[l].startsOn \in Nat
            BY <1>8
          <5>3. [id |-> bonus[l].id, startsOn |-> bonus[l].startsOn,
                 through |-> round[w].last] \in Bonus
            BY <5>1, <5>2, BonusRecord
          <5>4. bonus'[l] = [id |-> bonus[l].id, startsOn |-> bonus[l].startsOn,
                             through |-> round[w].last]
            BY <1>3, <4>1
          <5> QED
            BY <5>3, <5>4
        <4>2. CASE ~Granting(w, l)
          BY <1>4, <4>2 DEF BonusInv, TypeOK
        <4> QED
          BY <4>1, <4>2
      <3> QED
        BY <3>1 DEF CommitRound
    <2>3. UNCHANGED <<reported, cutOff>> /\ telling' \in [Worker -> [Ledger -> SUBSET Day]]
      <3> DEFINE T == [l \in Ledger |-> IF Granting(w, l) THEN round[w].plan[l].skip ELSE {}]
      <3>1. T \in [Ledger -> SUBSET Day]
        BY <1>7
      <3>2. telling' = [telling EXCEPT ![w] = T] /\ UNCHANGED <<reported, cutOff>>
        BY DEF CommitRound
      <3> HIDE DEF T
      <3> QED
        BY <3>1, <3>2 DEF BonusInv, TypeOK
    <2>4. round' \in [Worker -> Round]
      BY DEF CommitRound, EndOf, BonusInv, TypeOK, Round
    <2> QED
      BY <1>1, <2>1, <2>2, <2>3, <2>4 DEF BonusInv, TypeOK, parents, promises
  <1>14. IdsAreOld'
    BY <1>1, <1>6, <1>10 DEF BonusInv, IdsAreOld, parents
  <1>15. OnePerDay'
    <2>1. \A l \in Ledger, d \in Day : granted'[<<l, d>>] <= 1
      <3> TAKE l \in Ledger, d \in Day
      <3>1. CASE Granting(w, l) /\ d \in round[w].plan[l].fresh
        BY <1>1, <1>2, <3>1
      <3>2. CASE ~(Granting(w, l) /\ d \in round[w].plan[l].fresh)
        <4>1. granted[<<l, d>>] <= 1
          BY DEF BonusInv, OnePerDay
        <4> QED
          BY <1>2, <3>2, <4>1
      <3> QED
        BY <3>1, <3>2
    <2> QED
      BY <2>1 DEF OnePerDay
  <1>16. AllSettled'
    <2> SUFFICES ASSUME NEW l \in Ledger, NEW d \in Day, bonus'[l].id # 0,
                        bonus'[l].startsOn <= d, d <= bonus'[l].through
                 PROVE  Settled(l, d)'
      BY DEF AllSettled, Settled, Exists
    <2>1. CASE Granting(w, l)
      <3>1. bonus'[l].through = round[w].last
        BY <1>3, <2>1
      <3>2. Settled(l, d) \/ d \in round[w].plan[l].fresh \/ d \in round[w].plan[l].skip
        BY <1>1, <1>10, <2>1, <3>1 DEF BonusInv, PlansSettle
      <3> QED
        BY <1>11, <1>12, <2>1, <3>2
    <2>2. CASE ~Granting(w, l)
      <3>1. bonus'[l] = bonus[l]
        BY <1>4, <2>2
      <3> QED
        BY <1>11, <3>1 DEF BonusInv, AllSettled, Settled, Exists
    <2> QED
      BY <2>1, <2>2
  <1>17. PlansSettle'
    <2> SUFFICES ASSUME NEW v \in Worker, round'[v].open, NEW l \in Ledger, NEW d \in Day,
                        round'[v].plan[l].id # 0, bonus'[l].id = round'[v].plan[l].id,
                        bonus'[l].startsOn <= d, d <= round'[v].last
                 PROVE  \/ Settled(l, d)'
                        \/ d \in round'[v].plan[l].fresh \/ d \in round'[v].plan[l].skip
      BY DEF PlansSettle, Granting
    <2>1. \/ Settled(l, d) \/ d \in round[v].plan[l].fresh \/ d \in round[v].plan[l].skip
      BY <1>6, <1>10 DEF BonusInv, PlansSettle, Granting
    <2> QED
      BY <1>6, <1>11, <2>1
  <1>18. PromiseCovers' /\ AskedForTomorrow'
    BY <1>1, <1>10 DEF BonusInv, PromiseCovers, AskedForTomorrow, Exists, parents, promises
  <1>19. PlansArePromised'
    BY <1>1, <1>6 DEF BonusInv, PlansArePromised, Granting, promises
  <1>20. DueFromStart'
    <2>1. ASSUME NEW l \in Ledger PROVE bonus'[l].startsOn <= FirstDue(bonus'[l])
      <3>1. CASE Granting(w, l)
        <4>1. bonus[l].startsOn <= round[w].last
          BY <1>1, <3>1 DEF BonusInv, DueFromStart
        <4>2. bonus'[l].through = round[w].last
          BY <1>3, <3>1
        <4> QED
          BY <1>7, <1>8, <1>10, <4>1, <4>2 DEF FirstDue, Day
      <3>2. CASE ~Granting(w, l)
        BY <1>4, <3>2 DEF BonusInv, DueFromStart
      <3> QED
        BY <3>1, <3>2
    <2>2. \A v \in Worker : round'[v].open =>
            \A l \in Ledger :
                round'[v].plan[l].id # 0 /\ bonus'[l].id = round'[v].plan[l].id
                  => bonus'[l].startsOn <= round'[v].last
      BY <1>6, <1>10 DEF BonusInv, DueFromStart, Granting
    <2> QED
      BY <2>1, <2>2 DEF DueFromStart, Granting, FirstDue
  <1>21. OnlyPromisedDays'
    <2> SUFFICES ASSUME NEW l \in Ledger, NEW d \in Day, granted'[<<l, d>>] >= 1
                 PROVE  d \in promised[l]
      BY <1>1 DEF OnlyPromisedDays, promises
    <2>1. CASE Granting(w, l) /\ d \in round[w].plan[l].fresh
      BY <1>1, <2>1 DEF BonusInv, PlansArePromised
    <2>2. CASE ~(Granting(w, l) /\ d \in round[w].plan[l].fresh)
      BY <1>2, <2>2 DEF BonusInv, OnlyPromisedDays
    <2> QED
      BY <2>1, <2>2
  <1>22. LogsFirst'
    <2>1. \A v \in Worker : v # w => telling'[v] = telling[v]
      BY DEF CommitRound, BonusInv, TypeOK
    <2> QED
      BY <1>6, <2>1 DEF BonusInv, LogsFirst, NothingToTell
  <1> QED
    BY <1>13, <1>14, <1>15, <1>16, <1>17, <1>18, <1>19, <1>20, <1>21, <1>22 DEF BonusInv

\* A new day is promised by every bonus that has started by then.
LEMMA TickKeeps ==
    ASSUME BonusInv, Tick
    PROVE  BonusInv'
  <1>1. /\ today \in Day /\ today' = today + 1 /\ today' \in Day
        /\ UNCHANGED <<ledgers, bonus, parents, grants, round, crashes>>
    BY BonusAssumption DEF Tick, BonusInv, TypeOK, Day
  <1>2. \A l \in Ledger :
            promised'[l] = IF Exists(bonus[l]) /\ bonus[l].startsOn <= today + 1
                             THEN promised[l] \cup {today + 1} ELSE promised[l]
    BY DEF Tick
  <1>3. TypeOK'
    <2>1. promised' \in [Ledger -> SUBSET Day]
      BY <1>1 DEF Tick, BonusInv, TypeOK
    <2> QED
      BY <1>1, <2>1 DEF Tick, BonusInv, TypeOK, parents, reports, grants
  <1>4. /\ IdsAreOld' /\ PlansSettle' /\ DueFromStart' /\ OnePerDay' /\ AllSettled'
        /\ LogsFirst'
    BY <1>1, SameSkipped
       DEF BonusInv, IdsAreOld, PlansSettle, DueFromStart, OnePerDay, AllSettled, LogsFirst,
           NothingToTell, Granting, Settled, Exists, FirstDue, parents, grants, promises
  <1>5. \A l \in Ledger : promised[l] \subseteq promised'[l]
    BY <1>2
  <1>6. PlansArePromised' /\ OnlyPromisedDays'
    BY <1>1, <1>5 DEF BonusInv, PlansArePromised, OnlyPromisedDays, Granting, grants
  <1>7. PromiseCovers'
    <2>1. \A d \in Day : d <= today + 1 => d <= today \/ d = today + 1
      BY <1>1 DEF Day
    <2> QED
      BY <1>1, <1>2, <2>1 DEF BonusInv, PromiseCovers, Exists
  <1>8. AskedForTomorrow'
    <2>1. \A p \in Parent : asked[p].phase = "open" => asked[p].day \in Day
      BY AskedOpen DEF BonusInv
    <2> QED
      BY <1>1, <2>1 DEF BonusInv, AskedForTomorrow, parents, Day
  <1> QED
    BY <1>3, <1>4, <1>6, <1>7, <1>8 DEF BonusInv

-----------------------------------------------------------------------------
(* The invariant holds in every reachable state.                             *)

\* Nothing is promised or granted at first.
LEMMA InitHolds == Init => BonusInv
  <1> SUFFICES ASSUME Init PROVE BonusInv
    OBVIOUS
  <1>1. None \in Bonus /\ None.id = 0 /\ None.startsOn = 0 /\ FirstDue(None) = 0
    BY DEF None, Bonus, FirstDue
  <1>2. TypeOK
    BY <1>1, BonusAssumption DEF Init, TypeOK, Day, Round, Asked, NothingToTell
  <1>3. \A w \in Worker : ~round[w].open
    BY DEF Init
  <1>4. IdsAreOld /\ PlansSettle /\ PlansArePromised /\ DueFromStart /\ LogsFirst
    BY <1>1, <1>3 DEF Init, IdsAreOld, LogsFirst, PlansSettle, PlansArePromised, DueFromStart
  <1>5. OnePerDay /\ AllSettled /\ PromiseCovers /\ AskedForTomorrow /\ OnlyPromisedDays
    BY <1>1 DEF Init, OnePerDay, AllSettled, PromiseCovers, AskedForTomorrow,
                OnlyPromisedDays, Exists, NotAsking
  <1> QED
    BY <1>2, <1>4, <1>5 DEF BonusInv

\* Every step keeps the invariant.
LEMMA NextKeeps == BonusInv /\ [Next]_vars => BonusInv'
  <1> SUFFICES ASSUME BonusInv, [Next]_vars PROVE BonusInv'
    OBVIOUS
  <1>1. CASE Tick
    BY <1>1, TickKeeps
  <1>2. ASSUME NEW p \in Parent, Configuring(p) PROVE BonusInv'
    BY <1>2, BeginConfigureKeeps, CommitConfigureKeeps, ConflictConfigureKeeps DEF Configuring
  <1>3. ASSUME NEW l \in Ledger, Stop(l) \/ Close(l) PROVE BonusInv'
    BY <1>3, StopKeeps, CloseKeeps
  <1>4. ASSUME NEW w \in Worker, BeginRound(w) PROVE BonusInv'
    BY <1>4, BeginRoundKeeps
  <1>5. ASSUME NEW w \in Worker, EndRound(w) PROVE BonusInv'
    <2>1. CASE FailRound(w)
      <3>1. crashes' \in Nat
        BY <2>1 DEF FailRound, BonusInv, TypeOK
      <3> QED
        BY <2>1, <3>1, TracelessEnd DEF FailRound
    <2> QED
      BY <1>5, <2>1, CommitRoundKeeps DEF EndRound
  <1>6. ASSUME NEW w \in Worker, CrashRound(w) PROVE BonusInv'
    <2>1. crashes' \in Nat
      BY <1>6 DEF CrashRound, BonusInv, TypeOK
    <2> QED
      BY <1>6, <2>1, TracelessEnd DEF CrashRound
  <1>7. CASE UNCHANGED vars
    BY <1>7, SameSkipped
       DEF vars, reports, BonusInv, TypeOK, IdsAreOld, OnePerDay, AllSettled, PlansSettle,
           LogsFirst, NothingToTell, PromiseCovers, PlansArePromised, AskedForTomorrow,
           DueFromStart, OnlyPromisedDays, Granting, Settled, Exists, FirstDue
  <1> QED
    BY <1>1, <1>2, <1>3, <1>4, <1>5, <1>6, <1>7, TellingKeeps DEF Next

\* The invariant holds throughout every behaviour.
LEMMA InvariantHolds == Spec => []BonusInv
  BY InitHolds, NextKeeps, PTL DEF Spec

(***************************************************************************)
(* Every reachable state of the daily bonuses is well typed.               *)
(***************************************************************************)
THEOREM BonusTypesCorrect == Spec => []TypeOK
  <1>1. BonusInv => TypeOK
    BY DEF BonusInv
  <1> QED
    BY <1>1, InvariantHolds, PTL

(***************************************************************************)
(* No day is granted twice (grant_due_daily_bonuses.py: neither several    *)
(* workers nor a restart in the middle lead to a double grant).            *)
(***************************************************************************)
THEOREM NeverTwice == Spec => []OnePerDay
  <1>1. BonusInv => OnePerDay
    BY DEF BonusInv
  <1> QED
    BY <1>1, InvariantHolds, PTL

\* What is skipped is logged, lost with a worker or still to be logged.
LEMMA SkippedIs ==
    ASSUME NEW l \in Ledger, NEW d \in skipped[l]
    PROVE  d \in reported[l] \cup cutOff[l] \/ \E w \in Worker : d \in telling[w][l]
  BY DEF skipped

(***************************************************************************)
(* No day up to granted_through is lost without being logged, unless its   *)
(* worker has still to log it or died before it could (due_days, _report). *)
(***************************************************************************)
THEOREM NeverLost == Spec => []SettledDays
  <1>1. BonusInv => SettledDays
    BY SkippedIs DEF BonusInv, AllSettled, Settled, SettledDays
  <1> QED
    BY <1>1, InvariantHolds, PTL

(***************************************************************************)
(* Only days on which a promise was in force are granted (_next_day).      *)
(***************************************************************************)
THEOREM OnlyWhatWasPromised == Spec => []OnlyPromisedDays
  <1>1. BonusInv => OnlyPromisedDays
    BY DEF BonusInv
  <1> QED
    BY <1>1, InvariantHolds, PTL

-----------------------------------------------------------------------------
(* The archive of a bonus.                                                   *)

\* Nothing is granted ahead of time, and no plan does.
GrantedByToday ==
    /\ \A l \in Ledger, d \in Day : granted[<<l, d>>] > 0 => d <= today
    /\ \A w \in Worker : round[w].open =>
          /\ round[w].last <= today
          /\ \A l \in Ledger : \A d \in round[w].plan[l].fresh : d <= round[w].last

\* A bonus was granted through a day on or after its start.
StartedThrough ==
    \A l \in Ledger : bonus[l].through # -1 => bonus[l].startsOn <= bonus[l].through

\* The days that are granted end before the next one that is due.
NothingDueAgain ==
    \A l \in Ledger : Exists(bonus[l]) /\ skipped[l] = {} /\ l \notin overtaken =>
        \A d \in Day : granted[<<l, d>>] > 0 => d < FirstDue(bonus[l])

\* A plan grants the very day it was made on.
PlansGrantTheirDay ==
    \A w \in Worker : round[w].open =>
        \A l \in Ledger : Granting(w, l) /\ skipped[l] = {} /\ l \notin overtaken
            => round[w].last \in round[w].plan[l].fresh

RepeatInv ==
    /\ GrantedByToday
    /\ StartedThrough
    /\ NothingDueAgain
    /\ PlansGrantTheirDay

\* What only ends a round, or changes requests, repeats nothing.
LEMMA RepeatsRest ==
    ASSUME BonusInv, RepeatInv,
           \A v \in Worker : round'[v].open => round'[v] = round[v],
           UNCHANGED <<bonus, granted, skipped, overtaken>>,
           today \in Nat, today' \in Nat, today <= today'
    PROVE  RepeatInv'
  <1>1. UNCHANGED <<granted, skipped, overtaken, bonus>>
    OBVIOUS
  <1>2. \A v \in Worker : round[v].open => round[v].last \in Day
    BY DEF BonusInv, TypeOK, Round
  <1>3. \A d \in Day : d <= today => d <= today'
    BY DEF Day
  <1>4. GrantedByToday'
    BY <1>1, <1>2, <1>3 DEF RepeatInv, GrantedByToday
  <1>5. StartedThrough' /\ NothingDueAgain'
    BY <1>1 DEF RepeatInv, StartedThrough, NothingDueAgain, Exists, FirstDue
  <1>6. PlansGrantTheirDay'
    BY <1>1 DEF RepeatInv, PlansGrantTheirDay, Granting
  <1> QED
    BY <1>4, <1>5, <1>6 DEF RepeatInv

\* A new bonus starts after every day that is granted, or was overtaken.
LEMMA CommitConfigureRepeats ==
    ASSUME BonusInv, RepeatInv, NEW p \in Parent, CommitConfigure(p)
    PROVE  RepeatInv'
  <1> DEFINE l == asked[p].ledger
             b == [id |-> nextId, startsOn |-> asked[p].startsOn, through |-> -1]
  <1>1. /\ l \in Ledger
        /\ asked[p].startsOn = asked[p].day + 1
        /\ asked[p].day \in Day
        /\ today \in Day
    BY AskedOpen DEF CommitConfigure, BonusInv, TypeOK, AskedForTomorrow
  <1>2. b.startsOn = asked[p].day + 1 /\ b.through = -1
    BY <1>1
  <1>3. /\ bonus' = [bonus EXCEPT ![l] = b]
        /\ overtaken' = IF \E d \in Day : d > asked[p].day /\ granted[<<l, d>>] > 0
                          THEN overtaken \cup {l} ELSE overtaken
        /\ UNCHANGED <<granted, skipped, today, round>>
    BY SameSkipped DEF CommitConfigure, grants
  <1> HIDE DEF l, b
  <1>4. \A k \in Ledger : bonus'[k] = IF k = l THEN b ELSE bonus[k]
    BY <1>1, <1>3 DEF BonusInv, TypeOK
  <1>5. overtaken \subseteq overtaken'
    BY <1>3
  <1>6. GrantedByToday'
    BY <1>3 DEF RepeatInv, GrantedByToday
  <1>7. StartedThrough'
    BY <1>2, <1>4 DEF RepeatInv, StartedThrough
  <1>8. l \notin overtaken' => \A d \in Day : granted[<<l, d>>] > 0 => ~(d > asked[p].day)
    BY <1>3
  <1>9. NothingDueAgain'
    <2>1. \A d \in Day : ~(d > asked[p].day) => d < FirstDue(b)
      BY <1>1, <1>2 DEF FirstDue, Day
    <2>2. \A k \in Ledger : k # l => bonus'[k] = bonus[k]
      BY <1>4
    <2> QED
      BY <1>1, <1>3, <1>4, <1>5, <1>8, <2>1, <2>2
         DEF RepeatInv, NothingDueAgain, Exists, FirstDue
  <1>10. PlansGrantTheirDay'
    BY <1>3, <1>5 DEF RepeatInv, PlansGrantTheirDay, Granting
  <1> QED
    BY <1>6, <1>7, <1>9, <1>10 DEF RepeatInv

\* A bonus that is gone has nothing due; a ledger that is gone has no days.
LEMMA WithoutBonusRepeats ==
    ASSUME BonusInv, RepeatInv, NEW l \in Ledger, Stop(l) \/ Close(l)
    PROVE  RepeatInv'
  <1>1. /\ bonus' = [bonus EXCEPT ![l] = None]
        /\ UNCHANGED <<skipped, overtaken, today, round>>
    BY SameSkipped DEF Stop, Close, grants, promises
  <1>2. None.id = 0 /\ None.through = -1
    BY DEF None
  <1>3. \A k \in Ledger : bonus'[k] = IF k = l THEN None ELSE bonus[k]
    BY <1>1 DEF BonusInv, TypeOK
  <1>4. \A k \in Ledger, d \in Day : granted'[<<k, d>>] > 0 => granted[<<k, d>>] > 0
    <2>1. CASE Stop(l)
      BY <2>1 DEF Stop, grants
    <2>2. CASE Close(l)
      <3>1. \A k \in Ledger, d \in Day :
                granted'[<<k, d>>] = IF k = l THEN 0 ELSE granted[<<k, d>>]
        BY <2>2 DEF Close
      <3> QED
        BY <3>1
    <2> QED
      BY <2>1, <2>2
  <1>5. GrantedByToday'
    BY <1>1, <1>4 DEF RepeatInv, GrantedByToday
  <1>6. StartedThrough'
    BY <1>2, <1>3 DEF RepeatInv, StartedThrough
  <1>7. NothingDueAgain'
    BY <1>1, <1>2, <1>3, <1>4 DEF RepeatInv, NothingDueAgain, Exists, FirstDue
  <1>8. PlansGrantTheirDay'
    BY <1>1 DEF RepeatInv, PlansGrantTheirDay, Granting
  <1> QED
    BY <1>5, <1>6, <1>7, <1>8 DEF RepeatInv

\* The day of a round that is due has no row yet.
LEMMA BeginRoundRepeats ==
    ASSUME BonusInv, RepeatInv, NEW w \in Worker, BeginRound(w)
    PROVE  RepeatInv'
  <1> DEFINE R == [open |-> TRUE, last |-> today, plan |-> [l \in Ledger |-> Plan(l)]]
  <1>1. R.open /\ R.last = today /\ \A l \in Ledger : R.plan[l] = Plan(l)
    OBVIOUS
  <1>2. /\ round' = [round EXCEPT ![w] = R]
        /\ UNCHANGED <<bonus, granted, skipped, overtaken, today>>
    BY SameSkipped DEF BeginRound, grants, promises
  <1> HIDE DEF R
  <1>3. \A v \in Worker : round'[v] = IF v = w THEN R ELSE round[v]
    BY <1>2 DEF BonusInv, TypeOK
  <1>4. today \in Day /\ today \in Nat /\ today - today = 0
    BY DEF BonusInv, TypeOK, Day
  <1>5. GrantedByToday'
    <2>1. \A l \in Ledger : \A d \in Plan(l).fresh : d <= today
      BY DEF Plan, DueDays
    <2> QED
      BY <1>1, <1>2, <1>3, <1>4, <2>1 DEF RepeatInv, GrantedByToday
  <1>6. StartedThrough' /\ NothingDueAgain'
    BY <1>2 DEF RepeatInv, StartedThrough, NothingDueAgain, Exists, FirstDue
  <1>7. ASSUME NEW l \in Ledger, Plan(l).id # 0, skipped[l] = {}, l \notin overtaken
        PROVE  today \in Plan(l).fresh
    <2>1. Exists(bonus[l]) /\ FirstDue(bonus[l]) <= today
      BY <1>7 DEF Plan, IsDue
    <2>2. FirstDue(bonus[l]) \in Int
      BY DEF FirstDue, BonusInv, TypeOK, Bonus
    <2>3. ~(granted[<<l, today>>] > 0)
      BY <1>4, <1>7, <2>1, <2>2 DEF RepeatInv, NothingDueAgain
    <2>4. granted[<<l, today>>] \in Nat
      BY <1>4 DEF BonusInv, TypeOK
    <2>5. granted[<<l, today>>] = 0
      BY <2>3, <2>4
    <2>6. 0 < Limit
      BY BonusAssumption DEF Limit
    <2>7. today \in DueDays(bonus[l])
      BY <1>4, <2>1, <2>6 DEF DueDays
    <2> QED
      BY <2>5, <2>7 DEF Plan
  <1>8. PlansGrantTheirDay'
    BY <1>1, <1>2, <1>3, <1>7 DEF RepeatInv, PlansGrantTheirDay, Granting
  <1> QED
    BY <1>5, <1>6, <1>8 DEF RepeatInv

\* A round that commits grants its own day, which no round of this bonus had granted
\* before; so it moves granted_through ahead of every day that is granted.
LEMMA CommitRoundRepeats ==
    ASSUME BonusInv, RepeatInv, NEW w \in Worker, CommitRound(w)
    PROVE  RepeatInv'
  <1>1. /\ round[w].open
        /\ \A l \in Ledger : Granting(w, l) =>
              /\ bonus[l].id = round[w].plan[l].id
              /\ \A d \in round[w].plan[l].fresh : granted[<<l, d>>] = 0
        /\ overtaken' = overtaken /\ today' = today
    BY DEF CommitRound, CanCommit, Writable, promises
  <1>2. ASSUME NEW l \in Ledger, NEW d \in Day, granted'[<<l, d>>] > 0
        PROVE  granted[<<l, d>>] > 0 \/ (Granting(w, l) /\ d \in round[w].plan[l].fresh)
    <2>1. granted'[<<l, d>>] = IF Granting(w, l) /\ d \in round[w].plan[l].fresh
                                 THEN granted[<<l, d>>] + 1 ELSE granted[<<l, d>>]
      BY DEF CommitRound
    <2> QED
      BY <1>2, <2>1
  <1>3. ASSUME NEW l \in Ledger, Granting(w, l)
        PROVE  /\ bonus'[l].id = bonus[l].id
               /\ bonus'[l].startsOn = bonus[l].startsOn
               /\ bonus'[l].through = round[w].last
               /\ skipped[l] \subseteq skipped'[l]
    <2>1. skipped[l] \subseteq skipped'[l]
      BY CommitSkips DEF BonusInv
    <2> QED
      BY <1>3, <2>1 DEF CommitRound
  <1>4. ASSUME NEW l \in Ledger, ~Granting(w, l)
        PROVE  bonus'[l] = bonus[l] /\ skipped'[l] = skipped[l]
    <2>1. skipped'[l] = skipped[l]
      BY <1>4, CommitSkips DEF BonusInv
    <2> QED
      BY <1>4, <2>1 DEF CommitRound
  <1>5. \A v \in Worker : round'[v] = IF v = w THEN [open |-> FALSE] ELSE round[v]
    BY DEF CommitRound, EndOf, BonusInv, TypeOK
  <1>6. \A v \in Worker : round'[v].open => round'[v] = round[v] /\ round[v].open
    BY <1>5
  <1>7. /\ round[w].last \in Day /\ round[w].last \in Nat
        /\ \A l \in Ledger : round[w].plan[l].fresh \subseteq Day
        /\ today \in Nat
    <2>1. \A l \in Ledger : round[w].last \in Day /\ round[w].plan[l].fresh \subseteq Day
      BY <1>1, PlanOfRound DEF BonusInv
    <2>2. round[w].last \in Day
      BY <1>1 DEF BonusInv, TypeOK, Round
    <2> QED
      BY <2>1, <2>2 DEF BonusInv, TypeOK, Day
  <1>8. \A l \in Ledger : /\ bonus[l].startsOn \in Nat
                          /\ bonus[l].through \in Nat \cup {-1}
    BY DEF BonusInv, TypeOK, Bonus
  <1>9. \A l \in Ledger : skipped[l] \subseteq skipped'[l]
    BY <1>3, <1>4
  <1>10. GrantedByToday'
    <2>1. ASSUME NEW l \in Ledger, NEW d \in Day, granted'[<<l, d>>] > 0 PROVE d <= today
      <3>1. CASE granted[<<l, d>>] > 0
        BY <3>1 DEF RepeatInv, GrantedByToday
      <3>2. CASE Granting(w, l) /\ d \in round[w].plan[l].fresh
        <4>1. d <= round[w].last /\ round[w].last <= today
          BY <1>1, <3>2 DEF RepeatInv, GrantedByToday
        <4>2. d \in Nat
          BY DEF Day
        <4> QED
          BY <1>7, <4>1, <4>2
      <3> QED
        BY <1>2, <2>1, <3>1, <3>2
    <2> QED
      BY <1>1, <1>6, <2>1 DEF RepeatInv, GrantedByToday
  <1>11. StartedThrough'
    <2>1. ASSUME NEW l \in Ledger, Granting(w, l) PROVE bonus[l].startsOn <= round[w].last
      BY <1>1, <2>1 DEF BonusInv, DueFromStart
    <2> QED
      BY <1>3, <1>4, <2>1 DEF RepeatInv, StartedThrough
  <1>12. ASSUME NEW l \in Ledger, Granting(w, l), skipped[l] = {}, l \notin overtaken,
                NEW d \in Day, granted[<<l, d>>] > 0
         PROVE  d <= round[w].last
    <2>1. round[w].last \in round[w].plan[l].fresh
      BY <1>1, <1>12 DEF RepeatInv, PlansGrantTheirDay
    <2>2. granted[<<l, round[w].last>>] = 0
      BY <1>1, <1>12, <2>1
    <2>3. Exists(bonus[l]) /\ bonus[l].startsOn <= round[w].last
      BY <1>1, <1>12 DEF Granting, Exists, BonusInv, DueFromStart
    <2>4. ~(round[w].last <= bonus[l].through)
      BY <1>7, <1>12, <2>2, <2>3 DEF BonusInv, AllSettled, Settled
    <2>5. d < FirstDue(bonus[l])
      BY <1>12, <2>3 DEF RepeatInv, NothingDueAgain
    <2>6. d \in Nat
      BY DEF Day
    <2> QED
      BY <1>7, <1>8, <2>3, <2>4, <2>5, <2>6 DEF FirstDue
  <1>13. NothingDueAgain'
    <2> SUFFICES ASSUME NEW l \in Ledger, bonus'[l].id # 0, skipped'[l] = {}, l \notin overtaken,
                        NEW d \in Day, granted'[<<l, d>>] > 0
                 PROVE  d < FirstDue(bonus'[l])
      BY <1>1 DEF NothingDueAgain, Exists, FirstDue
    <2>1. skipped[l] = {}
      BY <1>9
    <2>2. CASE Granting(w, l)
      <3>1. granted[<<l, d>>] > 0 => d <= round[w].last
        BY <1>12, <2>1, <2>2
      <3>2. d \in round[w].plan[l].fresh => d <= round[w].last
        BY <1>1 DEF RepeatInv, GrantedByToday
      <3>3. d <= round[w].last
        BY <1>2, <3>1, <3>2
      <3>4. bonus'[l].through = round[w].last
        BY <1>3, <2>2
      <3>5. d \in Nat
        BY DEF Day
      <3> QED
        BY <1>7, <3>3, <3>4, <3>5 DEF FirstDue
    <2>3. CASE ~Granting(w, l)
      <3>1. granted[<<l, d>>] > 0
        BY <1>2, <2>3
      <3>2. bonus'[l] = bonus[l]
        BY <1>4, <2>3
      <3> QED
        BY <2>1, <3>1, <3>2 DEF RepeatInv, NothingDueAgain, Exists
    <2> QED
      BY <2>2, <2>3
  <1>14. PlansGrantTheirDay'
    BY <1>1, <1>6, <1>9 DEF RepeatInv, PlansGrantTheirDay, Granting
  <1> QED
    BY <1>10, <1>11, <1>13, <1>14 DEF RepeatInv

\* Every step keeps the second part of the invariant.
LEMMA NextRepeats == BonusInv /\ RepeatInv /\ [Next]_vars => RepeatInv'
  <1> SUFFICES ASSUME BonusInv, RepeatInv, [Next]_vars PROVE RepeatInv'
    OBVIOUS
  <1>1. today \in Nat /\ today <= today /\ today + 1 \in Nat /\ today <= today + 1
    BY DEF BonusInv, TypeOK, Day
  <1>2. CASE Tick
    <2>1. today' = today + 1 /\ UNCHANGED <<bonus, granted, skipped, overtaken, round>>
      BY <1>2, SameSkipped DEF Tick, grants
    <2> QED
      BY <1>1, <2>1, RepeatsRest
  <1>3. ASSUME NEW p \in Parent, NEW l \in Ledger, BeginConfigure(p, l) PROVE RepeatInv'
    BY <1>1, <1>3, RepeatsRest, SameSkipped DEF BeginConfigure, grants, promises
  <1>4. ASSUME NEW p \in Parent, ConflictConfigure(p) PROVE RepeatInv'
    BY <1>1, <1>4, RepeatsRest, SameSkipped DEF ConflictConfigure, grants, promises
  <1>5. ASSUME NEW w \in Worker, FailRound(w) \/ CrashRound(w) PROVE RepeatInv'
    <2>1. UNCHANGED <<bonus, granted, skipped, overtaken, today>> /\ EndOf(w)
      BY <1>5, SameSkipped DEF FailRound, CrashRound, grants, promises
    <2>2. \A v \in Worker : round'[v] = IF v = w THEN [open |-> FALSE] ELSE round[v]
      BY <2>1 DEF EndOf, BonusInv, TypeOK
    <2> QED
      BY <1>1, <2>1, <2>2, RepeatsRest
  <1>6. CASE UNCHANGED vars
    BY <1>1, <1>6, RepeatsRest, SameSkipped DEF vars, reports
  <1>7. ASSUME NEW w \in Worker, Report(w) \/ CrashReport(w) PROVE RepeatInv'
    <2>1. UNCHANGED <<bonus, granted, overtaken, today, round>>
      BY <1>7 DEF Report, CrashReport, promises
    <2>2. skipped' = skipped
      <3>1. \A l \in Ledger : skipped'[l] = skipped[l]
        BY <1>7, TellingSkipsNothing DEF BonusInv
      <3>2. skipped = [l \in Ledger |-> skipped[l]] /\ skipped' = [l \in Ledger |-> skipped'[l]]
        BY DEF skipped
      <3> QED
        BY <3>1, <3>2
    <2> QED
      BY <1>1, <2>1, <2>2, RepeatsRest
  <1> QED
    BY <1>2, <1>3, <1>4, <1>5, <1>6, <1>7, CommitConfigureRepeats, WithoutBonusRepeats,
       BeginRoundRepeats, CommitRoundRepeats DEF Next, Configuring, EndRound

(***************************************************************************)
(* A restored bonus repeats no day, for any number of parents, workers and *)
(* days, as long as no round slept through the catch-up limit and no       *)
(* request was overtaken by another bonus (_restore_daily_bonus).          *)
(***************************************************************************)
THEOREM RestoredRepeatNothing == Spec => []RestoreRepeatsNothing
  <1>1. Init => RepeatInv
    <2>1. None.id = 0 /\ None.through = -1
      BY DEF None
    <2> QED
      BY <2>1 DEF Init, RepeatInv, GrantedByToday, StartedThrough, NothingDueAgain,
                  PlansGrantTheirDay, Exists
  <1>2. RepeatInv => RestoreRepeatsNothing
    <2>1. ASSUME NEW l \in Ledger, StartedThrough
          PROVE  Archive!ConsistentBonus(bonus[l].startsOn, bonus[l].through)
      BY <2>1 DEF StartedThrough, Archive!ConsistentBonus
    <2> QED
      BY <2>1 DEF RepeatInv, NothingDueAgain, RestoreRepeatsNothing
  <1> QED
    BY <1>1, <1>2, NextRepeats, InvariantHolds, PTL DEF Spec

-----------------------------------------------------------------------------
(* Grants after a stop.                                                      *)

GrantStep ==
    \A l \in Ledger, d \in Day :
        granted'[<<l, d>>] > granted[<<l, d>>] =>
            \E w \in Worker : round[w].open /\ ~round'[w].open
                              /\ Exists(bonus[l]) /\ bonus[l].id = round[w].plan[l].id

\* A step that leaves the grants alone, or takes them, grants nothing.
LEMMA NothingGranted ==
    ASSUME BonusInv, granted' = granted \/ \E l \in Ledger : Close(l)
    PROVE  GrantStep
  <1>1. \A l \in Ledger, d \in Day : granted[<<l, d>>] \in Nat
    BY DEF BonusInv, TypeOK
  <1>2. CASE granted' = granted
    BY <1>1, <1>2 DEF GrantStep
  <1>3. ASSUME NEW k \in Ledger, Close(k) PROVE GrantStep
    <2>1. \A l \in Ledger, d \in Day : granted'[<<l, d>>] = IF l = k THEN 0 ELSE granted[<<l, d>>]
      BY <1>3 DEF Close
    <2>2. \A l \in Ledger, d \in Day : ~(granted'[<<l, d>>] > granted[<<l, d>>])
      <3> TAKE l \in Ledger, d \in Day
      <3>1. granted[<<l, d>>] \in Nat
        BY <1>1
      <3>2. CASE l = k
        <4>1. granted'[<<l, d>>] = 0
          BY <2>1, <3>2
        <4> QED
          BY <3>1, <4>1
      <3>3. CASE l # k
        <4>1. granted'[<<l, d>>] = granted[<<l, d>>]
          BY <2>1, <3>3
        <4> QED
          BY <3>1, <4>1
      <3> QED
        BY <3>2, <3>3
    <2> QED
      BY <2>2 DEF GrantStep
  <1> QED
    BY <1>2, <1>3

\* A round grants for the bonus it read, and that bonus exists.
LEMMA RoundGrantsForItsBonus ==
    ASSUME BonusInv, NEW w \in Worker, CommitRound(w)
    PROVE  GrantStep
  <1>1. round[w].open /\ ~round'[w].open
    BY DEF CommitRound, CanCommit, EndOf, BonusInv, TypeOK
  <1> SUFFICES ASSUME NEW l \in Ledger, NEW d \in Day,
                      granted'[<<l, d>>] > granted[<<l, d>>]
               PROVE  Exists(bonus[l]) /\ bonus[l].id = round[w].plan[l].id
    BY <1>1 DEF GrantStep
  <1>2. granted[<<l, d>>] \in Nat
    BY DEF BonusInv, TypeOK
  <1>3. granted'[<<l, d>>] = IF Granting(w, l) /\ d \in round[w].plan[l].fresh
                               THEN granted[<<l, d>>] + 1 ELSE granted[<<l, d>>]
    BY DEF CommitRound
  <1>4. Granting(w, l)
    BY <1>2, <1>3
  <1> QED
    BY <1>4 DEF CommitRound, CanCommit, Writable, Granting, Exists

(***************************************************************************)
(* A grant is written only for the very bonus its round read: after a stop *)
(* nothing is granted for it any more (mark_granted_through).              *)
(***************************************************************************)
THEOREM StopIsFinal == Spec => NothingAfterStop
  <1>1. BonusInv /\ [Next]_vars => [GrantStep]_vars
    <2> SUFFICES ASSUME BonusInv, Next PROVE GrantStep
      OBVIOUS
    <2>1. ASSUME NEW w \in Worker, CommitRound(w) PROVE GrantStep
      BY <2>1, RoundGrantsForItsBonus
    <2>2. ASSUME \A w \in Worker : ~CommitRound(w)
          PROVE  granted' = granted \/ \E l \in Ledger : Close(l)
      BY <2>2 DEF Next, Tick, Configuring, BeginConfigure, CommitConfigure,
                  ConflictConfigure, Stop, BeginRound, EndRound, FailRound, CrashRound,
                  Report, CrashReport, grants
    <2> QED
      BY <2>1, <2>2, NothingGranted
  <1> QED
    BY <1>1, InvariantHolds, PTL DEF Spec, NothingAfterStop, GrantStep
=============================================================================
