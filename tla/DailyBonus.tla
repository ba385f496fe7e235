----------------------------- MODULE DailyBonus -----------------------------
(***************************************************************************)
(* The daily bonus (ADR-0024): parents promise a ledger so many points a   *)
(* day, and every worker process runs a thread that grants what is due, in *)
(* rounds over the ledgers of all families.                                *)
(*                                                                         *)
(* A round is one transaction at REPEATABLE READ, in two steps: BeginRound *)
(* reads every bonus in a snapshot and computes the days that are due,     *)
(* EndRound writes them to what is committed by then, all or nothing; only *)
(* then does the worker log the days it has skipped, in a step of its own  *)
(* (Report).  The amount and the reason of a bonus are left out: a PUT on  *)
(* a bonus that exists replaces those two and nothing else, so it is no    *)
(* step here.                                                              *)
(***************************************************************************)
EXTENDS Integers

CONSTANTS
    Ledger,     \* the ledgers of the children
    Worker,     \* worker processes, one PeriodicRunner each
    Parent,     \* parents: how many configure requests run at the same time
    MaxDay,     \* bound on the calendar; day 0 is the first
    MaxCatchUp, \* DAILY_BONUS_MAX_CATCH_UP_DAYS
    MaxEdits,   \* bound on the bonuses ever created
    MaxCrashes  \* bound on the rounds cut off by a crash or a database error

ASSUME BonusAssumption ==
    /\ MaxDay \in Nat
    /\ MaxCatchUp \in Nat
    /\ MaxEdits \in Nat
    /\ MaxCrashes \in Nat

Day == 0..MaxDay

VARIABLES
    ledgers,    \* point_ledgers: the ledgers that exist
    bonus,      \* daily_bonuses: the row of each ledger, or None
    nextId,     \* the next value of its auto-increment identifier
    granted,    \* how many rows of point_transactions grant this day's bonus
    telling,    \* days each worker has skipped in a committed round and has still to log
    reported,   \* days logged as beyond the catch-up limit (_report)
    cutOff,     \* history: days a worker died on between its commit and its log
    promised,   \* history: days on which a promise was in force
    overtaken,  \* history: ledgers with a bonus committed after days it starts on were granted
    today,      \* the day of the family (DayBoundary)
    round,      \* the round each worker is in
    asked,      \* the configure request each parent is in
    crashes     \* crashes so far

vars == <<ledgers, bonus, nextId, granted, telling, reported, cutOff, promised, overtaken,
          today, round, asked, crashes>>

parents == <<nextId, asked>>
reports == <<telling, reported, cutOff>>
grants == <<granted, reports>>
promises == <<promised, overtaken>>

-----------------------------------------------------------------------------
(* The promise.                                                              *)

None == [id |-> 0, startsOn |-> 0, through |-> -1]

\* A row of daily_bonuses; -1 stands for NULL in granted_through.
Bonus == [id : Nat, startsOn : Nat, through : Nat \cup {-1}]

Exists(b) == b.id # 0

\* Mutant: the day after the next one is taken for the next one.
FirstDueLate(b) == IF b.through = -1 THEN b.startsOn ELSE b.through + 2

FirstDue(b) == IF b.through = -1 THEN b.startsOn ELSE b.through + 1

IsDue(b) == Exists(b) /\ FirstDue(b) <= today

Limit == IF MaxCatchUp < 1 THEN 1 ELSE MaxCatchUp

\* due_days: from the first day that is due to today, the newest Limit of them.
DueDays(b) == {d \in Day : FirstDue(b) <= d /\ d <= today /\ today - d < Limit}

SkippedDays(b) == {d \in Day : FirstDue(b) <= d /\ today - d >= Limit}

\* Mutant: the bonus starts on the day it is configured.
NextDayToday == today

NextDay == today + 1

NotAsking == [phase |-> "idle"]

NothingToTell == [l \in Ledger |-> {}]

Init ==
    /\ ledgers = Ledger
    /\ bonus = [l \in Ledger |-> None]
    /\ nextId = 1
    /\ granted = [x \in Ledger \X Day |-> 0]
    /\ telling = [w \in Worker |-> NothingToTell]
    /\ reported = [l \in Ledger |-> {}]
    /\ cutOff = [l \in Ledger |-> {}]
    /\ promised = [l \in Ledger |-> {}]
    /\ overtaken = {}
    /\ today = 0
    /\ round = [w \in Worker |-> [open |-> FALSE]]
    /\ asked = [p \in Parent |-> NotAsking]
    /\ crashes = 0

-----------------------------------------------------------------------------
(* Parents.                                                                  *)

\* save() finds no bonus in its snapshot and will add one.
BeginConfigure(p, l) ==
    /\ asked[p].phase = "idle"
    /\ l \in ledgers
    /\ ~Exists(bonus[l])
    /\ asked' = [asked EXCEPT ![p] = [phase |-> "open", ledger |-> l,
                                      startsOn |-> NextDay, day |-> today]]
    /\ UNCHANGED <<ledgers, bonus, nextId, grants, promises, today, round, crashes>>

CommitConfigure(p) ==
    /\ asked[p].phase = "open"
    /\ nextId <= MaxEdits
    /\ LET l == asked[p].ledger IN
          /\ l \in ledgers
          /\ ~Exists(bonus[l])
          /\ bonus' = [bonus EXCEPT ![l] = [id |-> nextId, startsOn |-> asked[p].startsOn,
                                            through |-> -1]]
          /\ promised' = [promised EXCEPT ![l] = @ \cup (asked[p].day + 1)..today]
          /\ overtaken' = IF \E d \in Day : d > asked[p].day /\ granted[<<l, d>>] > 0
                            THEN overtaken \cup {l} ELSE overtaken
    /\ nextId' = nextId + 1
    /\ asked' = [asked EXCEPT ![p] = NotAsking]
    /\ UNCHANGED <<ledgers, grants, today, round, crashes>>

\* _add_row() meets UNIQUE (ledger_id), looks for the row that won in the
\* snapshot that did not show it before, finds none and raises; or the ledger
\* is gone and the foreign key fails.
ConflictConfigure(p) ==
    /\ asked[p].phase = "open"
    /\ asked[p].ledger \notin ledgers \/ Exists(bonus[asked[p].ledger])
    /\ asked' = [asked EXCEPT ![p] = NotAsking]
    /\ UNCHANGED <<ledgers, bonus, nextId, grants, promises, today, round, crashes>>

\* A bulk DELETE: what was granted stays.
Stop(l) ==
    /\ Exists(bonus[l])
    /\ bonus' = [bonus EXCEPT ![l] = None]
    /\ UNCHANGED <<ledgers, parents, grants, promises, today, round, crashes>>

\* The ledger is deleted, with its rows and its bonus (ON DELETE CASCADE).
Close(l) ==
    /\ l \in ledgers
    /\ ledgers' = ledgers \ {l}
    /\ bonus' = [bonus EXCEPT ![l] = None]
    /\ granted' = [x \in Ledger \X Day |-> IF x[1] = l THEN 0 ELSE granted[x]]
    /\ UNCHANGED <<reports, promises, parents, today, round, crashes>>

-----------------------------------------------------------------------------
(* Rounds.  plan[l] holds what the snapshot said of ledger l: the bonus, the *)
(* days to grant, those of them that had no row yet, the days to skip.       *)

Plan(l) ==
    [id |-> IF IsDue(bonus[l]) THEN bonus[l].id ELSE 0,
     days |-> DueDays(bonus[l]),
     fresh |-> {d \in DueDays(bonus[l]) : granted[<<l, d>>] = 0},
     skip |-> SkippedDays(bonus[l])]

\* A round with nothing due writes nothing: it is no step here.  The thread of a
\* worker does one thing at a time: it logs the last round before the next.
BeginRound(w) ==
    /\ ~round[w].open
    /\ telling[w] = NothingToTell
    /\ \E l \in Ledger : IsDue(bonus[l])
    /\ round' = [round EXCEPT ![w] = [open |-> TRUE, last |-> today,
                                      plan |-> [l \in Ledger |-> Plan(l)]]]
    /\ UNCHANGED <<ledgers, bonus, parents, grants, promises, today, crashes>>

Granting(w, l) == round[w].plan[l].id # 0

\* Mutant: the bonus is not looked at again when granted_through is written.
WritableBlind(w, l) ==
    /\ l \in ledgers
    /\ \A d \in round[w].plan[l].fresh : granted[<<l, d>>] = 0

\* The rows of this ledger pass their constraints, and the UPDATE of
\* granted_through finds the bonus that was read.
Writable(w, l) ==
    /\ l \in ledgers
    /\ \A d \in round[w].plan[l].fresh : granted[<<l, d>>] = 0
    /\ bonus[l].id = round[w].plan[l].id

CanCommit(w) == /\ round[w].open
                /\ \A l \in Ledger : Granting(w, l) => Writable(w, l)

EndOf(w) == round' = [round EXCEPT ![w] = [open |-> FALSE]]

\* Mutant: the key of a grant is not derived from its day.
CommitRoundTwice(w) ==
    /\ round[w].open
    /\ granted' = [x \in Ledger \X Day |->
                      IF Granting(w, x[1]) /\ x[2] \in round[w].plan[x[1]].days
                        THEN granted[x] + 1 ELSE granted[x]]
    /\ bonus' = [l \in Ledger |->
                    IF Granting(w, l) /\ Exists(bonus[l])
                      THEN [bonus[l] EXCEPT !.through = round[w].last] ELSE bonus[l]]
    /\ EndOf(w)
    /\ UNCHANGED <<ledgers, parents, reports, promises, today, crashes>>

\* A day that had a row in the snapshot keeps it: append() returns that row.  The
\* skipped days are behind granted_through from here on, and not logged yet.
CommitRound(w) ==
    /\ CanCommit(w)
    /\ granted' = [x \in Ledger \X Day |->
                      IF Granting(w, x[1]) /\ x[2] \in round[w].plan[x[1]].fresh
                        THEN granted[x] + 1 ELSE granted[x]]
    /\ bonus' = [l \in Ledger |->
                    IF Granting(w, l)
                      THEN [id |-> bonus[l].id, startsOn |-> bonus[l].startsOn,
                            through |-> round[w].last]
                      ELSE bonus[l]]
    /\ telling' = [telling EXCEPT ![w] =
                      [l \in Ledger |-> IF Granting(w, l) THEN round[w].plan[l].skip ELSE {}]]
    /\ EndOf(w)
    /\ UNCHANGED <<ledgers, parents, reported, cutOff, promises, today, crashes>>

ToldOf(w) == telling' = [telling EXCEPT ![w] = NothingToTell]

\* The log line that follows the commit, if the round skipped anything.
Report(w) ==
    /\ telling[w] # NothingToTell
    /\ reported' = [l \in Ledger |-> reported[l] \cup telling[w][l]]
    /\ ToldOf(w)
    /\ UNCHANGED <<ledgers, bonus, parents, granted, cutOff, promises, today, round, crashes>>

\* Mutant: an exception ends the thread.
FailRoundForever(w) ==
    /\ round[w].open
    /\ ~CanCommit(w)
    /\ UNCHANGED vars

\* A row of another round, a bonus or a ledger that is gone: the exception rolls
\* back the whole round, for every ledger; run_once() logs it and goes on.
FailRound(w) ==
    /\ round[w].open
    /\ ~CanCommit(w)
    /\ EndOf(w)
    /\ UNCHANGED <<ledgers, bonus, parents, grants, promises, today, crashes>>

\* The worker dies in its round, or loses its connection.
CrashRound(w) ==
    /\ round[w].open
    /\ crashes < MaxCrashes
    /\ crashes' = crashes + 1
    /\ EndOf(w)
    /\ UNCHANGED <<ledgers, bonus, parents, grants, promises, today>>

\* The worker dies between the commit and the log line: nothing is kept that would
\* say which days it has skipped.
CrashReport(w) ==
    /\ telling[w] # NothingToTell
    /\ crashes < MaxCrashes
    /\ crashes' = crashes + 1
    /\ cutOff' = [l \in Ledger |-> cutOff[l] \cup telling[w][l]]
    /\ ToldOf(w)
    /\ UNCHANGED <<ledgers, bonus, parents, granted, reported, promises, today, round>>

EndRound(w) == CommitRound(w) \/ FailRound(w)

Tick ==
    /\ today < MaxDay
    /\ today' = today + 1
    /\ promised' = [l \in Ledger |->
                       IF Exists(bonus[l]) /\ bonus[l].startsOn <= today + 1
                         THEN promised[l] \cup {today + 1} ELSE promised[l]]
    /\ UNCHANGED <<ledgers, bonus, parents, grants, overtaken, round, crashes>>

Configuring(p) ==
    \/ \E l \in Ledger : BeginConfigure(p, l)
    \/ CommitConfigure(p)
    \/ ConflictConfigure(p)

Next ==
    \/ Tick
    \/ \E p \in Parent : Configuring(p)
    \/ \E l \in Ledger : Stop(l) \/ Close(l)
    \/ \E w \in Worker : BeginRound(w) \/ EndRound(w) \/ CrashRound(w)
    \/ \E w \in Worker : Report(w) \/ CrashReport(w)

Spec == Init /\ [][Next]_vars

\* The thread of every worker runs round after round (PeriodicRunner._run).
\* Nothing is assumed of the parents, the calendar or the crashes.
Fairness ==
    \A w \in Worker : WF_vars(BeginRound(w)) /\ WF_vars(EndRound(w)) /\ WF_vars(Report(w))

FairSpec == Spec /\ Fairness

-----------------------------------------------------------------------------
(* Properties.                                                               *)

DayPlan == [id : Nat, days : SUBSET Day, fresh : SUBSET Day, skip : SUBSET Day]

Round == [open : {FALSE}]
         \cup [open : {TRUE}, last : Day, plan : [Ledger -> DayPlan]]

Asked == {NotAsking} \cup [phase : {"open"}, ledger : Ledger, startsOn : Nat, day : Day]

TypeOK ==
    /\ ledgers \subseteq Ledger
    /\ bonus \in [Ledger -> Bonus]
    /\ nextId \in Nat \ {0}
    /\ granted \in [Ledger \X Day -> Nat]
    /\ telling \in [Worker -> [Ledger -> SUBSET Day]]
    /\ reported \in [Ledger -> SUBSET Day]
    /\ cutOff \in [Ledger -> SUBSET Day]
    /\ promised \in [Ledger -> SUBSET Day]
    /\ overtaken \subseteq Ledger
    /\ today \in Day
    /\ round \in [Worker -> Round]
    /\ asked \in [Parent -> Asked]
    /\ crashes \in Nat

(***************************************************************************)
(* No day is granted twice, whichever workers meet, crash or catch up, and *)
(* however often the bonus is stopped and configured again in between      *)
(* (grant_due_daily_bonuses.py, daily_bonus.py).                           *)
(***************************************************************************)
OnePerDay == \A x \in Ledger \X Day : granted[x] <= 1

(***************************************************************************)
(* No day is lost silently by a worker that lives: every day from the      *)
(* start of a bonus to its granted_through is granted, is logged as        *)
(* skipped, or is in the hands of the worker that has still to log it.     *)
(* What is lost silently is lost with a worker that died between its       *)
(* commit and its log (grant_due_daily_bonuses): cutOff holds those days.  *)
(***************************************************************************)
SettledDays ==
    \A l \in Ledger, d \in Day :
        Exists(bonus[l]) /\ bonus[l].startsOn <= d /\ d <= bonus[l].through
            => \/ granted[<<l, d>>] >= 1
               \/ d \in reported[l] \cup cutOff[l]
               \/ \E w \in Worker : d \in telling[w][l]

\* The days committed rounds have left out, whatever became of the log line.
skipped == [l \in Ledger |-> reported[l] \cup cutOff[l] \cup UNION {telling[w][l] : w \in Worker}]

(***************************************************************************)
(* A day is granted only if a promise was in force on it: the bonus starts *)
(* on the day after it was configured, and the days of a pause between two *)
(* bonuses are never caught up with (ConfigureDailyBonusUseCase._next_day). *)
(***************************************************************************)
OnlyPromisedDays ==
    \A l \in Ledger, d \in Day : granted[<<l, d>>] >= 1 => d \in promised[l]

(***************************************************************************)
(* Once a stop is committed, a round that had read the bonus before grants *)
(* nothing for it any more, even if the bonus was configured again: it     *)
(* writes only for the very bonus it read (StaleDataError).                *)
(***************************************************************************)
NothingAfterStop ==
    [][ \A l \in Ledger, d \in Day :
          granted'[<<l, d>>] > granted[<<l, d>>] =>
              \E w \in Worker : round[w].open /\ ~round'[w].open
                                /\ Exists(bonus[l]) /\ bonus[l].id = round[w].plan[l].id ]_vars

(***************************************************************************)
(* A bonus that is due is granted, unless it is stopped first, through     *)
(* colliding rounds, stops, midnights and a bounded number of crashes: a   *)
(* failed round is always followed by another (PeriodicRunner).            *)
(***************************************************************************)
BonusArrives == \A l \in Ledger : IsDue(bonus[l]) ~> ~IsDue(bonus[l])
=============================================================================
