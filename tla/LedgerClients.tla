---------------------------- MODULE LedgerClients ----------------------------
(***************************************************************************)
(* The clients of PointLedger.  A client keeps to one habit: the intents   *)
(* it may send, each any number of times.  The screens draw a fresh key    *)
(* for each operation (families.ts: newIdempotencyKey); another caller of  *)
(* the API may use a key again.                                            *)
(***************************************************************************)
EXTENDS PointLedger

CONSTANTS
    Habit,      \* the habits a client may have
    Sends       \* what a client of each habit sends

ASSUME HabitAssumption == Sends \in [Habit -> SUBSET Intent]

VARIABLE habit

Writes(i) == i.op \in {"record", "reverse", "correct"}

\* Each client key belongs to one operation on the ledger.
KeysApart(intents) ==
    \A i, j \in intents :
        Writes(i) /\ Writes(j) /\ i.ledger = j.ledger /\ i.key = j.key => i = j

Kept == \A r \in Request : slot[r].phase # "idle" => slot[r].intent \in Sends[habit]

ClientInit == Init /\ habit \in Habit

ClientNext == Next /\ UNCHANGED habit /\ Kept'

ClientSpec == ClientInit /\ [][ClientNext]_<<vars, habit>>

(***************************************************************************)
(* When each client key belongs to one operation, a success is true, the   *)
(* first time and when it is repeated (AnswersHold); a correction that     *)
(* succeeds is real even when keys are shared (CorrectionAnswersHold:      *)
(* IdempotencyKeyReusedError).                                             *)
(***************************************************************************)
SuccessesHold == (KeysApart(Sends[habit]) => AnswersHold) /\ CorrectionAnswersHold
=============================================================================
