---------------------------- MODULE RewardEvents ----------------------------
(***************************************************************************)
(* Reward cards ("がんばりカード", ADR-0042 and ADR-0043) of one ledger:    *)
(* parents create a card, put stickers on its squares, peel the last one,  *)
(* move its deadline and delete it.  The sticker that fills the last square *)
(* writes the award to the ledger in the same transaction.                 *)
(*                                                                         *)
(* A request is a transaction at REPEATABLE READ, in two steps: Begin      *)
(* reads the card in a snapshot and decides, Commit writes to what is      *)
(* committed by then.  A request that is refused (not found, completed,    *)
(* expired, out of order, deadline passed) or has nothing to do (sticker   *)
(* already there, or already gone) writes nothing: it is no step here, and *)
(* the guards of Begin are the negations of those refusals.                *)
(***************************************************************************)
EXTENDS Integers, FiniteSets

CONSTANTS
    Event,      \* identifiers of cards, handed out once each
    Goal,       \* goal_count of each card
    Request,    \* slots: how many requests run at the same time
    MaxDay,     \* bound on the calendar
    NoDeadline  \* NULL in reward_events.deadline

ASSUME EventAssumption ==
    /\ Goal \in [Event -> Nat \ {0}]
    /\ MaxDay \in Nat
    /\ NoDeadline \notin Nat

Day == 0..MaxDay

Deadline == Day \cup {NoDeadline}

VARIABLES
    open,       \* does the ledger exist
    born, live, \* cards created so far, cards that exist (reward_events)
    stickers,   \* reward_event_stickers: the numbers stuck on each card
    completed,  \* cards with completed_at
    deadline,   \* reward_events.deadline
    awards,     \* ledger rows that hold the award key of the card
    today,      \* the day of the family (DayBoundary)
    slot        \* the requests being served

cards == <<open, born, live, stickers, completed, deadline, awards>>
vars == <<open, born, live, stickers, completed, deadline, awards, today, slot>>

-----------------------------------------------------------------------------
(* Requests.                                                                 *)

Idle == [op |-> "idle"]

Plan(op, e, k, d) ==
    [op |-> op, event |-> e, number |-> k, deadline |-> d, since |-> today]

CardOp == {"stick", "peel", "change", "delete"}

Slot == {Idle}
        \cup [op : CardOp, event : Event, number : Nat, deadline : Deadline, since : Day]
        \cup [op : {"create"}, deadline : Deadline]
        \cup [op : {"close"}]

Serving(r, op) == slot[r].op = op

Finish(r) == slot' = [slot EXCEPT ![r] = Idle] /\ UNCHANGED today

Decide(r, plan) == /\ Serving(r, "idle")
                   /\ slot' = [slot EXCEPT ![r] = plan]
                   /\ UNCHANGED <<cards, today>>

Count(e) == Cardinality(stickers[e])

\* Mutant: a deadline never passes.
IsExpiredNever(e) == FALSE

IsExpired(e) == deadline[e] # NoDeadline /\ today > deadline[e]

NotPassed(d) == d # NoDeadline => d >= today

Init ==
    /\ open = TRUE
    /\ born = {}
    /\ live = {}
    /\ stickers = [e \in Event |-> {}]
    /\ completed = {}
    /\ deadline = [e \in Event |-> NoDeadline]
    /\ awards = [e \in Event |-> 0]
    /\ today = 0
    /\ slot = [r \in Request |-> Idle]

-----------------------------------------------------------------------------
(* What a request decides, on its snapshot.                                  *)

BeginCreate(r) ==
    /\ open
    /\ born # Event
    /\ \E d \in Deadline : NotPassed(d) /\ Decide(r, [op |-> "create", deadline |-> d])

\* Mutant: any free square may be filled.
BeginStickAnywhere(r, e) ==
    /\ e \in live \ completed
    /\ ~IsExpired(e)
    /\ \E k \in 1..Goal[e] \ stickers[e] : Decide(r, Plan("stick", e, k, deadline[e]))

\* should_stick: the next square, of a card neither completed nor expired.
BeginStick(r, e) ==
    /\ e \in live \ completed
    /\ ~IsExpired(e)
    /\ Count(e) + 1 <= Goal[e]
    /\ Decide(r, Plan("stick", e, Count(e) + 1, deadline[e]))

\* Mutant: a completed card can be peeled.
BeginPeelCompleted(r, e) ==
    /\ e \in live
    /\ Count(e) >= 1
    /\ Decide(r, Plan("peel", e, Count(e), deadline[e]))

\* should_peel: the last sticker, of a card that is not completed.
BeginPeel(r, e) ==
    /\ e \in live \ completed
    /\ Count(e) >= 1
    /\ Decide(r, Plan("peel", e, Count(e), deadline[e]))

BeginChange(r, e) ==
    /\ e \in live \ completed
    /\ \E d \in Deadline : NotPassed(d) /\ Decide(r, Plan("change", e, 0, d))

BeginDelete(r, e) ==
    /\ e \in live
    /\ Decide(r, Plan("delete", e, 0, deadline[e]))

\* The ledger goes: the child becomes independent.
BeginClose(r) ==
    /\ open
    /\ Decide(r, [op |-> "close"])

-----------------------------------------------------------------------------
(* What it writes, to the committed tables.                                  *)

CommitCreate(r) ==
    /\ Serving(r, "create")
    /\ open
    /\ \E e \in Event \ born :
          /\ born' = born \cup {e}
          /\ live' = live \cup {e}
          /\ deadline' = [deadline EXCEPT ![e] = slot[r].deadline]
    /\ UNCHANGED <<open, stickers, completed, awards>>
    /\ Finish(r)

\* append() with the award key of the card: an existing row is the answer.
Awarded(e) == IF awards[e] = 0 THEN 1 ELSE awards[e]

\* Mutant: the award is written by a later transaction, or never.
CommitStickUnpaid(r, e, k) ==
    /\ e \in live
    /\ k \notin stickers[e]
    /\ stickers' = [stickers EXCEPT ![e] = @ \cup {k}]
    /\ completed' = IF k = Goal[e] THEN completed \cup {e} ELSE completed
    /\ UNCHANGED <<open, born, live, deadline, awards>>

\* The sticker, and with the last one the award and completed_at, in one
\* transaction.
CommitStick(r, e, k) ==
    /\ e \in live
    /\ k \notin stickers[e]
    /\ stickers' = [stickers EXCEPT ![e] = @ \cup {k}]
    /\ IF k = Goal[e]
         THEN /\ awards' = [awards EXCEPT ![e] = Awarded(e)]
              /\ completed' = completed \cup {e}
         ELSE UNCHANGED <<awards, completed>>
    /\ UNCHANGED <<open, born, live, deadline>>

\* stick() meets UNIQUE (event_id, number), or the foreign key of a card that
\* is gone: it returns false, and the request ends without a trace.
StickLost(r, e, k) ==
    /\ e \notin live \/ k \in stickers[e]
    /\ UNCHANGED cards

\* A bulk DELETE: a sticker that is gone already is no error.
CommitPeel(r, e, k) ==
    /\ stickers' = [stickers EXCEPT ![e] = @ \ {k}]
    /\ UNCHANGED <<open, born, live, completed, deadline, awards>>

\* An UPDATE of a card that is gone raises StaleDataError (see Rollback), unless
\* the value is the one that was read.
CommitChange(r, e) ==
    /\ deadline' = IF e \in live THEN [deadline EXCEPT ![e] = slot[r].deadline]
                   ELSE deadline
    /\ UNCHANGED <<open, born, live, stickers, completed, awards>>

\* Mutant: the award goes with the card.
CommitDeleteAward(r, e) ==
    /\ live' = live \ {e}
    /\ completed' = completed \ {e}
    /\ stickers' = [stickers EXCEPT ![e] = {}]
    /\ awards' = [awards EXCEPT ![e] = 0]
    /\ UNCHANGED <<open, born, deadline>>

\* The stickers go with the card (ON DELETE CASCADE); the award stays.
CommitDelete(r, e) ==
    /\ live' = live \ {e}
    /\ completed' = completed \ {e}
    /\ stickers' = [stickers EXCEPT ![e] = {}]
    /\ UNCHANGED <<open, born, deadline, awards>>

CommitCard(r) ==
    /\ slot[r].op \in CardOp
    /\ LET e == slot[r].event
           k == slot[r].number
       IN \/ Serving(r, "stick") /\ CommitStick(r, e, k)
          \/ Serving(r, "stick") /\ StickLost(r, e, k)
          \/ Serving(r, "peel") /\ CommitPeel(r, e, k)
          \/ Serving(r, "change") /\ CommitChange(r, e)
          \/ Serving(r, "delete") /\ CommitDelete(r, e)
    /\ Finish(r)

\* The records are deleted with the ledger, and the cards by ON DELETE CASCADE.
CommitClose(r) ==
    /\ Serving(r, "close")
    /\ open' = FALSE
    /\ live' = {}
    /\ completed' = {}
    /\ stickers' = [e \in Event |-> {}]
    /\ awards' = [e \in Event |-> 0]
    /\ UNCHANGED <<born, deadline>>
    /\ Finish(r)

\* A constraint, a lock wait, a deadlock or a crash: nothing is written.
Rollback(r) ==
    /\ ~Serving(r, "idle")
    /\ UNCHANGED cards
    /\ Finish(r)

Tick ==
    /\ today < MaxDay
    /\ today' = today + 1
    /\ UNCHANGED <<cards, slot>>

Begin(r) ==
    \/ BeginCreate(r)
    \/ BeginClose(r)
    \/ \E e \in Event :
          \/ BeginStick(r, e)
          \/ BeginPeel(r, e)
          \/ BeginChange(r, e)
          \/ BeginDelete(r, e)

Commit(r) == CommitCreate(r) \/ CommitCard(r) \/ CommitClose(r)

Next == Tick \/ \E r \in Request : Begin(r) \/ Commit(r) \/ Rollback(r)

Spec == Init /\ [][Next]_vars

-----------------------------------------------------------------------------
(* Properties.                                                               *)

TypeOK ==
    /\ open \in BOOLEAN
    /\ born \subseteq Event
    /\ live \subseteq born
    /\ stickers \in [Event -> SUBSET Nat]
    /\ completed \subseteq live
    /\ deadline \in [Event -> Deadline]
    /\ awards \in [Event -> Nat]
    /\ today \in Day
    /\ slot \in [Request -> Slot]

(***************************************************************************)
(* A card is completed exactly when its last square holds a sticker, and   *)
(* exactly then the ledger holds its award, once: however the presses of   *)
(* two parents, peels and crashes interleave, no award is lost or paid     *)
(* twice (StickRewardEventStickerUseCase).                                 *)
(***************************************************************************)
AwardedWhenFull ==
    /\ \A e \in live : /\ e \in completed <=> Goal[e] \in stickers[e]
                       /\ e \in completed <=> awards[e] = 1
    /\ \A e \in Event : awards[e] <= 1

(***************************************************************************)
(* An award enters the ledger only in the step that completes its card, and *)
(* leaves it only with the ledger: deleting the card does not take the     *)
(* points back (DeleteRewardEventUseCase).                                 *)
(***************************************************************************)
AwardsOutliveCards ==
    [][ \A e \in Event :
          /\ awards'[e] > awards[e] => e \in live \ completed /\ e \in completed'
          /\ awards'[e] < awards[e] => open /\ ~open' ]_vars

(***************************************************************************)
(* The stickers of a card are numbered 1, 2, ... without a gap             *)
(* (reward_points_models.py, RewardEventStickerModel).  The sticker count  *)
(* is what should_stick and should_peel decide by: a card with a gap can   *)
(* neither be filled nor be peeled any more.                               *)
(***************************************************************************)
NumbersContiguous == \A e \in live : stickers[e] = 1..Count(e)
=============================================================================
