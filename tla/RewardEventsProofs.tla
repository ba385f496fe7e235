------------------------- MODULE RewardEventsProofs -------------------------
(***************************************************************************)
(* Proofs about RewardEvents, for every set of cards, number of squares,   *)
(* number of concurrent requests and length of the calendar.               *)
(*                                                                         *)
(* The argument: a request that peels chose a number below the goal,       *)
(* because on its snapshot the card was not completed, so its last square  *)
(* was empty and a card with an empty square has fewer stickers than       *)
(* squares.  Hence the last sticker is never peeled; it is put on at most  *)
(* once (the numbers are unique), and with it the award is written.        *)
(***************************************************************************)
EXTENDS CardOverlaps, FiniteSetTheorems, TLAPS

-----------------------------------------------------------------------------
(* The number of stickers.                                                   *)

\* A card with stickers on its squares has a number of them.
LEMMA CountIsNat ==
    ASSUME NEW g \in Nat, NEW S \in SUBSET (1..g)
    PROVE  Cardinality(S) \in Nat
  <1>1. IsFiniteSet(1..g)
    BY FS_Interval, 1 \in Int, g \in Int
  <1>2. IsFiniteSet(S)
    BY <1>1, FS_Subset
  <1> QED
    BY <1>2, FS_CardinalityType

\* A card whose last square is empty has fewer stickers than squares.
LEMMA CountBelowGoal ==
    ASSUME NEW g \in Nat \ {0}, NEW S \in SUBSET (1..g), g \notin S
    PROVE  Cardinality(S) \in Nat /\ Cardinality(S) < g
  <1>1. S \subseteq 1..(g - 1)
    OBVIOUS
  <1>2. IsFiniteSet(1..(g - 1)) /\ Cardinality(1..(g - 1)) = g - 1
    BY FS_Interval, 1 \in Int, g - 1 \in Int
  <1>3. Cardinality(S) <= g - 1
    BY <1>1, <1>2, FS_Subset
  <1>4. Cardinality(S) \in Nat
    BY CountIsNat, g \in Nat
  <1> QED
    BY <1>3, <1>4

-----------------------------------------------------------------------------
(* The inductive invariant.                                                  *)

\* What a request has decided fits the card it decided about.
Fits(p) ==
    /\ p.op = "stick" => p.number \in 1..Goal[p.event]
    /\ p.op = "peel" => p.number < Goal[p.event]

CardTypes ==
    /\ open \in BOOLEAN
    /\ born \subseteq Event
    /\ live \subseteq born
    /\ stickers \in [Event -> SUBSET Nat]
    /\ completed \subseteq live
    /\ deadline \in [Event -> Deadline]
    /\ awards \in [Event -> Nat]

\* Stickers are on squares of cards that exist; a card that was never created
\* has no award, and without the ledger there is neither card nor award.
OnSquares ==
    /\ \A e \in Event : /\ stickers[e] \subseteq 1..Goal[e]
                        /\ e \notin live => stickers[e] = {}
                        /\ e \notin born => awards[e] = 0
    /\ ~open => live = {} /\ \A e \in Event : awards[e] = 0

CardInv == CardTypes /\ OnSquares /\ AwardedWhenFull

SlotInv == /\ today \in Day
           /\ slot \in [Request -> Slot]
           /\ \A r \in Request : Fits(slot[r])

EventInv == CardInv /\ SlotInv

-----------------------------------------------------------------------------
(* Beginning and ending a request.                                           *)

\* A decision that is well typed and fits its card keeps the invariant.
LEMMA DecideKeeps ==
    ASSUME EventInv, NEW r \in Request, NEW p \in Slot, Fits(p), Decide(r, p)
    PROVE  EventInv'
  <1>1. CardInv'
    BY DEF EventInv, CardInv, CardTypes, OnSquares, AwardedWhenFull, Decide, cards
  <1>2. slot' \in [Request -> Slot] /\ today' \in Day
    BY DEF EventInv, SlotInv, Decide
  <1>3. \A q \in Request : slot'[q] = IF q = r THEN p ELSE slot[q]
    BY DEF EventInv, SlotInv, Decide
  <1>4. \A q \in Request : Fits(slot[q])'
    BY <1>3 DEF EventInv, SlotInv, Fits
  <1> QED
    BY <1>1, <1>2, <1>4 DEF EventInv, SlotInv

\* A request that ends leaves an idle slot.
LEMMA FinishKeeps ==
    ASSUME SlotInv, NEW r \in Request, Finish(r)
    PROVE  SlotInv'
  <1>1. Idle \in Slot /\ Fits(Idle)
    BY DEF Idle, Slot, Fits
  <1>2. slot' \in [Request -> Slot] /\ today' \in Day
    BY <1>1 DEF SlotInv, Finish
  <1>3. \A q \in Request : slot'[q] = IF q = r THEN Idle ELSE slot[q]
    BY DEF SlotInv, Finish
  <1>4. \A q \in Request : Fits(slot[q])'
    BY <1>1, <1>3 DEF SlotInv, Fits
  <1> QED
    BY <1>2, <1>4 DEF SlotInv

\* A decision about a card is a well-typed one.
LEMMA PlanTyped ==
    ASSUME NEW op \in CardOp, NEW e \in Event, NEW k \in Nat, NEW d \in Deadline,
           today \in Day
    PROVE  /\ Plan(op, e, k, d) \in Slot
           /\ Plan(op, e, k, d).op = op
           /\ Plan(op, e, k, d).event = e
           /\ Plan(op, e, k, d).number = k
  BY DEF Plan, Slot

\* Every decision fits the card it was made about.
LEMMA BeginKeeps ==
    ASSUME EventInv, NEW r \in Request, Begin(r)
    PROVE  EventInv'
  <1> USE EventAssumption
  <1>1. CASE BeginCreate(r)
    <2>1. PICK d \in Deadline : Decide(r, [op |-> "create", deadline |-> d])
      BY <1>1 DEF BeginCreate
    <2>2. [op |-> "create", deadline |-> d] \in Slot
      BY DEF Slot
    <2>3. Fits([op |-> "create", deadline |-> d])
      BY DEF Fits
    <2> QED
      BY <2>1, <2>2, <2>3, DecideKeeps
  <1>2. CASE BeginClose(r)
    <2>1. [op |-> "close"] \in Slot /\ Fits([op |-> "close"])
      BY DEF Slot, Fits
    <2> QED
      BY <1>2, <2>1, DecideKeeps DEF BeginClose
  <1>3. ASSUME NEW e \in Event,
               \/ BeginStick(r, e) \/ BeginPeel(r, e)
               \/ BeginChange(r, e) \/ BeginDelete(r, e)
        PROVE  EventInv'
    <2>1. /\ stickers[e] \in SUBSET (1..Goal[e])
          /\ Goal[e] \in Nat \ {0}
          /\ deadline[e] \in Deadline
          /\ today \in Day
          /\ e \in live \ completed => Goal[e] \notin stickers[e]
      BY DEF EventInv, CardInv, CardTypes, OnSquares, AwardedWhenFull, SlotInv
    <2>2. Count(e) \in Nat
      BY <2>1, CountIsNat DEF Count
    <2>3. e \in live \ completed => Count(e) < Goal[e]
      BY <2>1, CountBelowGoal DEF Count
    <2>4. CASE BeginStick(r, e)
      <3>0. Count(e) + 1 \in Nat
        BY <2>2
      <3>1. Plan("stick", e, Count(e) + 1, deadline[e]) \in Slot
        BY <2>1, <3>0, PlanTyped DEF CardOp
      <3>2. Fits(Plan("stick", e, Count(e) + 1, deadline[e]))
        BY <2>1, <2>2, <2>4 DEF Fits, Plan, BeginStick
      <3> QED
        BY <2>4, <3>1, <3>2, DecideKeeps DEF BeginStick
    <2>5. CASE BeginPeel(r, e)
      <3>1. Plan("peel", e, Count(e), deadline[e]) \in Slot
        BY <2>1, <2>2, PlanTyped DEF CardOp
      <3>2. Fits(Plan("peel", e, Count(e), deadline[e]))
        BY <2>3, <2>5 DEF Fits, Plan, BeginPeel
      <3> QED
        BY <2>5, <3>1, <3>2, DecideKeeps DEF BeginPeel
    <2>6. CASE BeginChange(r, e)
      <3>1. PICK d \in Deadline : Decide(r, Plan("change", e, 0, d))
        BY <2>6 DEF BeginChange
      <3>2. Plan("change", e, 0, d) \in Slot
        BY <2>1, PlanTyped DEF CardOp
      <3>3. Fits(Plan("change", e, 0, d))
        BY DEF Fits, Plan
      <3> QED
        BY <3>1, <3>2, <3>3, DecideKeeps
    <2>7. CASE BeginDelete(r, e)
      <3>1. Plan("delete", e, 0, deadline[e]) \in Slot
        BY <2>1, PlanTyped DEF CardOp
      <3>2. Fits(Plan("delete", e, 0, deadline[e]))
        BY DEF Fits, Plan
      <3> QED
        BY <2>7, <3>1, <3>2, DecideKeeps DEF BeginDelete
    <2> QED
      BY <1>3, <2>4, <2>5, <2>6, <2>7
  <1> QED
    BY <1>1, <1>2, <1>3 DEF Begin

-----------------------------------------------------------------------------
(* Writing.                                                                  *)

\* A sticker: the last one comes with the first and only award of the card.
LEMMA StickKeeps ==
    ASSUME CardInv, NEW r \in Request, NEW e \in Event, NEW k \in 1..Goal[e],
           CommitStick(r, e, k)
    PROVE  CardInv'
  <1> USE EventAssumption
  <1>1. \A x \in Event : stickers'[x] = IF x = e THEN stickers[e] \cup {k} ELSE stickers[x]
    BY DEF CommitStick, CardInv, CardTypes
  <1>2. CASE k = Goal[e]
    <2>1. awards[e] = 0 /\ e \notin completed
      BY <1>2 DEF CommitStick, CardInv, CardTypes, AwardedWhenFull
    <2>2. /\ completed' = completed \cup {e}
          /\ \A x \in Event : awards'[x] = IF x = e THEN 1 ELSE awards[x]
      BY <1>2, <2>1 DEF CommitStick, CardInv, CardTypes, Awarded
    <2>3. CardTypes'
      BY <1>2, <2>1 DEF CommitStick, CardInv, CardTypes, Awarded
    <2>4. OnSquares'
      BY <1>1, <2>2 DEF CommitStick, CardInv, CardTypes, OnSquares
    <2>5. AwardedWhenFull'
      BY <1>1, <1>2, <2>2 DEF CommitStick, CardInv, CardTypes, AwardedWhenFull
    <2> QED
      BY <2>3, <2>4, <2>5 DEF CardInv
  <1>3. CASE k # Goal[e]
    <2>1. CardTypes'
      BY <1>3 DEF CommitStick, CardInv, CardTypes
    <2>2. OnSquares'
      BY <1>1, <1>3 DEF CommitStick, CardInv, CardTypes, OnSquares
    <2>3. AwardedWhenFull'
      BY <1>1, <1>3 DEF CommitStick, CardInv, CardTypes, AwardedWhenFull
    <2> QED
      BY <2>1, <2>2, <2>3 DEF CardInv
  <1> QED
    BY <1>2, <1>3

\* A peel takes a sticker below the last square.
LEMMA PeelKeeps ==
    ASSUME CardInv, NEW r \in Request, NEW e \in Event, NEW k \in Nat, k < Goal[e],
           CommitPeel(r, e, k)
    PROVE  CardInv'
  <1>1. \A x \in Event : stickers'[x] = IF x = e THEN stickers[e] \ {k} ELSE stickers[x]
    BY DEF CommitPeel, CardInv, CardTypes
  <1>2. CardTypes'
    BY DEF CommitPeel, CardInv, CardTypes
  <1>3. OnSquares'
    BY <1>1 DEF CommitPeel, CardInv, CardTypes, OnSquares
  <1>4. Goal[e] # k
    BY EventAssumption
  <1>5. AwardedWhenFull'
    BY <1>1, <1>4 DEF CommitPeel, CardInv, CardTypes, AwardedWhenFull
  <1> QED
    BY <1>2, <1>3, <1>5 DEF CardInv

LEMMA DeleteKeeps ==
    ASSUME CardInv, NEW r \in Request, NEW e \in Event, CommitDelete(r, e)
    PROVE  CardInv'
  <1>1. \A x \in Event : stickers'[x] = IF x = e THEN {} ELSE stickers[x]
    BY DEF CommitDelete, CardInv, CardTypes
  <1>2. CardTypes'
    BY DEF CommitDelete, CardInv, CardTypes
  <1>3. OnSquares'
    BY <1>1 DEF CommitDelete, CardInv, CardTypes, OnSquares
  <1>4. AwardedWhenFull'
    BY <1>1 DEF CommitDelete, CardInv, CardTypes, AwardedWhenFull
  <1> QED
    BY <1>2, <1>3, <1>4 DEF CardInv

LEMMA ChangeKeeps ==
    ASSUME CardInv, NEW r \in Request, NEW e \in Event,
           slot[r].deadline \in Deadline, CommitChange(r, e)
    PROVE  CardInv'
  BY DEF CommitChange, CardInv, CardTypes, OnSquares, AwardedWhenFull

LEMMA CommitCardKeeps ==
    ASSUME EventInv, NEW r \in Request, CommitCard(r)
    PROVE  EventInv'
  <1>1. /\ slot[r] \in Slot
        /\ slot[r].op \in CardOp
        /\ Fits(slot[r])
    BY DEF EventInv, SlotInv, CommitCard
  <1>2. /\ slot[r].event \in Event
        /\ slot[r].number \in Nat
        /\ slot[r].deadline \in Deadline
    BY <1>1 DEF Slot, CardOp, Idle
  <1>3. CardInv'
    <2>1. CASE Serving(r, "stick") /\ CommitStick(r, slot[r].event, slot[r].number)
      <3>1. slot[r].number \in 1..Goal[slot[r].event]
        BY <1>1, <2>1 DEF Fits, Serving
      <3> QED
        BY <1>2, <2>1, <3>1, StickKeeps DEF EventInv
    <2>2. CASE Serving(r, "stick") /\ StickLost(r, slot[r].event, slot[r].number)
      BY <2>2 DEF StickLost, cards, EventInv, CardInv, CardTypes, OnSquares, AwardedWhenFull
    <2>3. CASE Serving(r, "peel") /\ CommitPeel(r, slot[r].event, slot[r].number)
      <3>1. slot[r].number < Goal[slot[r].event]
        BY <1>1, <2>3 DEF Fits, Serving
      <3> QED
        BY <1>2, <2>3, <3>1, PeelKeeps DEF EventInv
    <2>4. CASE Serving(r, "change") /\ CommitChange(r, slot[r].event)
      BY <1>2, <2>4, ChangeKeeps DEF EventInv
    <2>5. CASE Serving(r, "delete") /\ CommitDelete(r, slot[r].event)
      BY <1>2, <2>5, DeleteKeeps DEF EventInv
    <2> QED
      BY <2>1, <2>2, <2>3, <2>4, <2>5 DEF CommitCard
  <1> QED
    BY <1>3, FinishKeeps DEF CommitCard, EventInv

LEMMA CreateKeeps ==
    ASSUME EventInv, NEW r \in Request, CommitCreate(r)
    PROVE  EventInv'
  <1>1. PICK e \in Event \ born :
            /\ born' = born \cup {e}
            /\ live' = live \cup {e}
            /\ deadline' = [deadline EXCEPT ![e] = slot[r].deadline]
    BY DEF CommitCreate
  <1>2. slot[r] \in Slot /\ slot[r].op = "create"
    BY DEF EventInv, SlotInv, CommitCreate, Serving
  <1>3. slot[r].deadline \in Deadline
    BY <1>2 DEF Slot, CardOp, Idle
  <1>4. open /\ UNCHANGED <<open, stickers, completed, awards>>
    BY DEF CommitCreate
  <1>5. CardTypes'
    BY <1>1, <1>3, <1>4 DEF EventInv, CardInv, CardTypes
  <1>6. OnSquares'
    BY <1>1, <1>4 DEF EventInv, CardInv, CardTypes, OnSquares
  <1>7. stickers[e] = {} /\ awards[e] = 0 /\ e \notin completed
    BY <1>1 DEF EventInv, CardInv, CardTypes, OnSquares
  <1>8. AwardedWhenFull'
    BY <1>1, <1>4, <1>7 DEF EventInv, CardInv, CardTypes, AwardedWhenFull
  <1> QED
    BY <1>5, <1>6, <1>8, FinishKeeps DEF EventInv, CardInv, CommitCreate

LEMMA CloseKeeps ==
    ASSUME EventInv, NEW r \in Request, CommitClose(r)
    PROVE  EventInv'
  <1>1. CardTypes'
    BY DEF EventInv, CardInv, CardTypes, CommitClose
  <1>2. OnSquares'
    BY DEF EventInv, CardInv, CardTypes, OnSquares, CommitClose
  <1>3. AwardedWhenFull'
    BY DEF EventInv, CardInv, CardTypes, AwardedWhenFull, CommitClose
  <1> QED
    BY <1>1, <1>2, <1>3, FinishKeeps DEF EventInv, CardInv, CommitClose

-----------------------------------------------------------------------------
(* The invariant holds in every reachable state.                             *)

LEMMA InitHolds == Init => EventInv
  <1> SUFFICES ASSUME Init PROVE EventInv
    OBVIOUS
  <1> USE EventAssumption
  <1>1. Idle \in Slot /\ Fits(Idle)
    BY DEF Idle, Slot, Fits
  <1>2. SlotInv
    BY <1>1 DEF Init, SlotInv, Day
  <1>3. CardTypes
    BY DEF Init, CardTypes, Deadline
  <1>4. OnSquares /\ AwardedWhenFull
    BY DEF Init, OnSquares, AwardedWhenFull
  <1> QED
    BY <1>2, <1>3, <1>4 DEF EventInv, CardInv

LEMMA NextKeeps == EventInv /\ [Next]_vars => EventInv'
  <1> SUFFICES ASSUME EventInv, [Next]_vars PROVE EventInv'
    OBVIOUS
  <1>1. CASE Tick
    <2>1. CardInv'
      BY <1>1 DEF Tick, cards, EventInv, CardInv, CardTypes, OnSquares, AwardedWhenFull
    <2>2. today' \in Day
      BY <1>1, EventAssumption DEF Tick, EventInv, SlotInv, Day
    <2>3. SlotInv'
      BY <1>1, <2>2 DEF Tick, EventInv, SlotInv, Fits
    <2> QED
      BY <2>1, <2>3 DEF EventInv
  <1>2. ASSUME NEW r \in Request, Begin(r) PROVE EventInv'
    BY <1>2, BeginKeeps
  <1>3. ASSUME NEW r \in Request, Commit(r) PROVE EventInv'
    BY <1>3, CreateKeeps, CommitCardKeeps, CloseKeeps DEF Commit
  <1>4. ASSUME NEW r \in Request, Rollback(r) PROVE EventInv'
    <2>1. CardInv'
      BY <1>4 DEF Rollback, cards, EventInv, CardInv, CardTypes, OnSquares, AwardedWhenFull
    <2> QED
      BY <1>4, <2>1, FinishKeeps DEF Rollback, EventInv
  <1>5. CASE UNCHANGED vars
    <2>1. CardInv'
      BY <1>5 DEF vars, EventInv, CardInv, CardTypes, OnSquares, AwardedWhenFull
    <2>2. SlotInv'
      BY <1>5 DEF vars, EventInv, SlotInv, Fits
    <2> QED
      BY <2>1, <2>2 DEF EventInv
  <1> QED
    BY <1>1, <1>2, <1>3, <1>4, <1>5 DEF Next

LEMMA InvariantHolds == Spec => []EventInv
  BY InitHolds, NextKeeps, PTL DEF Spec

(***************************************************************************)
(* Every reachable state of the cards is well typed.                       *)
(***************************************************************************)
THEOREM EventTypesCorrect == Spec => []TypeOK
  <1>1. EventInv => TypeOK
    BY DEF EventInv, CardInv, CardTypes, SlotInv, TypeOK
  <1> QED
    BY <1>1, InvariantHolds, PTL

(***************************************************************************)
(* A card is completed exactly when its last square is filled, and exactly *)
(* then it is awarded, once (StickRewardEventStickerUseCase).              *)
(***************************************************************************)
THEOREM AwardedExactlyOnce == Spec => []AwardedWhenFull
  <1>1. EventInv => AwardedWhenFull
    BY DEF EventInv, CardInv
  <1> QED
    BY <1>1, InvariantHolds, PTL
-----------------------------------------------------------------------------
(* Awards come with completion and go with the ledger.                       *)

AwardStep ==
    \A e \in Event :
        /\ awards'[e] > awards[e] => e \in live \ completed /\ e \in completed'
        /\ awards'[e] < awards[e] => open /\ ~open'

LEMMA SameAwards ==
    ASSUME EventInv, UNCHANGED awards
    PROVE  AwardStep
  <1>1. \A e \in Event : awards'[e] = awards[e] /\ awards[e] \in Nat
    BY DEF EventInv, CardInv, CardTypes
  <1> QED
    BY <1>1 DEF AwardStep

LEMMA EveryStepPaysRightly == EventInv /\ [Next]_vars => AwardStep
  <1> SUFFICES ASSUME EventInv, [Next]_vars PROVE AwardStep
    OBVIOUS
  <1>1. CASE Tick
    BY <1>1, SameAwards DEF Tick, cards
  <1>2. ASSUME NEW r \in Request, Begin(r) PROVE AwardStep
    <2>1. UNCHANGED awards
      BY <1>2 DEF Begin, BeginCreate, BeginClose, BeginStick, BeginPeel, BeginChange,
                  BeginDelete, Decide, cards
    <2> QED
      BY <2>1, SameAwards
  <1>3. ASSUME NEW r \in Request, CommitCreate(r) PROVE AwardStep
    BY <1>3, SameAwards DEF CommitCreate
  <1>4. ASSUME NEW r \in Request, CommitClose(r) PROVE AwardStep
    <2>1. \A e \in Event : awards'[e] = 0 /\ awards[e] \in Nat
      BY <1>4 DEF CommitClose, EventInv, CardInv, CardTypes
    <2>2. open' = FALSE /\ (~open => \A e \in Event : awards[e] = 0)
      BY <1>4 DEF CommitClose, EventInv, CardInv, OnSquares
    <2> QED
      BY <2>1, <2>2 DEF AwardStep
  <1>5. ASSUME NEW r \in Request, CommitCard(r) PROVE AwardStep
    <2>1. slot[r] \in Slot /\ slot[r].op \in CardOp
      BY <1>5 DEF EventInv, SlotInv, CommitCard
    <2>2. slot[r].event \in Event
      BY <2>1 DEF Slot, CardOp, Idle
    <2>3. CASE CommitStick(r, slot[r].event, slot[r].number)
      <3>1. CASE slot[r].number # Goal[slot[r].event]
        BY <2>3, <3>1, SameAwards DEF CommitStick
      <3>2. CASE slot[r].number = Goal[slot[r].event]
        <4>1. /\ slot[r].event \in live \ completed
              /\ slot[r].event \in completed'
          BY <2>2, <2>3, <3>2 DEF CommitStick, EventInv, CardInv, AwardedWhenFull
        <4>2. \A e \in Event : /\ awards[e] \in Nat
                               /\ e # slot[r].event => awards'[e] = awards[e]
                               /\ awards'[e] >= awards[e]
          BY <2>2, <2>3, <3>2 DEF CommitStick, Awarded, EventInv, CardInv, CardTypes
        <4>3. \A e \in Event : awards'[e] \in Nat
          BY <2>2, <2>3, <3>2 DEF CommitStick, Awarded, EventInv, CardInv, CardTypes
        <4> QED
          BY <4>1, <4>2, <4>3 DEF AwardStep
      <3> QED
        BY <3>1, <3>2
    <2>4. CASE \/ StickLost(r, slot[r].event, slot[r].number)
               \/ CommitPeel(r, slot[r].event, slot[r].number)
               \/ CommitChange(r, slot[r].event)
               \/ CommitDelete(r, slot[r].event)
      BY <2>4, SameAwards DEF StickLost, CommitPeel, CommitChange, CommitDelete, cards
    <2> QED
      BY <1>5, <2>3, <2>4 DEF CommitCard
  <1>6. ASSUME NEW r \in Request, Rollback(r) PROVE AwardStep
    BY <1>6, SameAwards DEF Rollback, cards
  <1>7. CASE UNCHANGED vars
    BY <1>7, SameAwards DEF vars
  <1> QED
    BY <1>1, <1>2, <1>3, <1>4, <1>5, <1>6, <1>7 DEF Next, Commit

(***************************************************************************)
(* An award is paid only in the step that completes its card, and is taken *)
(* back only with the whole ledger (DeleteRewardEventUseCase).             *)
(***************************************************************************)
THEOREM AwardsStay == Spec => AwardsOutliveCards
  <1>1. EventInv /\ [Next]_vars => [AwardStep]_vars
    BY EveryStepPaysRightly
  <1> QED
    BY <1>1, InvariantHolds, PTL DEF Spec, AwardsOutliveCards, AwardStep

-----------------------------------------------------------------------------
(* Overlaps.  Until two different operations on one card overlap, what a     *)
(* request has read still describes the card: its number is the next one or  *)
(* one that is stuck already (a press), or the last one or one that is gone  *)
(* (a peel), and only a press may find the card completed.                   *)

Agrees(p) ==
    p.op \in CardOp /\ p.event \in live =>
        /\ p.op = "stick" => /\ p.number <= Count(p.event) + 1
                             /\ deadline[p.event] # NoDeadline => p.since <= deadline[p.event]
        /\ p.op = "peel" => p.number >= Count(p.event)
        /\ p.op \in {"peel", "change"} => p.event \notin completed

\* A card that is gone is not created again.
AboutBorn == \A r \in Request : slot[r].op \in CardOp => slot[r].event \in born

SmoothInv == ~Crossing /\ NumbersContiguous /\ \A r \in Request : Agrees(slot[r])

OverlapInv == EventInv /\ AboutBorn /\ (smooth => SmoothInv)

\* Arithmetic of the numbers of stickers.
LEMMA PressRaises ==
    ASSUME NEW n \in Nat, NEW k \in Nat, 1 <= k, k <= n + 1, k \notin 1..n
    PROVE  /\ (1..n) \cup {k} = 1..(n + 1)
           /\ Cardinality((1..n) \cup {k}) = n + 1
           /\ \A m \in Nat : m <= n + 1 => m <= (n + 1) + 1
  <1>1. k = n + 1 /\ (1..n) \cup {k} = 1..(n + 1)
    OBVIOUS
  <1>2. Cardinality(1..(n + 1)) = n + 1
    BY FS_Interval, 1 \in Int, n + 1 \in Int
  <1>3. \A m \in Nat : m <= n + 1 => m <= (n + 1) + 1
    OBVIOUS
  <1>4. Cardinality((1..n) \cup {k}) = n + 1
    BY <1>1, <1>2
  <1> QED
    BY <1>1, <1>3, <1>4

LEMMA PeelLowers ==
    ASSUME NEW n \in Nat, NEW k \in Nat, k >= n
    PROVE  LET S == (1..n) \ {k} IN
           /\ S = 1..Cardinality(S)
           /\ \A m \in Nat : m >= n => m >= Cardinality(S)
  <1> DEFINE S == (1..n) \ {k}
  <1>1. PICK m \in 0..n : S = 1..m
    <2>1. CASE k = n /\ n # 0
      <3>1. S = 1..(n - 1) /\ n - 1 \in 0..n
        BY <2>1
      <3> QED
        BY <3>1
    <2>2. CASE k # n \/ n = 0
      <3>1. S = 1..n /\ n \in 0..n
        BY <2>2
      <3> QED
        BY <3>1
    <2> QED
      BY <2>1, <2>2
  <1>2. Cardinality(1..m) = m
    BY FS_Interval, 1 \in Int, m \in Int
  <1> HIDE DEF S
  <1>3. Cardinality(S) = m
    BY <1>1, <1>2
  <1>4. \A j \in Nat : j >= n => j >= Cardinality(S)
    BY <1>3
  <1>5. S = 1..Cardinality(S)
    BY <1>1, <1>3
  <1> QED
    BY <1>4, <1>5 DEF S

LEMMA NumbersCompare ==
    ASSUME NEW n \in Nat
    PROVE  /\ n + 1 <= n + 1 /\ n >= n
           /\ \A m \in Nat : ~(m > n) => m <= n
  OBVIOUS

\* A full card holds every number that can be put on it.
LEMMA FullHoldsAll ==
    ASSUME NEW n \in Nat, NEW g \in Nat, g \in 1..n, NEW k \in 1..g
    PROVE  k \in 1..n
  OBVIOUS

LEMMA EmptyIsContiguous == {} = 1..Cardinality({})
  BY FS_EmptySet

\* What a card and a request about it are.
LEMMA Shapes ==
    ASSUME EventInv
    PROVE  /\ \A e \in Event : Count(e) \in Nat /\ Goal[e] \in Nat \ {0}
                               /\ deadline[e] \in Nat \cup {NoDeadline}
           /\ \A r \in Request : slot[r].op \in CardOp =>
                  /\ slot[r].event \in Event /\ slot[r].number \in Nat
                  /\ slot[r].op = "stick" => slot[r].number \in 1..Goal[slot[r].event]
           /\ today \in Nat
  <1>1. ASSUME NEW e \in Event
        PROVE  Count(e) \in Nat /\ Goal[e] \in Nat \ {0} /\ deadline[e] \in Nat \cup {NoDeadline}
    <2>1. stickers[e] \in SUBSET (1..Goal[e]) /\ Goal[e] \in Nat \ {0} /\ deadline[e] \in Deadline
      BY EventAssumption DEF EventInv, CardInv, CardTypes, OnSquares
    <2>2. Count(e) \in Nat
      BY <2>1, CountIsNat DEF Count
    <2> QED
      BY <2>1, <2>2, EventAssumption DEF Deadline, Day
  <1>2. ASSUME NEW r \in Request, slot[r].op \in CardOp
        PROVE  /\ slot[r].event \in Event /\ slot[r].number \in Nat
               /\ slot[r].op = "stick" => slot[r].number \in 1..Goal[slot[r].event]
    <2>1. slot[r] \in Slot /\ Fits(slot[r])
      BY DEF EventInv, SlotInv
    <2> QED
      BY <1>2, <2>1 DEF Slot, CardOp, Idle, Fits
  <1>3. today \in Nat
    BY EventAssumption DEF EventInv, SlotInv, Day
  <1> QED
    BY <1>1, <1>2, <1>3

\* Who works on the card of a request does the same as the request.
LEMMA OthersDoTheSame ==
    ASSUME ~Crossing, NEW q \in Request, NEW r \in Request, NEW e \in Event,
           slot[r].op \in {"stick", "peel", "change"}, slot[r].event = e,
           slot[q].op \in {"stick", "peel", "change"}, slot[q].event = e
    PROVE  slot[q].op = slot[r].op
  BY DEF Crossing, Working, Serving

\* The cards stay; one request may have begun or ended.
LEMMA SameCardsAgree ==
    ASSUME SmoothInv, UNCHANGED cards, NEW r \in Request, NEW p, Agrees(p),
           \A q \in Request : slot'[q] = slot[q] \/ slot'[q] = p
    PROVE  NumbersContiguous' /\ \A q \in Request : Agrees(slot[q])'
  <1>1. NumbersContiguous'
    BY DEF SmoothInv, NumbersContiguous, Count, cards
  <1>2. ASSUME NEW q \in Request
        PROVE  Agrees(slot[q])'
    <2>1. Agrees(slot'[q])
      BY DEF SmoothInv
    <2> QED
      BY <2>1 DEF Agrees, Count, cards
  <1> QED
    BY <1>1, <1>2

LEMMA IdleAgrees == Agrees(Idle)
  BY DEF Agrees, Idle, CardOp

LEMMA BeginAgrees ==
    ASSUME OverlapInv, SmoothInv, NEW r \in Request, Begin(r)
    PROVE  NumbersContiguous' /\ \A q \in Request : Agrees(slot[q])'
  <1>0. slot \in [Request -> Slot] /\ EventInv
    BY DEF OverlapInv, EventInv, SlotInv
  <1>1. ASSUME NEW p, Agrees(p), Decide(r, p)
        PROVE  NumbersContiguous' /\ \A q \in Request : Agrees(slot[q])'
    <2>1. \A q \in Request : slot'[q] = slot[q] \/ slot'[q] = p
      BY <1>0, <1>1 DEF Decide
    <2> QED
      BY <1>1, <2>1, SameCardsAgree DEF Decide
  <1>2. CASE BeginCreate(r)
    <2>1. PICK d \in Deadline : Decide(r, [op |-> "create", deadline |-> d])
      BY <1>2 DEF BeginCreate
    <2>2. Agrees([op |-> "create", deadline |-> d])
      BY DEF Agrees, CardOp
    <2> QED
      BY <1>1, <2>1, <2>2
  <1>3. CASE BeginClose(r)
    <2>1. Agrees([op |-> "close"])
      BY DEF Agrees, CardOp
    <2> QED
      BY <1>1, <1>3, <2>1 DEF BeginClose
  <1>4. ASSUME NEW e \in Event, BeginStick(r, e)
        PROVE  NumbersContiguous' /\ \A q \in Request : Agrees(slot[q])'
    <2> DEFINE p == Plan("stick", e, Count(e) + 1, deadline[e])
    <2>1. Count(e) + 1 <= Count(e) + 1
      BY <1>0, Shapes, NumbersCompare
    <2>2. deadline[e] # NoDeadline => today <= deadline[e]
      BY <1>0, <1>4, Shapes, NumbersCompare DEF BeginStick, IsExpired
    <2>3. p.op = "stick" /\ p.event = e /\ p.number = Count(e) + 1 /\ p.since = today
      BY DEF Plan
    <2> HIDE DEF p
    <2>4. Agrees(p)
      BY <2>1, <2>2, <2>3 DEF Agrees
    <2> QED
      BY <1>1, <1>4, <2>4 DEF BeginStick, p
  <1>5. ASSUME NEW e \in Event, BeginPeel(r, e)
        PROVE  NumbersContiguous' /\ \A q \in Request : Agrees(slot[q])'
    <2> DEFINE p == Plan("peel", e, Count(e), deadline[e])
    <2>1. Count(e) >= Count(e)
      BY <1>0, Shapes, NumbersCompare
    <2>2. p.op = "peel" /\ p.event = e /\ p.number = Count(e)
      BY DEF Plan
    <2> HIDE DEF p
    <2>3. Agrees(p)
      BY <1>5, <2>1, <2>2 DEF Agrees, BeginPeel
    <2> QED
      BY <1>1, <1>5, <2>3 DEF BeginPeel, p
  <1>6. ASSUME NEW e \in Event, BeginChange(r, e)
        PROVE  NumbersContiguous' /\ \A q \in Request : Agrees(slot[q])'
    <2>1. PICK d \in Deadline : Decide(r, Plan("change", e, 0, d))
      BY <1>6 DEF BeginChange
    <2>2. Agrees(Plan("change", e, 0, d))
      BY <1>6 DEF Agrees, Plan, BeginChange
    <2> QED
      BY <1>1, <2>1, <2>2
  <1>7. ASSUME NEW e \in Event, BeginDelete(r, e)
        PROVE  NumbersContiguous' /\ \A q \in Request : Agrees(slot[q])'
    <2>1. Agrees(Plan("delete", e, 0, deadline[e]))
      BY DEF Agrees, Plan
    <2> QED
      BY <1>1, <1>7, <2>1 DEF BeginDelete
  <1> QED
    BY <1>2, <1>3, <1>4, <1>5, <1>6, <1>7 DEF Begin

\* A commit touches one card; the requests about others still agree.
LEMMA OtherCardsAgree ==
    ASSUME SmoothInv, EventInv, live' \subseteq Event, NEW r \in Request, Finish(r), NEW e \in Event,
           \A x \in Event \ {e} : /\ stickers'[x] = stickers[x] /\ deadline'[x] = deadline[x]
                                  /\ x \in live' <=> x \in live
                                  /\ x \in completed' <=> x \in completed,
           e \in live' => stickers'[e] = 1..Cardinality(stickers'[e]),
           \A q \in Request \ {r} : slot[q].op \in CardOp /\ slot[q].event = e => Agrees(slot[q])'
    PROVE  NumbersContiguous' /\ \A q \in Request : Agrees(slot[q])'
  <1>1. NumbersContiguous'
    BY DEF SmoothInv, NumbersContiguous, Count
  <1>2. ASSUME NEW q \in Request
        PROVE  Agrees(slot[q])'
    <2>1. CASE q = r
      <3>1. slot'[q] = Idle
        BY <2>1 DEF Finish, EventInv, SlotInv
      <3>2. slot'[q].op \notin CardOp
        BY <3>1 DEF Idle, CardOp
      <3> QED
        BY <3>2 DEF Agrees
    <2>2. CASE q # r /\ slot[q].op \in CardOp /\ slot[q].event = e
      BY <2>2
    <2>3. CASE q # r /\ ~(slot[q].op \in CardOp /\ slot[q].event = e)
      <3>1. slot'[q] = slot[q] /\ Agrees(slot[q])
        BY <2>3 DEF Finish, EventInv, SlotInv, SmoothInv
      <3>2. slot[q].op \in CardOp => slot[q].event \in Event \ {e}
        BY <2>3, Shapes
      <3> QED
        BY <2>3, <3>1, <3>2 DEF Agrees, Count
    <2> QED
      BY <2>1, <2>2, <2>3
  <1> QED
    BY <1>1, <1>2

\* A commit that touches card e only leaves every request in agreement with its card.
LEMMA CommitCardAgrees ==
    ASSUME OverlapInv, SmoothInv, EventInv', NEW r \in Request, CommitCard(r)
    PROVE  NumbersContiguous' /\ \A q \in Request : Agrees(slot[q])'
  <1> DEFINE e == slot[r].event
             k == slot[r].number
  <1>1. /\ EventInv /\ e \in Event /\ k \in Nat /\ slot[r].op \in CardOp /\ Count(e) \in Nat
        /\ slot[r].op = "stick" => k \in 1..Goal[e]
        /\ live' \subseteq Event /\ Finish(r) /\ Agrees(slot[r]) /\ ~Crossing
        /\ e \in live => stickers[e] = 1..Count(e)
    BY Shapes DEF OverlapInv, CommitCard, SmoothInv, NumbersContiguous, EventInv, CardInv, CardTypes
  <1>2. \A q \in Request \ {r} : slot'[q] = slot[q] /\ Agrees(slot[q])
    BY <1>1 DEF Finish, EventInv, SlotInv, SmoothInv
  <1>3. /\ stickers \in [Event -> SUBSET Nat] /\ deadline \in [Event -> Deadline]
        /\ live \subseteq Event /\ completed \subseteq live
    BY <1>1 DEF EventInv, CardInv, CardTypes
  <1>4. \A q \in Request \ {r} : slot[q].op \in CardOp /\ slot[q].event = e =>
           slot[q].number \in Nat
    BY <1>1, Shapes
  <1>5. slot[r].op \in {"stick", "peel", "change"} =>
           \A q \in Request : slot[q].op \in {"stick", "peel", "change"} /\ slot[q].event = e =>
              slot[q].op = slot[r].op
    BY <1>1, OthersDoTheSame
  <1> HIDE DEF e, k
  <1>6. CASE slot[r].op = "stick" /\ CommitStick(r, e, k)
    <2>1. /\ e \in live /\ k \notin 1..Count(e) /\ k <= Count(e) + 1 /\ 1 <= k
          /\ \A x \in Event : stickers'[x] = IF x = e THEN stickers[e] \cup {k} ELSE stickers[x]
          /\ UNCHANGED <<live, deadline>> /\ completed' \in {completed, completed \cup {e}}
      BY <1>1, <1>3, <1>6 DEF CommitStick, Agrees, e, k
    <2>2. /\ stickers'[e] = 1..(Count(e) + 1) /\ Cardinality(stickers'[e]) = Count(e) + 1
          /\ \A m \in Nat : m <= Count(e) + 1 => m <= (Count(e) + 1) + 1
      BY <1>1, <2>1, PressRaises
    <2>3. ASSUME NEW q \in Request \ {r}, slot[q].op \in CardOp, slot[q].event = e
          PROVE  Agrees(slot[q])'
      <3>1. slot[q].op \in {"stick", "delete"}
        BY <1>5, <1>6, <2>3 DEF CardOp
      <3>2. slot[q].op = "stick" => /\ slot[q].number <= Count(e) + 1
                                    /\ deadline[e] # NoDeadline => slot[q].since <= deadline[e]
        BY <1>2, <2>1, <2>3 DEF Agrees
      <3>3. slot[q].op = "stick" => slot[q].number <= Cardinality(stickers'[e]) + 1
        BY <1>4, <2>2, <2>3, <3>2
      <3>4. slot'[q] = slot[q] /\ slot[q].event = e /\ deadline' = deadline
        BY <1>2, <2>1, <2>3
      <3> QED
        BY <3>1, <3>2, <3>3, <3>4 DEF Agrees, Count
    <2>4. \A x \in Event \ {e} : /\ stickers'[x] = stickers[x] /\ deadline'[x] = deadline[x]
                                 /\ x \in live' <=> x \in live
                                 /\ x \in completed' <=> x \in completed
      BY <2>1
    <2>5. stickers'[e] = 1..Cardinality(stickers'[e])
      BY <2>2
    <2>6. e \in Event
      BY <1>1
    <2> QED
      BY <1>1, <2>3, <2>4, <2>5, <2>6, OtherCardsAgree
  <1>7. CASE slot[r].op = "stick" /\ StickLost(r, e, k)
    BY <1>1, <1>2, <1>7, IdleAgrees, SameCardsAgree DEF StickLost, Finish, EventInv, SlotInv
  <1>8. CASE slot[r].op = "peel" /\ CommitPeel(r, e, k)
    <2>1. /\ \A x \in Event : stickers'[x] = IF x = e THEN stickers[e] \ {k} ELSE stickers[x]
          /\ UNCHANGED <<live, deadline, completed>>
          /\ e \in live => k >= Count(e)
      BY <1>1, <1>3, <1>8 DEF CommitPeel, Agrees, e, k
    <2>2. e \in live => /\ stickers'[e] = 1..Cardinality(stickers'[e])
                        /\ \A m \in Nat : m >= Count(e) => m >= Cardinality(stickers'[e])
      BY <1>1, <2>1, PeelLowers
    <2>3. ASSUME NEW q \in Request \ {r}, slot[q].op \in CardOp, slot[q].event = e
          PROVE  Agrees(slot[q])'
      <3>1. slot[q].op \in {"peel", "delete"}
        BY <1>5, <1>8, <2>3 DEF CardOp
      <3>2. e \in live /\ slot[q].op = "peel" => slot[q].number >= Count(e) /\ e \notin completed
        BY <1>2, <2>3 DEF Agrees
      <3>3. e \in live /\ slot[q].op = "peel" => slot[q].number >= Cardinality(stickers'[e])
        BY <1>4, <2>2, <2>3, <3>2
      <3>4. slot'[q] = slot[q] /\ slot[q].event = e /\ live' = live /\ completed' = completed
        BY <1>2, <2>1, <2>3
      <3> QED
        BY <3>1, <3>2, <3>3, <3>4 DEF Agrees, Count
    <2>4. \A x \in Event \ {e} : /\ stickers'[x] = stickers[x] /\ deadline'[x] = deadline[x]
                                 /\ x \in live' <=> x \in live
                                 /\ x \in completed' <=> x \in completed
      BY <2>1
    <2>5. e \in live' => stickers'[e] = 1..Cardinality(stickers'[e])
      BY <2>1, <2>2
    <2>6. e \in Event
      BY <1>1
    <2> QED
      BY <1>1, <2>3, <2>4, <2>5, <2>6, OtherCardsAgree
  <1>9. CASE slot[r].op = "change" /\ CommitChange(r, e)
    <2>1. /\ \A x \in Event \ {e} : deadline'[x] = deadline[x]
          /\ UNCHANGED <<live, stickers, completed>>
      BY <1>3, <1>9 DEF CommitChange
    <2>2. ASSUME NEW q \in Request \ {r}, slot[q].op \in CardOp, slot[q].event = e
          PROVE  Agrees(slot[q])'
      <3>1. slot[q].op \in {"change", "delete"}
        BY <1>5, <1>9, <2>2 DEF CardOp
      <3> QED
        BY <1>2, <2>1, <2>2, <3>1 DEF Agrees
    <2>3. e \in live' => stickers'[e] = 1..Cardinality(stickers'[e])
      BY <1>1, <2>1 DEF Count
    <2>4. e \in Event
      BY <1>1
    <2> QED
      BY <1>1, <2>1, <2>2, <2>3, <2>4, OtherCardsAgree
  <1>10. CASE slot[r].op = "delete" /\ CommitDelete(r, e)
    <2>1. /\ \A x \in Event \ {e} : stickers'[x] = stickers[x]
          /\ live' = live \ {e} /\ completed' = completed \ {e} /\ UNCHANGED deadline
      BY <1>3, <1>10 DEF CommitDelete
    <2>2. ASSUME NEW q \in Request \ {r}, slot[q].op \in CardOp, slot[q].event = e
          PROVE  Agrees(slot[q])'
      BY <1>2, <2>1, <2>2 DEF Agrees
    <2>3. e \in Event
      BY <1>1
    <2> QED
      BY <1>1, <2>1, <2>2, <2>3, OtherCardsAgree
  <1> QED
    BY <1>6, <1>7, <1>8, <1>9, <1>10 DEF CommitCard, Serving, e, k

LEMMA CommitCreateAgrees ==
    ASSUME OverlapInv, SmoothInv, EventInv', NEW r \in Request, CommitCreate(r)
    PROVE  NumbersContiguous' /\ \A q \in Request : Agrees(slot[q])'
  <1>1. PICK e \in Event \ born : /\ born' = born \cup {e} /\ live' = live \cup {e}
                                  /\ deadline' = [deadline EXCEPT ![e] = slot[r].deadline]
                                  /\ UNCHANGED <<stickers, completed>> /\ Finish(r)
    BY DEF CommitCreate
  <1>2. /\ EventInv /\ stickers[e] = {} /\ live' \subseteq Event
        /\ \A x \in Event \ {e} : deadline'[x] = deadline[x]
    BY <1>1 DEF OverlapInv, EventInv, CardInv, CardTypes, OnSquares
  <1>3. ASSUME NEW q \in Request \ {r}, slot[q].op \in CardOp, slot[q].event = e
        PROVE  Agrees(slot[q])'
    BY <1>1, <1>3 DEF OverlapInv, AboutBorn
  <1>4. stickers'[e] = 1..Cardinality(stickers'[e])
    BY <1>1, <1>2, EmptyIsContiguous
  <1>5. \A x \in Event \ {e} : /\ stickers'[x] = stickers[x] /\ deadline'[x] = deadline[x]
                               /\ x \in live' <=> x \in live
                               /\ x \in completed' <=> x \in completed
    BY <1>1, <1>2
  <1>6. e \in Event /\ Finish(r) /\ (e \in live' => stickers'[e] = 1..Cardinality(stickers'[e]))
    BY <1>1, <1>4
  <1> QED
    BY <1>2, <1>3, <1>5, <1>6, OtherCardsAgree

LEMMA OverlapKeeps == OverlapInv /\ [WatchedNext]_<<vars, smooth>> => OverlapInv'
  <1> SUFFICES ASSUME OverlapInv, [WatchedNext]_<<vars, smooth>> PROVE OverlapInv'
    OBVIOUS
  <1>1. EventInv /\ EventInv' /\ [Next]_vars
    BY NextKeeps DEF OverlapInv, WatchedNext, vars
  <1>2. AboutBorn'
    <2>1. born \subseteq born'
      BY <1>1 DEF Next, Tick, Begin, BeginCreate, BeginClose, BeginStick, BeginPeel, BeginChange,
                  BeginDelete, Decide, Commit, CommitCreate, CommitCard, CommitClose, CommitStick,
                  StickLost, CommitPeel, CommitChange, CommitDelete, Rollback, cards, vars
    <2>2. ASSUME NEW q \in Request, slot'[q] # slot[q], slot'[q].op \in CardOp
          PROVE  slot'[q].event \in live
      <3>1. PICK r \in Request : Begin(r) \/ Finish(r)
        BY <1>1, <2>2 DEF Next, Tick, Commit, CommitCreate, CommitCard, CommitClose, Rollback, vars
      <3>2. slot \in [Request -> Slot]
        BY <1>1 DEF EventInv, SlotInv
      <3>3. CASE Finish(r)
        <4>1. slot'[q] = Idle
          BY <2>2, <3>2, <3>3 DEF Finish
        <4> QED
          BY <2>2, <4>1 DEF Idle, CardOp
      <3>4. CASE BeginCreate(r) \/ BeginClose(r)
        <4>1. slot'[q].op \in {"create", "close"}
          BY <2>2, <3>2, <3>4 DEF BeginCreate, BeginClose, Decide
        <4> QED
          BY <2>2, <4>1 DEF CardOp
      <3>5. ASSUME NEW e \in Event,
                   BeginStick(r, e) \/ BeginPeel(r, e) \/ BeginChange(r, e) \/ BeginDelete(r, e)
            PROVE  slot'[q].event \in live
        <4>1. e \in live
          BY <3>5 DEF BeginStick, BeginPeel, BeginChange, BeginDelete
        <4>2. PICK op, k, d : Decide(r, Plan(op, e, k, d))
          BY <3>5 DEF BeginStick, BeginPeel, BeginChange, BeginDelete
        <4>3. slot'[q] = Plan(op, e, k, d)
          BY <2>2, <3>2, <4>2 DEF Decide
        <4> QED
          BY <4>1, <4>3 DEF Plan
      <3> QED
        BY <3>1, <3>3, <3>4, <3>5 DEF Begin
    <2>3. live \subseteq born
      BY <1>1 DEF EventInv, CardInv, CardTypes
    <2> QED
      BY <2>1, <2>2, <2>3 DEF OverlapInv, AboutBorn
  <1>3. ASSUME smooth'
        PROVE  SmoothInv'
    <2>1. smooth /\ SmoothInv
      BY <1>3 DEF OverlapInv, WatchedNext
    <2>2. ~Crossing'
      BY <1>3, <2>1 DEF WatchedNext, SmoothInv, Crossing, Working, Serving, vars
    <2>3. NumbersContiguous' /\ \A q \in Request : Agrees(slot[q])'
      <3>1. CASE UNCHANGED vars
        BY <2>1, <3>1 DEF vars, SmoothInv, NumbersContiguous, Agrees, Count
      <3>2. CASE Tick
        BY <2>1, <3>2 DEF Tick, cards, SmoothInv, NumbersContiguous, Agrees, Count
      <3>3. ASSUME NEW r \in Request, Begin(r)
            PROVE  NumbersContiguous' /\ \A q \in Request : Agrees(slot[q])'
        BY <2>1, <3>3, BeginAgrees
      <3>4. ASSUME NEW r \in Request, CommitCard(r)
            PROVE  NumbersContiguous' /\ \A q \in Request : Agrees(slot[q])'
        BY <1>1, <2>1, <3>4, CommitCardAgrees
      <3>5. ASSUME NEW r \in Request, CommitCreate(r)
            PROVE  NumbersContiguous' /\ \A q \in Request : Agrees(slot[q])'
        BY <1>1, <2>1, <3>5, CommitCreateAgrees
      <3>6. ASSUME NEW r \in Request, CommitClose(r)
            PROVE  NumbersContiguous' /\ \A q \in Request : Agrees(slot[q])'
        BY <3>6 DEF CommitClose, NumbersContiguous, Agrees
      <3>7. ASSUME NEW r \in Request, Rollback(r)
            PROVE  NumbersContiguous' /\ \A q \in Request : Agrees(slot[q])'
        <4>1. \A q \in Request : slot'[q] = slot[q] \/ slot'[q] = Idle
          BY <1>1, <3>7 DEF Rollback, Finish, EventInv, SlotInv
        <4> QED
          BY <2>1, <3>7, <4>1, IdleAgrees, SameCardsAgree DEF Rollback
      <3> QED
        BY <1>1, <3>1, <3>2, <3>3, <3>4, <3>5, <3>6, <3>7 DEF Next, Commit
    <2> QED
      BY <2>2, <2>3 DEF SmoothInv
  <1> QED
    BY <1>1, <1>2, <1>3 DEF OverlapInv

LEMMA OverlapHolds == WatchedSpec => []OverlapInv
  <1>1. WatchedInit => OverlapInv
    <2> SUFFICES ASSUME WatchedInit PROVE OverlapInv
      OBVIOUS
    <2>1. EventInv /\ live = {} /\ \A r \in Request : slot[r] = Idle
      BY InitHolds DEF WatchedInit, Init
    <2>2. \A r \in Request : slot[r].op = "idle"
      BY <2>1 DEF Idle
    <2> QED
      BY <2>1, <2>2 DEF OverlapInv, AboutBorn, SmoothInv, NumbersContiguous, Agrees, Crossing,
                        Working, Serving, CardOp
  <1> QED
    BY <1>1, OverlapKeeps, PTL DEF WatchedSpec

(***************************************************************************)
(* The stickers of a card are numbered without a gap until two different   *)
(* operations on it overlap (should_stick and should_peel go by a count).  *)
(***************************************************************************)
THEOREM GapsComeFromCrossing == WatchedSpec => []OnlyCrossingMakesGaps
  <1>1. OverlapInv => OnlyCrossingMakesGaps
    BY DEF OverlapInv, SmoothInv, OnlyCrossingMakesGaps
  <1> QED
    BY <1>1, OverlapHolds, PTL

\* What a step may do to a card that is complete, and when it may put on a sticker.
OverlapStep ==
    smooth' => /\ \A e \in completed \cap live' : Rests(e)
               /\ \A r \in Request, e \in Event : InTime(r, e)

LEMMA NoStickerNoHarm ==
    ASSUME UNCHANGED <<stickers, deadline>>
    PROVE  OverlapStep
  BY DEF OverlapStep, Rests, InTime

LEMMA CommitCardRests ==
    ASSUME OverlapInv, SmoothInv, NEW r \in Request, CommitCard(r)
    PROVE  OverlapStep
  <1> DEFINE e == slot[r].event
             k == slot[r].number
  <1>1. /\ e \in Event /\ slot[r].op \in CardOp /\ Count(e) \in Nat
        /\ slot[r].op = "stick" => k \in 1..Goal[e]
        /\ Goal[e] \in Nat /\ Agrees(slot[r])
        /\ e \in live => stickers[e] = 1..Count(e)
        /\ e \in completed => e \in live /\ Goal[e] \in stickers[e]
    BY Shapes DEF OverlapInv, CommitCard, SmoothInv, NumbersContiguous, EventInv, CardInv,
                  CardTypes, AwardedWhenFull
  <1>2. /\ stickers \in [Event -> SUBSET Nat] /\ deadline \in [Event -> Deadline]
        /\ completed \subseteq live /\ live \subseteq Event /\ slot \in [Request -> Slot]
    BY DEF OverlapInv, EventInv, CardInv, CardTypes, SlotInv
  <1>3. slot[r].op \in {"peel", "change"} /\ e \in live => e \notin completed
    BY <1>1 DEF Agrees
  <1>4. slot[r].op = "stick" /\ e \in live /\ deadline[e] # NoDeadline => slot[r].since <= deadline[e]
    BY <1>1 DEF Agrees
  <1>5. \A q \in Request \ {r} : slot'[q] = slot[q]
    BY <1>2 DEF CommitCard, Finish
  <1> HIDE DEF e, k
  <1>6. CASE slot[r].op = "stick" /\ CommitStick(r, e, k)
    <2>1. /\ e \in live /\ k \notin stickers[e] /\ UNCHANGED deadline
          /\ \A x \in Event \ {e} : stickers'[x] = stickers[x]
      BY <1>2, <1>6 DEF CommitStick
    <2>2. e \notin completed
      <3> SUFFICES ASSUME e \in completed PROVE FALSE
        OBVIOUS
      <3>1. Goal[e] \in 1..Count(e) /\ k \in 1..Goal[e]
        BY <1>1, <1>6, <2>1
      <3>2. k \in 1..Count(e)
        BY <1>1, <3>1, FullHoldsAll
      <3> QED
        BY <1>1, <2>1, <3>2
    <2>3. \A x \in completed : Rests(x)
      BY <1>2, <2>1, <2>2 DEF Rests
    <2>4. ASSUME NEW q \in Request, NEW x \in Event
          PROVE  InTime(q, x)
      <3>1. CASE x # e
        BY <2>1, <3>1 DEF InTime
      <3>2. CASE x = e /\ q = r
        BY <1>4, <1>6, <2>1, <3>2 DEF InTime
      <3>3. CASE q # r
        <4>1. slot'[q] = Idle => slot[q].op = "idle"
          BY <1>5, <3>3 DEF Idle
        <4> QED
          BY <4>1 DEF InTime, Working, Serving
      <3> QED
        BY <3>1, <3>2, <3>3
    <2> QED
      BY <2>3, <2>4 DEF OverlapStep
  <1>7. CASE StickLost(r, e, k)
    BY <1>7, NoStickerNoHarm DEF StickLost, cards
  <1>8. CASE slot[r].op = "peel" /\ CommitPeel(r, e, k)
    <2>1. /\ UNCHANGED <<live, deadline>> /\ stickers'[e] \subseteq stickers[e]
          /\ \A x \in Event \ {e} : stickers'[x] = stickers[x]
      BY <1>1, <1>2, <1>8 DEF CommitPeel
    <2>2. \A x \in completed : Rests(x)
      BY <1>2, <1>3, <1>8, <2>1 DEF Rests
    <2>3. \A x \in Event : stickers'[x] \ stickers[x] = {}
      BY <2>1
    <2> QED
      BY <2>2, <2>3 DEF OverlapStep, InTime
  <1>9. CASE slot[r].op = "change" /\ CommitChange(r, e)
    <2>1. /\ UNCHANGED <<live, stickers>> /\ \A x \in Event \ {e} : deadline'[x] = deadline[x]
      BY <1>2, <1>9 DEF CommitChange
    <2>2. \A x \in completed : Rests(x)
      BY <1>2, <1>3, <1>9, <2>1 DEF Rests
    <2> QED
      BY <2>1, <2>2 DEF OverlapStep, InTime
  <1>10. CASE CommitDelete(r, e)
    <2>1. /\ UNCHANGED deadline /\ e \notin live' /\ stickers'[e] \subseteq stickers[e]
          /\ \A x \in Event \ {e} : stickers'[x] = stickers[x]
      BY <1>1, <1>2, <1>10 DEF CommitDelete
    <2>2. \A x \in completed \cap live' : Rests(x)
      BY <1>2, <2>1 DEF Rests
    <2>3. \A x \in Event : stickers'[x] \ stickers[x] = {}
      BY <2>1
    <2> QED
      BY <2>2, <2>3 DEF OverlapStep, InTime
  <1> QED
    BY <1>6, <1>7, <1>8, <1>9, <1>10 DEF CommitCard, Serving, e, k

LEMMA EveryStepRests == OverlapInv /\ [WatchedNext]_<<vars, smooth>> => OverlapStep
  <1> SUFFICES ASSUME OverlapInv, [WatchedNext]_<<vars, smooth>>, smooth'
               PROVE  OverlapStep
    BY DEF OverlapStep
  <1>1. SmoothInv /\ [Next]_vars
    BY DEF OverlapInv, WatchedNext, vars
  <1>2. CASE UNCHANGED vars \/ Tick
    BY <1>2, NoStickerNoHarm DEF vars, Tick, cards
  <1>3. ASSUME NEW r \in Request, Begin(r) \/ Rollback(r)
        PROVE  OverlapStep
    <2>1. UNCHANGED <<stickers, deadline>>
      BY <1>3 DEF Begin, BeginCreate, BeginClose, BeginStick, BeginPeel, BeginChange, BeginDelete,
                  Decide, Rollback, cards
    <2> QED
      BY <2>1, NoStickerNoHarm
  <1>4. ASSUME NEW r \in Request, CommitCard(r)
        PROVE  OverlapStep
    BY <1>1, <1>4, CommitCardRests
  <1>5. ASSUME NEW r \in Request, CommitCreate(r)
        PROVE  OverlapStep
    <2>1. PICK e \in Event \ born : /\ deadline' = [deadline EXCEPT ![e] = slot[r].deadline]
                                    /\ UNCHANGED stickers
      BY <1>5 DEF CommitCreate
    <2>2. completed \subseteq born /\ born \subseteq Event /\ deadline \in [Event -> Deadline]
      BY DEF OverlapInv, EventInv, CardInv, CardTypes
    <2> QED
      BY <2>1, <2>2 DEF OverlapStep, Rests, InTime
  <1>6. ASSUME NEW r \in Request, CommitClose(r)
        PROVE  OverlapStep
    BY <1>6 DEF CommitClose, OverlapStep, InTime
  <1> QED
    BY <1>1, <1>2, <1>3, <1>4, <1>5, <1>6 DEF Next, Commit

(***************************************************************************)
(* Until two different operations on one card overlap, a completed card    *)
(* rests, and no sticker is put on by a press that began after the         *)
(* deadline (is_completed, is_expired in reward_event.py).                 *)
(***************************************************************************)
THEOREM OnlyCrossingDisturbs == WatchedSpec => OnlyCrossingBreaksCards
  <1>1. OverlapInv /\ [WatchedNext]_<<vars, smooth>> => [OverlapStep]_<<vars, smooth>>
    BY EveryStepRests
  <1> QED
    BY <1>1, OverlapHolds, PTL DEF WatchedSpec, OnlyCrossingBreaksCards, OverlapStep
=============================================================================
