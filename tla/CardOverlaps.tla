---------------------------- MODULE CardOverlaps ----------------------------
(***************************************************************************)
(* RewardEvents with a memory: smooth says that so far no two parents were *)
(* doing different things to one card at the same time.  Two presses may   *)
(* overlap, a press and a peel may not.                                    *)
(***************************************************************************)
EXTENDS RewardEvents

VARIABLE smooth

Working(r, e) == ~Serving(r, "idle") /\ slot[r].op \in {"stick", "peel", "change"}
                 /\ slot[r].event = e

Crossing == \E q, r \in Request, e \in Event :
                Working(q, e) /\ Working(r, e) /\ slot[q].op # slot[r].op

WatchedInit == Init /\ smooth = TRUE

WatchedNext == Next /\ smooth' = (smooth /\ ~Crossing')

WatchedSpec == WatchedInit /\ [][WatchedNext]_<<vars, smooth>>

(***************************************************************************)
(* The stickers of a card are numbered without a gap, however many presses *)
(* overlap, until a press and a peel of the same card do (the sticker      *)
(* count is read before should_stick and should_peel and used after):      *)
(* that overlap is the only way to the gap.                                *)
(***************************************************************************)
OnlyCrossingMakesGaps == smooth => NumbersContiguous

(***************************************************************************)
(* Until two different operations on one card overlap, a completed card    *)
(* rests (it gains and loses no sticker and its deadline stays), and every *)
(* sticker is put on before the deadline has passed, by the calendar of    *)
(* the day the press began: a card that missed its deadline is never       *)
(* completed (reward_event.py, is_expired).                                *)
(***************************************************************************)
Rests(e) == stickers'[e] = stickers[e] /\ deadline'[e] = deadline[e]

InTime(r, e) ==
    Working(r, e) /\ slot'[r] = Idle /\ stickers'[e] \ stickers[e] # {}
    /\ deadline[e] # NoDeadline => slot[r].since <= deadline[e]

OnlyCrossingBreaksCards ==
    [][ smooth' => /\ \A e \in completed \cap live' : Rests(e)
                   /\ \A r \in Request, e \in Event : InTime(r, e) ]_<<vars, smooth>>
=============================================================================
