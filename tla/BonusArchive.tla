---------------------------- MODULE BonusArchive ----------------------------
(* The archive taken of a family with a daily bonus, and imported (ADR-0026). *)
EXTENDS DailyBonus

Archive == INSTANCE FamilyArchive WITH MaxMembers <- 1, MaxTransactions <- MaxDay

(***************************************************************************)
(* A bonus that was archived and imported repeats no day.  The rows come   *)
(* back under other keys, so that only startsOn and granted_through stand  *)
(* between a restored ledger and a second grant of the days it holds       *)
(* (import_family.py, _restore_daily_bonus), whatever workers, stops and   *)
(* new promises went before; and the importer accepts those two dates.     *)
(* Two ways to a repeated day are apart.  A round that slept through days  *)
(* beyond the catch-up limit can move granted_through back                 *)
(* (mark_granted_through).  And a request that is committed on a later day *)
(* than it was asked on starts its bonus in the past: on days, if another  *)
(* bonus was configured and stopped in between, that are granted already   *)
(* (_next_day).                                                            *)
(***************************************************************************)
RestoreRepeatsNothing ==
    \A l \in Ledger : Exists(bonus[l]) =>
        /\ Archive!ConsistentBonus(bonus[l].startsOn, bonus[l].through)
        /\ skipped[l] = {} /\ l \notin overtaken =>
              \A d \in Day : granted[<<l, d>>] > 0 => d < FirstDue(bonus[l])
=============================================================================
