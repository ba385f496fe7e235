----------------------------- MODULE FamilyAccess -----------------------------
(***************************************************************************)
(* Who may do what in a family, three times over: the scopes an account    *)
(* has and an entrance asks for (ADR-0018), the policy the server decides  *)
(* by (family_access_policy.py), and what the screens offer, from the      *)
(* flags of the overview and the role they were told (ADR-0019).           *)
(*                                                                         *)
(* Left out: roles that an operator has edited, displays (DisplayPairing), *)
(* and the rows of a ledger (every ledger here is empty).                  *)
(***************************************************************************)
EXTENDS FamilyMembership

-----------------------------------------------------------------------------
(* Scopes.                                                                   *)

Viewing == {"family:view", "point:view"}

Guardian == Viewing \cup {"family:manage", "point:manage"}

\* What the roles that are given to members and to children come with.
Scopes(a) ==
    CASE accounts[a] = "member" -> Guardian
      [] accounts[a] = "child"  -> Viewing
      [] OTHER                  -> {}

HasScope(a, required) == required \subseteq Scopes(a)

\* The entrances of the API, and the scopes each asks for.
FamilyEntrance ==
    [op \in {"create", "import", "export", "list", "view", "leave", "rename", "rules", "dissolve"} |->
        CASE op \in {"create", "import"}                -> Guardian
          [] op = "export"                              -> Viewing
          [] op \in {"list", "view", "leave"}           -> {"family:view"}
          [] op \in {"rename", "rules", "dissolve"}     -> {"family:manage"}]

MemberEntrance ==
    [op \in {"add_child", "remove", "reorder", "reset_password", "propose", "withdraw", "approve"} |->
        IF op = "approve" THEN {"family:view"} ELSE {"family:manage"}]

\* A code may be redeemed without an account.
JoiningEntrance == [redeem |-> {}, accept |-> {"family:view"}]

InvitationEntrance == [op \in {"invitations", "invite", "revoke"} |-> {"family:manage"}]

LedgerEntrance ==
    [op \in {"history", "suggest", "record", "reverse", "correct", "bonus", "stop_bonus"} |->
        IF op = "history" THEN {"point:view"} ELSE {"point:manage"}]

CardEntrance ==
    [op \in {"board", "card", "deadline", "stick", "peel", "delete_card"} |->
        IF op = "board" THEN {"point:view"} ELSE {"point:manage"}]

\* require_permission.
Entered(a, op) ==
    \E E \in {FamilyEntrance, MemberEntrance, JoiningEntrance, InvitationEntrance,
              LedgerEntrance, CardEntrance} :
        op \in DOMAIN E /\ HasScope(a, E[op])

-----------------------------------------------------------------------------
(* The policy: actor and target are participants of one family.              *)

HasOwnLedger(m) == member[m].role = "child"

CanAdminister(actor) == member[actor].role = "owner"

CanViewLedger(actor, target) == IsGuardian(actor) \/ actor = target

CanModifyLedger(actor, target) == IsGuardian(actor)

CanProposeFor(actor, target) == IsGuardian(actor) /\ HasOwnLedger(target) /\ Linked(target)

\* Mutant: the owner is offered to remove itself.
CanRemoveAnyone(actor, target) == CanAdminister(actor)

CanRemove(actor, target) == CanAdminister(actor) /\ target # actor

CanResetPasswordOf(actor, target) ==
    IsGuardian(actor) /\ HasOwnLedger(target) /\ target # actor

CanIssueTemporaryPasswordFor(actor, target) ==
    CanResetPasswordOf(actor, target) /\ Linked(target)

-----------------------------------------------------------------------------
(* The overview of a family for a participant, me, whose account is a.       *)

LedgerVisible(me, m) == HasOwnLedger(m) /\ CanViewLedger(me, m)

Overview(a, me) ==
    LET manages == HasScope(a, {"family:manage"}) IN
    [m \in In(member[me].family) |->
        [canReset   |-> manages /\ CanIssueTemporaryPasswordFor(me, m),
         canPropose |-> manages /\ CanProposeFor(me, m),
         canRemove  |-> manages /\ CanRemove(me, m),
         ledger     |-> LedgerVisible(me, m)]]

-----------------------------------------------------------------------------
(* The screens: what a person can press.                                     *)

Offer(op, m) == [op |-> op, id |-> m, role |-> "none", code |-> NoCode]

Offers(shown, ops, m) == IF shown THEN {Offer(op, m) : op \in ops} ELSE {}

MemberButtons(row, m) ==
    Offers(row.canReset, {"reset_password"}, m)
    \cup Offers(row.canRemove, {"remove"}, m)
    \cup Offers(row.canPropose, {IF member[m].proposed THEN "withdraw" ELSE "propose"}, m)
    \cup Offers(row.ledger, {"history", "board"}, m)

\* Leaving and dissolving are left to the server's conditions: not here.
SettingsPanel(a, me) ==
    LET children == {m \in In(member[me].family) : HasOwnLedger(m)} IN
    Offers(CanAdminister(me), {"rename"}, 0)
    \cup Offers(HasScope(a, {"family:manage"}), {"rules"}, 0)
    \cup Offers(Cardinality(children) > 1, {"reorder"}, 0)

\* The codes of everybody are listed, each with a button.
InvitationPanel(me) ==
    LET f == member[me].family
        invitable == {m \in In(f) : ~Linked(m) /\ (HasOwnLedger(m) \/ CanAdminister(me))
                                               /\ member[m].role # "owner"}
    IN {[Offer("invite", m) EXCEPT !.role = member[m].role] : m \in invitable}
       \cup {[o EXCEPT !.role = "parent"] : o \in Offers(CanAdminister(me), {"invite"}, 0)}
       \cup {[Offer("revoke", 0) EXCEPT !.code = c] :
                c \in {d \in Code : code[d].status = "open" /\ code[d].family = f}}
       \cup {Offer("invitations", 0)}

\* DailyBonusPanel: a field for each child.
BonusPanel(a, row, m) == Offers(row.ledger /\ HasScope(a, {"point:manage"}), {"bonus"}, m)

FamilyPage(a, me) ==
    LET rows == Overview(a, me) IN
    UNION {MemberButtons(rows[m], m) : m \in DOMAIN rows}
    \cup (IF IsGuardian(me)
          THEN SettingsPanel(a, me) \cup InvitationPanel(me)
               \cup {Offer("add_child", 0), Offer("export", 0)}
               \cup UNION {BonusPanel(a, rows[m], m) : m \in DOMAIN rows}
          ELSE {})
    \cup Offers(HasOwnLedger(me) /\ member[me].proposed, {"approve"}, me)

PointEntryForm(m) == Offers(TRUE, {"record"}, m)

\* The page of a ledger, reached by its link: the form is there with can_modify.
LedgerPage(me, m) ==
    IF LedgerVisible(me, m) /\ CanModifyLedger(me, m)
    THEN PointEntryForm(m) \cup Offers(TRUE, {"suggest"}, m)
    ELSE {}

\* The buttons of a card, as far as the family decides of them.
RewardEventCard(canModify, m) == Offers(canModify, {"stick", "peel", "deadline", "delete_card"}, m)

RewardEventsPage(me, m) ==
    LET canModify == CanModifyLedger(me, m) IN
        IF LedgerVisible(me, m)
        THEN Offers(canModify, {"card"}, m) \cup RewardEventCard(canModify, m)
        ELSE {}

Pages(a, me) ==
    FamilyPage(a, me)
    \cup UNION {LedgerPage(me, m) \cup RewardEventsPage(me, m) : m \in In(member[me].family)}

\* Without a family: to create one, or to restore one from an archive.
FamiliesPage(a) ==
    Offers(ListForAccount(a) = {} /\ HasScope(a, Guardian), {"create", "import"}, 0)

-----------------------------------------------------------------------------
(* What the use cases decide, for the account a.                             *)

Allows(a, f, policy(_)) == \E me \in MembershipIn(f, a) : policy(me)

\* viewable_ledger and modifiable_ledger.
Viewable(a, m) ==
    LET policy(me) == CanViewLedger(me, m) IN HasOwnLedger(m) /\ Allows(a, member[m].family, policy)

Modifiable(a, m) ==
    LET policy(me) == CanModifyLedger(me, m) IN Viewable(a, m) /\ Allows(a, member[m].family, policy)

Resets(a, f, m) ==
    LET policy(me) == CanResetPasswordOf(me, m) IN m \in In(f) /\ Linked(m) /\ Allows(a, f, policy)

Renames(a, f) == Allows(a, f, CanAdminister)

EditsRules(a, f) == Allows(a, f, IsGuardian)

\* The screen sends the children it shows, which are those of the family.
Reorders(a, f) == Allows(a, f, IsGuardian)

Exports(a, f) == Allows(a, f, IsGuardian)

ListsInvitations(a, f) == Allows(a, f, IsGuardian)

SuggestsReasons(a, f) == Allows(a, f, IsGuardian)

\* The use case behind an entrance goes through, served by r now.
Serves(r, f, a, o) ==
    CASE o.op = "add_child" -> ENABLED BeginAddChild(r, f, a)
      [] o.op = "remove"    -> ENABLED BeginRemove(r, f, a, o.id)
      [] o.op = "propose"   -> ENABLED BeginPropose(r, f, a, o.id)
      [] o.op = "withdraw"  -> ENABLED BeginWithdraw(r, f, a, o.id)
      [] o.op = "approve"   -> ENABLED BeginApprove(r, f, a)
      [] o.op = "invite"    -> ENABLED BeginInvite(r, f, a, o.role, o.id)
      [] o.op = "revoke"    -> ENABLED BeginRevoke(r, f, a, o.code)
      [] o.op = "rename"      -> Renames(a, f)
      [] o.op = "rules"       -> EditsRules(a, f)
      [] o.op = "reorder"     -> Reorders(a, f)
      [] o.op = "export"      -> Exports(a, f)
      [] o.op = "invitations" -> ListsInvitations(a, f)
      [] o.op = "suggest"     -> SuggestsReasons(a, f)
      [] o.op = "reset_password" -> Resets(a, f, o.id)
      [] o.op \in {"history", "board"} -> Viewable(a, o.id)
      [] o.op \in {"record", "bonus", "card", "stick", "peel", "deadline", "delete_card"} ->
            Modifiable(a, o.id)

-----------------------------------------------------------------------------
(* Two buttons that the server is known to refuse: a parent's on a code for  *)
(* a parent, which only the owner may revoke, and those of a guardian whose  *)
(* account was made a child's by a code that did not fit its participant.    *)
KnownRefusal(a, me, o) ==
    \/ o.op = "revoke" /\ code[o.code].role = "parent" /\ ~CanAdminister(me)
    \/ IsGuardian(me) /\ accounts[a] = "child"

(***************************************************************************)
(* What a screen offers the server serves, if nothing has changed since    *)
(* the overview was read and no other request is on its way                *)
(* (MemberList.tsx, family_access_policy.py: no operation is shown that is *)
(* refused once it is pressed).                                            *)
(***************************************************************************)
OfferedIsServed ==
    (\A r \in Request : Serving(r, "idle")) => \E r \in Request : \A a \in Account :
        /\ \A me \in ListForAccount(a) : \A o \in Pages(a, me) :
              \/ Entered(a, o.op) /\ Serves(r, member[me].family, a, o)
              \/ KnownRefusal(a, me, o)
        /\ FamiliesPage(a) # {} => Entered(a, "create") /\ ENABLED BeginCreate(r, a)
=============================================================================
