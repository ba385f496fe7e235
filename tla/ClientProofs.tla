---------------------------- MODULE ClientProofs ----------------------------
(***************************************************************************)
(* Proofs about the browsers of the system: DisplayPairing, for every      *)
(* number of screens, codes and requests, and BrowserSession, for every    *)
(* number of tabs and people.                                              *)
(***************************************************************************)
EXTENDS DisplayPairing, MCSilentAsks, TLAPS

-----------------------------------------------------------------------------
(* The screens: the invariant.                                               *)

\* A screen that waits does so for a request of its own.
Awaited ==
    \A d \in Screen : screen[d].call # NoCall =>
        /\ slot[screen[d].call] # NoCall
        /\ \A e \in Screen : screen[e].call = screen[d].call => e = d

\* Accounts and secrets are numbered as they are drawn.
Numbered ==
    /\ \A a \in accounts \cup active \cup members : a <= born
    /\ \A a \in Account : credential[a] # NoRow => a \in accounts /\ credential[a].secret <= secrets
    /\ \A p \in Code : pairing[p] # NoRow => pairing[p].account <= born
    /\ \A r \in Request : slot[r] # NoCall => slot[r].account <= born /\ slot[r].secret <= secrets
    /\ \A d \in Screen : screen[d].owner <= born /\ screen[d].secret <= secrets
    /\ \A a \in Account : a > born => outSince[a] = MaxTime + 1

\* A claim being served brings the first secret of its account, whose only code it read.
Calls ==
    \A r \in Request : slot[r] # NoCall =>
        /\ slot[r].op # "claim" => slot[r].secret = 0
        /\ slot[r].secret # 0 => slot[r].account # 0
        /\ (slot[r].phase = "open" \/ slot[r].answer = "ok") /\ slot[r].op = "claim"
              => slot[r].secret # 0
        /\ slot[r].phase = "open" /\ slot[r].op = "claim" =>
              /\ slot[r].insert
              /\ \A q \in Code : pairing[q] # NoRow /\ pairing[q].account = slot[r].account
                                    => q = slot[r].code

\* An account has one code, and no secret before that code was claimed.
Rows ==
    \A p \in Code : pairing[p] # NoRow /\ pairing[p].account # 0 =>
        /\ \A q \in Code : pairing[q] # NoRow /\ pairing[q].account = pairing[p].account => q = p
        /\ ~pairing[p].claimed => credential[pairing[p].account] = NoRow

\* A secret belongs to one account, whoever holds it: a request, a row or a screen.
Agree ==
    /\ \A r, q \in Request : slot[r] # NoCall /\ slot[q] # NoCall /\ slot[r].secret # 0
                               /\ slot[r].secret = slot[q].secret => r = q
    /\ \A r \in Request : slot[r] # NoCall /\ slot[r].secret # 0 =>
          /\ \A a \in Account : credential[a] # NoRow /\ credential[a].secret = slot[r].secret
                                    => a = slot[r].account
          /\ \A d \in Screen : screen[d].secret = slot[r].secret => screen[d].owner = slot[r].account
    /\ \A d \in Screen, a \in Account :
          credential[a] # NoRow /\ credential[a].secret = screen[d].secret => screen[d].owner = a

\* A secret on its way to a screen, or there, is the one of its account while that exists.
Valid ==
    /\ \A r \in Request :
          slot[r] # NoCall /\ slot[r].phase = "done" /\ slot[r].secret # 0
             /\ slot[r].account \in accounts =>
                /\ credential[slot[r].account] # NoRow
                /\ credential[slot[r].account].secret = slot[r].secret
    /\ \A d \in Screen : screen[d].owner \in accounts =>
          /\ credential[screen[d].owner] # NoRow
          /\ credential[screen[d].owner].secret = screen[d].secret

\* A session being opened, or whose answer is on its way, is one of the screen that waits
\* for it, and no younger than the account's last moment on the roster.
Opens(s) == s.op = "open" /\ (s.phase = "open" \/ s.answer = "ok")

Sessions ==
    /\ \A a \in Account : a \in active /\ a \in members => outSince[a] = MaxTime + 1
    /\ \A r \in Request : slot[r] # NoCall /\ Opens(slot[r]) =>
          /\ slot[r].account # 0 /\ slot[r].at <= now /\ slot[r].at <= outSince[slot[r].account]
          /\ \A d \in Screen : screen[d].call = r => screen[d].owner = slot[r].account
    /\ \A d \in Screen : /\ screen[d].secret # 0 => screen[d].owner # 0
                         /\ screen[d].until <= now + TokenLife

DisplayInv ==
    TypeOK /\ Awaited /\ Numbered /\ Calls /\ Rows /\ Agree /\ Valid /\ Sessions /\ TokensEndSoon

-----------------------------------------------------------------------------
(* Records.                                                                  *)

Operation == {"start", "claim", "open", "expire", "approve", "detach", "dissolve"}
Verdict == {"none", "ok", "pending", "expired", "removed", "error"}

\* The records of this module are no null values.
LEMMA NullsAreApart ==
    /\ \A s \in Call : s # NoCall
    /\ \A r \in Request : r # NoCall
    /\ \A row \in PairingRow : row # NoRow
    /\ \A row \in CredentialRow : row # NoRow
  <1>1. \A row \in PairingRow : row \in [expires : Nat, account : Nat, claimed : BOOLEAN]
    BY DisplayAssumption DEF PairingRow
  <1>2. \A row \in CredentialRow : row \in [secret : Nat, used : Nat]
    BY DisplayAssumption DEF CredentialRow, Secret, Time
  <1> QED
    BY <1>1, <1>2, DisplayAssumption

\* A record whose phase and answer are written.
LEMMA DoneTyped ==
    ASSUME NEW s \in Call, NEW answer \in Verdict
    PROVE  LET t == [s EXCEPT !.phase = "done", !.answer = answer] IN
           /\ t \in Call
           /\ t.phase = "done" /\ t.op = s.op /\ t.answer = answer
           /\ t.code = s.code /\ t.account = s.account /\ t.secret = s.secret /\ t.at = s.at
  BY DEF Call, Verdict

\* What a request begins with.
LEMMA BlueprintTyped ==
    ASSUME NEW op \in Operation
    PROVE  /\ Blueprint(op) \in Call
           /\ Blueprint(op).phase = "open" /\ Blueprint(op).op = op
           /\ Blueprint(op).answer = "none"
           /\ Blueprint(op).account = 0 /\ Blueprint(op).secret = 0 /\ Blueprint(op).at = 0
  <1>1. 0 \in 0 .. MaxAccount /\ 0 \in 0 .. MaxSecret /\ 0 \in Time
    BY DisplayAssumption DEF Time
  <1> QED
    BY <1>1 DEF Blueprint, Call, Operation

LEMMA RefusedTyped ==
    ASSUME NEW op \in Operation, NEW answer \in Verdict
    PROVE  /\ Refused(op, answer) \in Call
           /\ Refused(op, answer).phase = "done" /\ Refused(op, answer).op = op
           /\ Refused(op, answer).answer = answer
           /\ Refused(op, answer).account = 0 /\ Refused(op, answer).secret = 0
  <1>1. /\ Blueprint(op) \in Call /\ Blueprint(op).op = op
        /\ Blueprint(op).account = 0 /\ Blueprint(op).secret = 0
    BY BlueprintTyped
  <1> DEFINE b == Blueprint(op)
  <1>2. b \in Call /\ b.op = op /\ b.account = 0 /\ b.secret = 0
    BY <1>1
  <1>3. Refused(op, answer) = [b EXCEPT !.phase = "done", !.answer = answer]
    BY DEF Refused
  <1> HIDE DEF b
  <1>4. LET t == [b EXCEPT !.phase = "done", !.answer = answer] IN
        /\ t \in Call
        /\ t.phase = "done" /\ t.op = b.op /\ t.answer = answer
        /\ t.account = b.account /\ t.secret = b.secret
    BY <1>2, DoneTyped
  <1> QED
    BY <1>2, <1>3, <1>4

\* What an answer carries back.
Carries(s, t) ==
    /\ t.phase = "done" /\ t.op = s.op
    /\ \/ /\ t.answer = "ok"
          /\ t.code = s.code /\ t.account = s.account /\ t.secret = s.secret /\ t.at = s.at
       \/ t.answer # "ok" /\ t.account = 0 /\ t.secret = 0

\* A request is answered: its slot is free, or holds what is carried back.
LEMMA AnsweredMoves ==
    ASSUME TypeOK, NEW r \in Request, slot[r] # NoCall, NEW answer \in Verdict,
           Answered(r, answer)
    PROVE  /\ slot' \in [Request -> Call \cup {NoCall}]
           /\ \A q \in Request : q # r => slot'[q] = slot[q]
           /\ slot'[r] = NoCall \/ (slot'[r] # NoCall /\ Carries(slot[r], slot'[r]))
           /\ slot'[r] # NoCall => slot'[r].answer = answer
           /\ slot'[r] = NoCall <=> ~\E d \in Screen : screen[d].call = r
  <1> DEFINE t == [slot[r] EXCEPT !.phase = "done", !.answer = "ok"]
             u == Refused(slot[r].op, answer)
             waited == \E d \in Screen : screen[d].call = r
  <1>1. slot[r] \in Call
    BY DEF TypeOK
  <1>2. slot[r].op \in Operation
    BY <1>1 DEF Call, Operation
  <1>3. t \in Call /\ Carries(slot[r], t) /\ t.answer = "ok"
    BY <1>1, DoneTyped DEF Carries, Verdict
  <1>4. u \in Call /\ u.answer = answer /\ (answer # "ok" => Carries(slot[r], u))
    BY <1>2, RefusedTyped DEF Carries
  <1>5. slot' = [slot EXCEPT ![r] = IF waited THEN IF answer = "ok" THEN t ELSE u ELSE NoCall]
    BY DEF Answered
  <1>6. t # NoCall /\ u # NoCall
    BY <1>3, <1>4, NullsAreApart
  <1> HIDE DEF t, u, waited
  <1>7. /\ \A q \in Request : q # r => slot'[q] = slot[q]
        /\ slot'[r] = IF waited THEN IF answer = "ok" THEN t ELSE u ELSE NoCall
    BY <1>5 DEF TypeOK
  <1>8. slot' \in [Request -> Call \cup {NoCall}]
    BY <1>3, <1>4, <1>5 DEF TypeOK
  <1> QED
    BY <1>3, <1>4, <1>6, <1>7, <1>8 DEF waited

\* A request takes its slot.
LEMMA AskMoves ==
    ASSUME TypeOK, NEW r \in Request, NEW plan \in Call, Ask(r, plan)
    PROVE  /\ slot' \in [Request -> Call \cup {NoCall}]
           /\ \A q \in Request : q # r => slot'[q] = slot[q]
           /\ slot[r] = NoCall /\ slot'[r] = plan /\ slot'[r] # NoCall
  BY NullsAreApart DEF Ask, TypeOK

\* What waiting changes of a screen.
LEMMA AskFromMoves ==
    ASSUME TypeOK, NEW d \in Screen, NEW r \in Request, NEW plan \in Call, AskFrom(d, r, plan)
    PROVE  /\ slot' \in [Request -> Call \cup {NoCall}]
           /\ screen' \in [Screen -> Memory]
           /\ \A q \in Request : q # r => slot'[q] = slot[q]
           /\ slot[r] = NoCall /\ slot'[r] = plan /\ slot'[r] # NoCall
           /\ screen'[d].call = r /\ screen[d].call = NoCall
           /\ \A e \in Screen : e # d => screen'[e] = screen[e]
           /\ \A e \in Screen : /\ screen'[e].code = screen[e].code
                                /\ screen'[e].secret = screen[e].secret
                                /\ screen'[e].owner = screen[e].owner
                                /\ screen'[e].until = screen[e].until
  <1>1. screen' = [screen EXCEPT ![d].call = r] /\ Ask(r, plan) /\ screen[d].call = NoCall
    BY DEF AskFrom
  <1>2. \A e \in Screen : screen[e] \in Memory
    BY DEF TypeOK
  <1>3. /\ screen'[d] = [screen[d] EXCEPT !.call = r]
        /\ \A e \in Screen : e # d => screen'[e] = screen[e]
    BY <1>1 DEF TypeOK
  <1>4. /\ screen'[d].call = r /\ screen'[d].code = screen[d].code
        /\ screen'[d].secret = screen[d].secret /\ screen'[d].owner = screen[d].owner
        /\ screen'[d].until = screen[d].until /\ screen'[d] \in Memory
    BY <1>2, <1>3 DEF Memory
  <1>5. screen' \in [Screen -> Memory]
    BY <1>1, <1>2, <1>3, <1>4 DEF TypeOK
  <1>6. /\ slot' \in [Request -> Call \cup {NoCall}]
        /\ \A q \in Request : q # r => slot'[q] = slot[q]
        /\ slot[r] = NoCall /\ slot'[r] = plan /\ slot'[r] # NoCall
    BY <1>1, AskMoves
  <1> QED
    BY <1>1, <1>3, <1>4, <1>5, <1>6

-----------------------------------------------------------------------------
(* Requests that begin.                                                      *)

\* What a plan may be: drawn a new secret for the account of an approved code, opened a
\* session of the owner of a secret, or neither.
PlanOfClaim(s) ==
    /\ s.op = "claim" /\ s.phase = "open"
    /\ s.secret = secrets + 1 /\ secrets' = secrets + 1
    /\ s.code \in Code /\ pairing[s.code] # NoRow /\ ~pairing[s.code].claimed
    /\ s.account = pairing[s.code].account /\ s.account # 0
    /\ s.insert = (credential[s.account] = NoRow)

PlanOfOpen(r, s) ==
    /\ s.op = "open" /\ s.phase = "open" /\ s.at = now
    /\ s.account \in Account \cap active \cap members \cap accounts
    /\ credential[s.account] # NoRow
    /\ \A d \in Screen : screen[d].call # r /\ screen'[d].call = r =>
          credential[s.account].secret = screen[d].secret

PlanOfNeither(s) ==
    /\ s.op \in {"claim", "open"} => s.phase = "done" /\ s.answer # "ok"
    /\ s.account = 0 \/ s.account \in accounts

Begun(r) ==
    /\ slot' \in [Request -> Call \cup {NoCall}]
    /\ screen' \in [Screen -> Memory]
    /\ drawn' \subseteq Code /\ secrets' \in 0 .. MaxSecret
    /\ UNCHANGED <<now, family, pairing, accounts, active, members, credential, born, lost, outSince>>
    /\ slot[r] = NoCall /\ slot'[r] # NoCall
    /\ \A q \in Request : q # r => slot'[q] = slot[q]
    /\ \A e \in Screen : /\ screen'[e].secret = screen[e].secret
                         /\ screen'[e].owner = screen[e].owner
                         /\ screen'[e].until = screen[e].until
                         /\ \/ screen'[e].call = screen[e].call
                            \/ screen[e].call = NoCall /\ screen'[e].call = r
    /\ \A e, f \in Screen : screen'[e].call # screen[e].call /\ screen'[f].call # screen[f].call
                              => e = f
    /\ \/ PlanOfClaim(slot'[r])
       \/ PlanOfOpen(r, slot'[r]) /\ slot'[r].secret = 0 /\ secrets' = secrets
       \/ PlanOfNeither(slot'[r]) /\ slot'[r].secret = 0 /\ secrets' = secrets

\* A request that a screen waits for, and one that nobody waits for.
LEMMA BegunFrom ==
    ASSUME TypeOK, NEW d \in Screen, NEW r \in Request, NEW plan \in Call, AskFrom(d, r, plan),
           drawn' \subseteq Code, secrets' \in 0 .. MaxSecret,
           UNCHANGED <<now, born, lost, outSince, tables>>,
           \/ PlanOfClaim(plan)
           \/ PlanOfOpen(r, plan) /\ plan.secret = 0 /\ secrets' = secrets
           \/ PlanOfNeither(plan) /\ plan.secret = 0 /\ secrets' = secrets
    PROVE  Begun(r)
  BY AskFromMoves DEF Begun, tables

LEMMA BegunAlone ==
    ASSUME TypeOK, NEW r \in Request, NEW plan \in Call, Ask(r, plan),
           UNCHANGED <<now, drawn, born, secrets, screen, lost, outSince, tables>>,
           PlanOfNeither(plan), plan.secret = 0
    PROVE  Begun(r)
  BY AskMoves DEF Begun, tables, TypeOK

\* A plan that is refused at once.
LEMMA RefusedIsNeither ==
    ASSUME NEW op \in Operation, NEW answer \in Verdict, answer # "ok"
    PROVE  PlanOfNeither(Refused(op, answer)) /\ Refused(op, answer).secret = 0
  BY RefusedTyped DEF PlanOfNeither

LEMMA BeginStartBegins ==
    ASSUME TypeOK, NEW d \in Screen, NEW r \in Request, BeginStart(d, r)
    PROVE  Begun(r)
  <1>1. PICK p \in Code \ drawn :
            /\ AskFrom(d, r, [Blueprint("start") EXCEPT !.code = p, !.at = now])
            /\ drawn' = drawn \cup {p}
    BY DEF BeginStart
  <1> DEFINE b == Blueprint("start")
             plan == [b EXCEPT !.code = p, !.at = now]
  <1>2. /\ b \in Call /\ b.op = "start" /\ b.secret = 0 /\ b.account = 0
        /\ now \in Time /\ drawn' \subseteq Code /\ secrets \in 0 .. MaxSecret
    BY <1>1, BlueprintTyped DEF TypeOK, Operation
  <1> HIDE DEF b
  <1>3. plan \in Call /\ plan.op = "start" /\ plan.secret = 0 /\ plan.account = 0
    BY <1>2 DEF Call
  <1>4. AskFrom(d, r, plan)
    BY <1>1 DEF b
  <1> HIDE DEF plan
  <1>5. PlanOfNeither(plan)
    BY <1>3 DEF PlanOfNeither
  <1> QED
    BY <1>2, <1>3, <1>4, <1>5, BegunFrom DEF BeginStart

LEMMA BeginApproveBegins ==
    ASSUME TypeOK, NEW r \in Request, BeginApprove(r)
    PROVE  Begun(r)
  <1>1. PICK p \in Code : Ask(r, [Blueprint("approve") EXCEPT !.code = p])
    BY DEF BeginApprove
  <1> DEFINE b == Blueprint("approve")
             plan == [b EXCEPT !.code = p]
  <1>2. b \in Call /\ b.op = "approve" /\ b.secret = 0 /\ b.account = 0
    BY BlueprintTyped DEF Operation
  <1> HIDE DEF b
  <1>3. plan \in Call /\ plan.op = "approve" /\ plan.secret = 0 /\ plan.account = 0
    BY <1>2 DEF Call
  <1>4. Ask(r, plan)
    BY <1>1 DEF b
  <1> HIDE DEF plan
  <1>5. PlanOfNeither(plan)
    BY <1>3 DEF PlanOfNeither
  <1> QED
    BY <1>3, <1>4, <1>5, BegunAlone DEF BeginApprove

LEMMA BeginDetachBegins ==
    ASSUME TypeOK, NEW r \in Request, BeginDetach(r)
    PROVE  Begun(r)
  <1>1. PICK a \in Account : OnRoster(a) /\ Ask(r, [Blueprint("detach") EXCEPT !.account = a])
    BY DEF BeginDetach
  <1> DEFINE b == Blueprint("detach")
             plan == [b EXCEPT !.account = a]
  <1>2. /\ b \in Call /\ b.op = "detach" /\ b.secret = 0
        /\ a \in 0 .. MaxAccount /\ a \in accounts
    BY <1>1, BlueprintTyped, DisplayAssumption DEF Operation, OnRoster, Account
  <1> HIDE DEF b
  <1>3. plan \in Call /\ plan.op = "detach" /\ plan.secret = 0 /\ plan.account = a
    BY <1>2 DEF Call
  <1>4. Ask(r, plan)
    BY <1>1 DEF b
  <1> HIDE DEF plan
  <1>5. PlanOfNeither(plan)
    BY <1>2, <1>3 DEF PlanOfNeither
  <1> QED
    BY <1>3, <1>4, <1>5, BegunAlone DEF BeginDetach

LEMMA BeginDissolveBegins ==
    ASSUME TypeOK, NEW r \in Request, BeginDissolve(r)
    PROVE  Begun(r)
  <1> DEFINE b == Blueprint("dissolve")
  <1>1. b \in Call /\ b.op = "dissolve" /\ b.secret = 0 /\ b.account = 0
    BY BlueprintTyped DEF Operation
  <1>2. Ask(r, b)
    BY DEF BeginDissolve
  <1> HIDE DEF b
  <1>3. PlanOfNeither(b)
    BY <1>1 DEF PlanOfNeither
  <1> QED
    BY <1>1, <1>2, <1>3, BegunAlone DEF BeginDissolve

LEMMA BeginClaimBegins ==
    ASSUME TypeOK, NEW d \in Screen, NEW r \in Request, BeginClaim(d, r)
    PROVE  Begun(r)
  <1> DEFINE p == screen[d].code
             row == pairing[p]
             b == Blueprint("claim")
             plan == [b EXCEPT !.code = p, !.account = row.account, !.secret = secrets + 1,
                               !.at = now, !.insert = credential[row.account] = NoRow]
  <1>1. p \in Code /\ row \in PairingRow \cup {NoRow}
    BY DEF BeginClaim, TypeOK, Memory
  <1>2. UNCHANGED <<now, drawn, born, lost, outSince, tables>>
    BY DEF BeginClaim
  <1>3. drawn' \subseteq Code /\ secrets \in 0 .. MaxSecret /\ now \in Time
    BY <1>2 DEF TypeOK
  <1>4. ASSUME NEW answer \in {"expired", "pending"}, AskFrom(d, r, Refused("claim", answer)),
               UNCHANGED secrets
        PROVE  Begun(r)
    <2>1. answer \in Verdict /\ answer # "ok" /\ "claim" \in Operation
      BY DEF Verdict, Operation
    <2>2. /\ Refused("claim", answer) \in Call
          /\ PlanOfNeither(Refused("claim", answer)) /\ Refused("claim", answer).secret = 0
      BY <2>1, RefusedTyped, RefusedIsNeither
    <2> QED
      BY <1>2, <1>3, <1>4, <2>2, BegunFrom
  <1>5. ASSUME row # NoRow, ~row.claimed, IsApproved(row),
               secrets < MaxSecret, secrets' = secrets + 1, AskFrom(d, r, plan)
        PROVE  Begun(r)
    <2>1. b \in Call /\ b.op = "claim" /\ b.phase = "open"
      BY BlueprintTyped DEF Operation
    <2>2. row.account \in 0 .. MaxAccount /\ row.account # 0 /\ secrets + 1 \in 0 .. MaxSecret
      BY <1>1, <1>3, <1>5, DisplayAssumption DEF IsApproved, PairingRow
    <2> HIDE DEF b, row, p
    <2>3. /\ plan \in Call /\ plan.op = "claim" /\ plan.phase = "open" /\ plan.code = p
          /\ plan.account = row.account /\ plan.secret = secrets + 1
          /\ plan.insert = (credential[row.account] = NoRow)
      BY <1>1, <1>3, <2>1, <2>2 DEF Call
    <2> HIDE DEF plan
    <2>4. PlanOfClaim(plan)
      BY <1>1, <1>5, <2>2, <2>3 DEF PlanOfClaim, row
    <2> QED
      BY <1>2, <1>3, <1>5, <2>2, <2>3, <2>4, BegunFrom
  <1> QED
    BY <1>4, <1>5 DEF BeginClaim

LEMMA BeginOpenBegins ==
    ASSUME TypeOK, NEW d \in Screen, NEW r \in Request, BeginOpen(d, r)
    PROVE  Begun(r)
  <1> DEFINE s == screen[d].secret
  <1>1. UNCHANGED <<now, drawn, born, secrets, lost, outSince, tables>>
    BY DEF BeginOpen
  <1>2. drawn' \subseteq Code /\ secrets' \in 0 .. MaxSecret /\ now \in Time
    BY <1>1 DEF TypeOK
  <1>3. ASSUME NEW op \in Operation, NEW answer \in {"removed", "error"},
               AskFrom(d, r, Refused(op, answer))
        PROVE  Begun(r)
    <2>1. answer \in Verdict /\ answer # "ok"
      BY DEF Verdict
    <2>2. /\ Refused(op, answer) \in Call
          /\ PlanOfNeither(Refused(op, answer)) /\ Refused(op, answer).secret = 0
      BY <2>1, RefusedTyped, RefusedIsNeither
    <2> QED
      BY <1>1, <1>2, <1>3, <2>2, BegunFrom
  <1>4. ASSUME NEW a \in Owners(s), OnRoster(a),
               AskFrom(d, r, [Blueprint("expire") EXCEPT !.account = a])
        PROVE  Begun(r)
    <2> DEFINE b == Blueprint("expire")
               plan == [b EXCEPT !.account = a]
    <2>1. /\ b \in Call /\ b.op = "expire" /\ b.secret = 0
          /\ a \in 0 .. MaxAccount /\ a \in accounts
      BY <1>4, BlueprintTyped, DisplayAssumption DEF Operation, OnRoster, Account, Owners
    <2> HIDE DEF b
    <2>2. plan \in Call /\ plan.op = "expire" /\ plan.secret = 0 /\ plan.account = a
      BY <2>1 DEF Call
    <2>3. AskFrom(d, r, plan)
      BY <1>4 DEF b
    <2> HIDE DEF plan
    <2>4. PlanOfNeither(plan)
      BY <2>1, <2>2 DEF PlanOfNeither
    <2> QED
      BY <1>1, <1>2, <2>2, <2>3, <2>4, BegunFrom
  <1>5. ASSUME NEW a \in Owners(s), a \in active, OnRoster(a),
               AskFrom(d, r, [Blueprint("open") EXCEPT !.account = a, !.at = now])
        PROVE  Begun(r)
    <2> DEFINE b == Blueprint("open")
               plan == [b EXCEPT !.account = a, !.at = now]
    <2>1. /\ b \in Call /\ b.op = "open" /\ b.phase = "open" /\ b.secret = 0
          /\ a \in 0 .. MaxAccount /\ a \in Account \cap active \cap members \cap accounts
          /\ credential[a] # NoRow /\ credential[a].secret = s
      BY <1>5, BlueprintTyped, DisplayAssumption DEF Operation, OnRoster, Account, Owners
    <2> HIDE DEF b
    <2>2. /\ plan \in Call /\ plan.op = "open" /\ plan.phase = "open" /\ plan.secret = 0
          /\ plan.account = a /\ plan.at = now
      BY <1>2, <2>1 DEF Call
    <2>3. AskFrom(d, r, plan)
      BY <1>5 DEF b
    <2> HIDE DEF plan
    <2>4. \A e \in Screen : screen[e].call # r /\ screen'[e].call = r => e = d
      BY <2>2, <2>3, AskFromMoves
    <2>5. PlanOfOpen(r, plan)
      BY <2>1, <2>2, <2>4 DEF PlanOfOpen
    <2> QED
      BY <1>1, <1>2, <2>2, <2>3, <2>5, BegunFrom
  <1>6. "open" \in Operation /\ "expire" \in Operation
    BY DEF Operation
  <1> QED
    BY <1>3, <1>4, <1>5, <1>6 DEF BeginOpen

LEMMA BeginBegins ==
    ASSUME TypeOK, NEW r \in Request, People(r) \/ \E d \in Screen : Call_(d, r)
    PROVE  Begun(r)
  BY BeginStartBegins, BeginApproveBegins, BeginDetachBegins, BeginDissolveBegins,
     BeginClaimBegins, BeginOpenBegins DEF People, Call_

-----------------------------------------------------------------------------
(* Requests that end, and answers that arrive or do not.                     *)

\* Requests go, rest, or carry their answer back; screens keep what they know.
Fades ==
    /\ slot' \in [Request -> Call \cup {NoCall}]
    /\ screen' \in [Screen -> Memory]
    /\ lost' \in 0 .. MaxLost
    /\ UNCHANGED <<drawn, secrets>>
    /\ \A q \in Request :
          \/ slot'[q] = NoCall
          \/ slot'[q] = slot[q]
          \/ /\ slot[q] # NoCall /\ slot[q].phase = "open"
             /\ slot'[q] # NoCall /\ Carries(slot[q], slot'[q])
    /\ \A e \in Screen : /\ screen'[e].secret = screen[e].secret
                         /\ screen'[e].owner = screen[e].owner
                         /\ screen'[e].until = screen[e].until
                         /\ screen'[e].call = screen[e].call \/ screen'[e].call = NoCall
    /\ \A q \in Request, e \in Screen : slot'[q] = NoCall /\ screen'[e].call = q => slot[q] = NoCall

\* No secret is carried back.
Silent ==
    \A q \in Request : slot'[q] # slot[q] /\ slot'[q] # NoCall /\ slot[q].op = "claim"
                          => slot'[q].answer # "ok"

LEMMA AnswerFades ==
    ASSUME TypeOK, NEW r \in Request, slot[r] # NoCall, slot[r].phase = "open",
           NEW answer \in Verdict, Answered(r, answer), UNCHANGED <<drawn, secrets, screen, lost>>
    PROVE  Fades /\ (answer # "ok" \/ slot[r].op # "claim" => Silent)
  <1>1. screen' \in [Screen -> Memory] /\ lost' \in 0 .. MaxLost
    BY DEF TypeOK
  <1>2. /\ slot' \in [Request -> Call \cup {NoCall}]
        /\ \A q \in Request : q # r => slot'[q] = slot[q]
        /\ slot'[r] = NoCall \/ (slot'[r] # NoCall /\ Carries(slot[r], slot'[r]))
        /\ slot'[r] # NoCall => slot'[r].answer = answer
        /\ slot'[r] = NoCall <=> ~\E d \in Screen : screen[d].call = r
    BY AnsweredMoves
  <1>3. \A q \in Request, e \in Screen : slot'[q] = NoCall /\ screen'[e].call = q => slot[q] = NoCall
    BY <1>2
  <1> QED
    BY <1>1, <1>2, <1>3 DEF Fades, Silent

LEMMA RestFades ==
    ASSUME TypeOK, UNCHANGED <<drawn, secrets, slot, screen, lost>>
    PROVE  Fades /\ Silent
  BY DEF TypeOK, Fades, Silent

LEMMA LoseFades ==
    ASSUME TypeOK, Awaited, NEW d \in Screen, Lose(d)
    PROVE  Fades /\ Silent
  <1> DEFINE r == screen[d].call
  <1>1. PICK reload \in BOOLEAN :
            screen' = [screen EXCEPT ![d].call = NoCall,
                                     ![d].code = IF reload THEN NoCode ELSE @]
    BY DEF Lose
  <1>2. /\ screen[d].call # NoCall
        /\ lost < MaxLost /\ lost' = lost + 1
        /\ slot' = [slot EXCEPT ![r] = IF @.phase = "done" THEN NoCall ELSE @]
        /\ UNCHANGED <<drawn, secrets>>
    BY DEF Lose
  <1>3. r \in Request /\ screen[d] \in Memory
    BY <1>2 DEF TypeOK, Memory
  <1>4. lost' \in 0 .. MaxLost
    BY <1>2, DisplayAssumption DEF TypeOK
  <1> HIDE DEF r
  <1>5. /\ \A q \in Request : q # r => slot'[q] = slot[q]
        /\ slot'[r] = NoCall \/ slot'[r] = slot[r]
    BY <1>2, <1>3 DEF TypeOK
  <1>6. slot' \in [Request -> Call \cup {NoCall}]
    BY <1>2, <1>3 DEF TypeOK
  <1> DEFINE m == [screen[d] EXCEPT !.call = NoCall, !.code = IF reload THEN NoCode ELSE @]
  <1>7. /\ m \in Memory /\ m.secret = screen[d].secret /\ m.owner = screen[d].owner
        /\ m.until = screen[d].until /\ m.call = NoCall
    BY <1>3 DEF Memory
  <1>8. screen'[d] = m /\ \A e \in Screen : e # d => screen'[e] = screen[e]
    BY <1>1 DEF TypeOK
  <1>9. screen' \in [Screen -> Memory]
    BY <1>1, <1>7, <1>8 DEF TypeOK
  <1> HIDE DEF m
  <1>10. \A e \in Screen : screen[e].call = r => e = d
    BY <1>2 DEF Awaited, r
  <1>11. \A q \in Request, e \in Screen : slot'[q] = NoCall /\ screen'[e].call = q => slot[q] = NoCall
    BY <1>5, <1>7, <1>8, <1>10, NullsAreApart
  <1> QED
    BY <1>2, <1>4, <1>5, <1>6, <1>7, <1>8, <1>9, <1>11 DEF Fades, Silent, r

\* What a device remembers.
Same(m, n) == n.secret = m.secret /\ n.owner = m.owner /\ n.until = m.until

Nothing(n) == n.secret = 0 /\ n.owner = 0 /\ n.until = 0

LEMMA Forgets ==
    ASSUME NEW m \in Memory
    PROVE  /\ [m EXCEPT !.call = NoCall] \in Memory
           /\ [m EXCEPT !.call = NoCall].call = NoCall
           /\ [m EXCEPT !.call = NoCall].secret = m.secret
           /\ [m EXCEPT !.call = NoCall].owner = m.owner
           /\ [m EXCEPT !.call = NoCall].until = m.until
  BY DEF Memory

LEMMA Remembered ==
    ASSUME NEW m \in Memory, NEW plan \in Call
    PROVE  /\ Remember(m, plan) \in Memory
           /\ \/ Same(m, Remember(m, plan))
              \/ Nothing(Remember(m, plan))
              \/ /\ plan.op = "claim" /\ plan.answer = "ok"
                 /\ Remember(m, plan).secret = plan.secret
                 /\ Remember(m, plan).owner = plan.account
                 /\ Remember(m, plan).until = 0
              \/ /\ plan.op = "open" /\ plan.answer = "ok"
                 /\ Remember(m, plan).secret = m.secret /\ Remember(m, plan).owner = m.owner
                 /\ Remember(m, plan).until = plan.at + TokenLife
  <1> DEFINE R == Remember(m, plan)
  <1>1. 0 \in 0 .. MaxSecret /\ 0 \in 0 .. MaxAccount /\ 0 \in Nat
    BY DisplayAssumption
  <1>2. Blank \in Memory /\ Nothing(Blank)
    BY <1>1 DEF Blank, Memory, Nothing
  <1>3. CASE plan.op = "start" /\ plan.answer = "ok"
    <2>1. R = [m EXCEPT !.code = plan.code]
      BY <1>3 DEF Remember
    <2>2. plan.code \in Code \cup {NoCode}
      BY DEF Call
    <2>3. R \in Memory /\ Same(m, R)
      BY <2>1, <2>2 DEF Memory, Same
    <2> QED
      BY <2>3
  <1>4. CASE plan.op = "claim" /\ plan.answer = "ok"
    <2>1. R = [Blank EXCEPT !.secret = plan.secret, !.owner = plan.account]
      BY <1>4 DEF Remember
    <2>2. plan.secret \in 0 .. MaxSecret /\ plan.account \in 0 .. MaxAccount
      BY DEF Call
    <2>3. R \in Memory /\ R.secret = plan.secret /\ R.owner = plan.account /\ R.until = 0
      BY <1>1, <2>1, <2>2 DEF Memory, Blank
    <2> QED
      BY <1>4, <2>3
  <1>5. CASE plan.op = "open" /\ plan.answer = "ok"
    <2>1. R = [m EXCEPT !.until = plan.at + TokenLife]
      BY <1>5 DEF Remember
    <2>2. plan.at + TokenLife \in Nat
      BY DisplayAssumption DEF Call, Time
    <2>3. /\ R \in Memory /\ R.secret = m.secret /\ R.owner = m.owner
          /\ R.until = plan.at + TokenLife
      BY <2>1, <2>2 DEF Memory
    <2> QED
      BY <1>5, <2>3
  <1>6. CASE ~(plan.op \in {"start", "claim", "open"} /\ plan.answer = "ok")
    <2>1. R = Blank \/ R = m
      BY <1>6 DEF Remember
    <2> QED
      BY <1>2, <2>1 DEF Same
  <1> QED
    BY <1>3, <1>4, <1>5, <1>6

\* What an answer that arrives leaves behind.
Received(d, r) ==
    /\ slot' \in [Request -> Call \cup {NoCall}]
    /\ screen' \in [Screen -> Memory]
    /\ UNCHANGED <<now, drawn, born, secrets, lost, outSince, family, pairing, accounts, active,
                   members, credential>>
    /\ slot[r] # NoCall /\ slot[r].phase = "done" /\ screen[d].call = r
    /\ slot'[r] = NoCall
    /\ \A q \in Request : q # r => slot'[q] = slot[q]
    /\ \A e \in Screen : e # d => screen'[e] = screen[e]
    /\ screen'[d].call = NoCall
    /\ \/ Same(screen[d], screen'[d])
       \/ Nothing(screen'[d])
       \/ /\ slot[r].op = "claim" /\ slot[r].answer = "ok"
          /\ screen'[d].secret = slot[r].secret /\ screen'[d].owner = slot[r].account
          /\ screen'[d].until = 0
       \/ /\ slot[r].op = "open" /\ slot[r].answer = "ok"
          /\ screen'[d].secret = screen[d].secret /\ screen'[d].owner = screen[d].owner
          /\ screen'[d].until = slot[r].at + TokenLife

LEMMA ReceiveMoves ==
    ASSUME TypeOK, NEW d \in Screen, NEW r \in Request, Receive(d, r)
    PROVE  Received(d, r)
  <1> DEFINE n == Remember(screen[d], slot[r])
             k == [n EXCEPT !.call = NoCall]
  <1>1. slot[r] \in Call /\ screen[d] \in Memory /\ slot[r].phase = "done" /\ screen[d].call = r
    BY DEF Receive, Waits, TypeOK
  <1>2. /\ n \in Memory
        /\ \/ Same(screen[d], n)
           \/ Nothing(n)
           \/ /\ slot[r].op = "claim" /\ slot[r].answer = "ok"
              /\ n.secret = slot[r].secret /\ n.owner = slot[r].account /\ n.until = 0
           \/ /\ slot[r].op = "open" /\ slot[r].answer = "ok"
              /\ n.secret = screen[d].secret /\ n.owner = screen[d].owner
              /\ n.until = slot[r].at + TokenLife
    BY <1>1, Remembered
  <1>3. screen' = [screen EXCEPT ![d] = k] /\ slot' = [slot EXCEPT ![r] = NoCall]
    BY DEF Receive
  <1> HIDE DEF n
  <1>4. /\ k \in Memory /\ k.call = NoCall
        /\ k.secret = n.secret /\ k.owner = n.owner /\ k.until = n.until
    BY <1>2, Forgets
  <1> HIDE DEF k
  <1>5. /\ screen'[d] = k /\ \A e \in Screen : e # d => screen'[e] = screen[e]
        /\ screen' \in [Screen -> Memory]
    BY <1>3, <1>4 DEF TypeOK
  <1>6. /\ slot'[r] = NoCall /\ \A q \in Request : q # r => slot'[q] = slot[q]
        /\ slot' \in [Request -> Call \cup {NoCall}]
    BY <1>3 DEF TypeOK
  <1>7. UNCHANGED <<now, drawn, born, secrets, lost, outSince, family, pairing, accounts, active,
                    members, credential>>
    BY DEF Receive, tables
  <1>8. slot[r] # NoCall
    BY DEF Receive, Waits
  <1> QED
    BY <1>1, <1>2, <1>4, <1>5, <1>6, <1>7, <1>8 DEF Received, Same, Nothing

-----------------------------------------------------------------------------
(* What requests that end write to the tables.                               *)

\* The same row, or one that keeps its secret.
Alike(row, new) == new = row \/ (row # NoRow /\ new # NoRow /\ new.secret = row.secret)

\* Nobody gains a place: rows go, keep what they say of accounts, or are of no account yet.
Shrinks ==
    /\ pairing' \in [Code -> PairingRow \cup {NoRow}]
    /\ credential' \in [Account -> CredentialRow \cup {NoRow}]
    /\ outSince' \in [Account -> Time \cup {MaxTime + 1}]
    /\ family' \in BOOLEAN
    /\ UNCHANGED <<now, born>>
    /\ accounts' \subseteq accounts /\ active' \subseteq active /\ members' \subseteq members
    /\ \A p \in Code : pairing'[p] = NoRow \/ pairing'[p] = pairing[p] \/ pairing'[p].account = 0
    /\ \A a \in Account :
          \/ credential'[a] = NoRow /\ a \notin accounts'
          \/ Alike(credential[a], credential'[a]) /\ (a \in accounts => a \in accounts')
    /\ \A a \in Account :
          \/ outSince'[a] = outSince[a]
          \/ /\ outSince'[a] = Earlier(outSince[a], now)
             /\ a \in accounts \cup active \cup members
             /\ ~(a \in active' /\ a \in members')

LEMMA EarlierTyped ==
    ASSUME NEW t1 \in Time \cup {MaxTime + 1}, NEW t2 \in Time
    PROVE  /\ Earlier(t1, t2) \in Time
           /\ Earlier(t1, t2) <= t1 /\ Earlier(t1, t2) <= t2
           /\ Earlier(t1, t2) = t1 \/ Earlier(t1, t2) = t2
  <1>1. MaxTime \in Nat
    BY DisplayAssumption
  <1> QED
    BY <1>1 DEF Earlier, Time

LEMMA RestShrinks ==
    ASSUME TypeOK, UNCHANGED <<now, born, outSince>>, UNCHANGED tables
    PROVE  Shrinks
  BY DEF TypeOK, tables, Shrinks, Alike

LEMMA DeleteShrinks ==
    ASSUME TypeOK, NEW a \in accounts, DeleteAccount(a), UNCHANGED <<now, born, family>>
    PROVE  Shrinks
  <1>1. a \in Account /\ now \in Time /\ outSince[a] \in Time \cup {MaxTime + 1}
    BY DEF TypeOK
  <1>2. /\ accounts' = accounts \ {a} /\ active' = active \ {a} /\ members' = members \ {a}
        /\ credential' = [credential EXCEPT ![a] = NoRow]
        /\ pairing' = [p \in Code |-> IF pairing[p] # NoRow /\ pairing[p].account = a
                                      THEN NoRow ELSE pairing[p]]
        /\ outSince' = [outSince EXCEPT ![a] = Earlier(outSince[a], now)]
    BY DEF DeleteAccount
  <1>3. pairing' \in [Code -> PairingRow \cup {NoRow}]
    BY <1>2 DEF TypeOK
  <1>4. credential' \in [Account -> CredentialRow \cup {NoRow}]
    BY <1>2 DEF TypeOK
  <1>5. Earlier(outSince[a], now) \in Time
    BY <1>1, EarlierTyped
  <1>6. outSince' \in [Account -> Time \cup {MaxTime + 1}]
    BY <1>2, <1>5 DEF TypeOK
  <1>7. \A p \in Code : pairing'[p] = NoRow \/ pairing'[p] = pairing[p]
    BY <1>2
  <1>8. \A b \in Account : \/ credential'[b] = NoRow /\ b \notin accounts'
                           \/ Alike(credential[b], credential'[b]) /\ (b \in accounts => b \in accounts')
    BY <1>1, <1>2 DEF TypeOK, Alike
  <1>9. \A b \in Account : \/ outSince'[b] = outSince[b]
                           \/ /\ outSince'[b] = Earlier(outSince[b], now)
                              /\ b \in accounts \cup active \cup members
                              /\ ~(b \in active' /\ b \in members')
    BY <1>1, <1>2 DEF TypeOK
  <1>10. family' \in BOOLEAN /\ UNCHANGED <<now, born>>
    BY DEF TypeOK
  <1> QED
    BY <1>2, <1>3, <1>4, <1>6, <1>7, <1>8, <1>9, <1>10 DEF Shrinks

LEMMA StopShrinks ==
    ASSUME TypeOK, NEW a \in Account, StopAccount(a)
    PROVE  Shrinks
  <1>1. now \in Time /\ outSince[a] \in Time \cup {MaxTime + 1}
    BY DEF TypeOK
  <1>2. /\ a \in active /\ active' = active \ {a}
        /\ outSince' = [outSince EXCEPT ![a] = Earlier(outSince[a], now)]
        /\ UNCHANGED <<now, family, pairing, accounts, members, credential, born>>
    BY DEF StopAccount
  <1>3. Earlier(outSince[a], now) \in Time
    BY <1>1, EarlierTyped
  <1>4. outSince' \in [Account -> Time \cup {MaxTime + 1}]
    BY <1>2, <1>3 DEF TypeOK
  <1>5. \A b \in Account : \/ outSince'[b] = outSince[b]
                           \/ /\ outSince'[b] = Earlier(outSince[b], now)
                              /\ b \in accounts \cup active \cup members
                              /\ ~(b \in active' /\ b \in members')
    BY <1>2 DEF TypeOK
  <1> QED
    BY <1>2, <1>4, <1>5 DEF TypeOK, Shrinks, Alike

LEMMA DissolveShrinks ==
    ASSUME TypeOK, NEW r \in Request, CommitDissolve(r)
    PROVE  Shrinks
  <1>1. now \in Time /\ \A a \in Account : outSince[a] \in Time \cup {MaxTime + 1}
    BY DEF TypeOK
  <1>2. /\ family' = FALSE /\ members' = {}
        /\ outSince' = [a \in Account |-> IF a \in members THEN Earlier(outSince[a], now)
                                          ELSE outSince[a]]
        /\ UNCHANGED <<now, pairing, accounts, active, credential, born>>
    BY DEF CommitDissolve
  <1>3. \A a \in Account : Earlier(outSince[a], now) \in Time
    BY <1>1, EarlierTyped
  <1>4. outSince' \in [Account -> Time \cup {MaxTime + 1}]
    BY <1>1, <1>2, <1>3
  <1>5. \A b \in Account : \/ outSince'[b] = outSince[b]
                           \/ /\ outSince'[b] = Earlier(outSince[b], now)
                              /\ b \in accounts \cup active \cup members
                              /\ ~(b \in active' /\ b \in members')
    BY <1>2
  <1> QED
    BY <1>2, <1>4, <1>5 DEF TypeOK, Shrinks, Alike

LEMMA StartShrinks ==
    ASSUME TypeOK, NEW r \in Request, CommitStart(r)
    PROVE  Shrinks
  <1> DEFINE row == [expires |-> slot[r].at + PairingTTL, account |-> 0, claimed |-> FALSE]
  <1>1. slot[r] \in Call /\ slot[r].at \in Nat
    BY DisplayAssumption DEF CommitStart, Runs, TypeOK, Call, Time
  <1>2. row \in PairingRow /\ row.account = 0
    BY <1>1, DisplayAssumption DEF PairingRow
  <1>3. /\ pairing' = [Swept(slot[r].at) EXCEPT ![slot[r].code] = row]
        /\ UNCHANGED <<now, family, accounts, active, members, credential, born, outSince>>
    BY DEF CommitStart
  <1> HIDE DEF row
  <1>4. /\ Swept(slot[r].at) \in [Code -> PairingRow \cup {NoRow}]
        /\ \A p \in Code : Swept(slot[r].at)[p] \in {NoRow, pairing[p]}
    BY DEF TypeOK, Swept
  <1>5. /\ pairing' \in [Code -> PairingRow \cup {NoRow}]
        /\ \A p \in Code : pairing'[p] = NoRow \/ pairing'[p] = pairing[p] \/ pairing'[p].account = 0
    BY <1>2, <1>3, <1>4
  <1> QED
    BY <1>3, <1>5 DEF TypeOK, Shrinks, Alike

LEMMA OpenShrinks ==
    ASSUME TypeOK, NEW r \in Request, CommitOpen(r)
    PROVE  Shrinks
  <1> DEFINE a == slot[r].account
             row == [credential[a] EXCEPT !.used = slot[r].at]
  <1>1. slot[r] \in Call /\ slot[r].at \in Time
    BY DEF CommitOpen, Runs, TypeOK, Call
  <1>2. /\ credential' = [credential EXCEPT ![a] = row]
        /\ credential[a] # NoRow
        /\ UNCHANGED <<now, family, pairing, accounts, active, members, born, outSince>>
    BY DEF CommitOpen, Touchable
  <1>3. a \in Account => row \in CredentialRow /\ row.secret = credential[a].secret
    BY <1>1, <1>2 DEF TypeOK, CredentialRow
  <1> HIDE DEF row
  <1>4. a \in Account => row # NoRow
    BY <1>3, NullsAreApart
  <1>5. /\ credential' \in [Account -> CredentialRow \cup {NoRow}]
        /\ \A b \in Account : Alike(credential[b], credential'[b])
    BY <1>2, <1>3, <1>4 DEF TypeOK, Alike
  <1> QED
    BY <1>2, <1>5 DEF TypeOK, Shrinks

\* An approval gives birth to the account of a code.
Approved(r) ==
    /\ Fades /\ Silent
    /\ pairing' \in [Code -> PairingRow \cup {NoRow}]
    /\ UNCHANGED <<now, family, credential, outSince>>
    /\ born' = born + 1 /\ born + 1 \in Account
    /\ accounts' = accounts \cup {born + 1} /\ active' = active \cup {born + 1}
    /\ members' = members \cup {born + 1}
    /\ \A p \in Code : \/ pairing'[p] = pairing[p]
                       \/ p = slot[r].code /\ pairing'[p].account = born + 1

LEMMA CommitApproveMoves ==
    ASSUME TypeOK, NEW r \in Request, CommitApprove(r)
    PROVE  Approved(r)
  <1> DEFINE a == born + 1
             p == slot[r].code
             row == [pairing[p] EXCEPT !.account = a]
  <1>1. /\ Runs(r, "approve") /\ Answered(r, "ok")
        /\ pairing[p] # NoRow /\ a \in Account
        /\ born' = a
        /\ accounts' = accounts \cup {a} /\ active' = active \cup {a} /\ members' = members \cup {a}
        /\ pairing' = [pairing EXCEPT ![p] = row]
        /\ UNCHANGED <<now, family, drawn, credential, secrets, screen, lost, outSince>>
    BY DEF CommitApprove
  <1>2. slot[r] # NoCall /\ slot[r].phase = "open" /\ slot[r].op = "approve" /\ "ok" \in Verdict
    BY <1>1 DEF Runs, Verdict
  <1>3. Fades /\ Silent
    BY <1>1, <1>2, AnswerFades
  <1>4. a \in 0 .. MaxAccount
    BY <1>1, DisplayAssumption DEF Account
  <1>5. p \in Code => row \in PairingRow /\ row.account = a
    BY <1>1, <1>4 DEF TypeOK, PairingRow
  <1> HIDE DEF row
  <1>6. /\ pairing' \in [Code -> PairingRow \cup {NoRow}]
        /\ \A q \in Code : pairing'[q] = pairing[q] \/ (q = p /\ pairing'[q].account = a)
    BY <1>1, <1>5 DEF TypeOK
  <1> QED
    BY <1>1, <1>3, <1>6 DEF Approved

\* A claim writes the secret of the account and marks its code.
Claimed(r) ==
    /\ Fades
    /\ slot[r] # NoCall /\ slot[r].op = "claim" /\ slot[r].phase = "open"
    /\ \A q \in Request : q # r => slot'[q] = slot[q]
    /\ pairing' \in [Code -> PairingRow \cup {NoRow}]
    /\ credential' \in [Account -> CredentialRow \cup {NoRow}]
    /\ UNCHANGED <<now, family, accounts, active, members, born, outSince>>
    /\ slot[r].account \in accounts
    /\ slot[r].insert <=> credential[slot[r].account] = NoRow
    /\ credential'[slot[r].account] # NoRow
    /\ credential'[slot[r].account].secret = slot[r].secret
    /\ \A a \in Account : a # slot[r].account => credential'[a] = credential[a]
    /\ \A p \in Code : \/ pairing'[p] = pairing[p] /\ p # slot[r].code
                       \/ /\ pairing[p] # NoRow
                          /\ pairing'[p].account = pairing[p].account /\ pairing'[p].claimed

LEMMA CommitClaimMoves ==
    ASSUME TypeOK, Calls, NEW r \in Request, CommitClaim(r)
    PROVE  Claimed(r)
  <1> DEFINE a == slot[r].account
             p == slot[r].code
             row == [secret |-> slot[r].secret, used |-> slot[r].at]
             mark == [pairing[p] EXCEPT !.claimed = TRUE]
  <1>1. /\ Runs(r, "claim") /\ Answered(r, "ok")
        /\ a \in accounts /\ (slot[r].insert <=> credential[a] = NoRow)
        /\ pairing[p] # NoRow
        /\ credential' = [credential EXCEPT ![a] = row]
        /\ pairing' = [pairing EXCEPT ![p] = mark]
        /\ UNCHANGED <<now, family, drawn, accounts, active, members, born, secrets, screen, lost,
                       outSince>>
    BY DEF CommitClaim, Replaceable
  <1>2. slot[r] # NoCall /\ slot[r].phase = "open" /\ slot[r].op = "claim" /\ "ok" \in Verdict
    BY <1>1 DEF Runs, Verdict
  <1>3. Fades
    BY <1>1, <1>2, AnswerFades
  <1>4. \A q \in Request : q # r => slot'[q] = slot[q]
    BY <1>1, <1>2, AnsweredMoves
  <1>5. slot[r] \in Call /\ slot[r].secret # 0 /\ a \in Account
    BY <1>1, <1>2 DEF TypeOK, Calls
  <1>6. row \in CredentialRow /\ row.secret = slot[r].secret
    BY <1>5, DisplayAssumption DEF CredentialRow, Call, Secret
  <1>7. p \in Code => mark \in PairingRow /\ mark.account = pairing[p].account /\ mark.claimed
    BY <1>1 DEF TypeOK, PairingRow
  <1> HIDE DEF row, mark
  <1>8. row # NoRow
    BY <1>6, NullsAreApart
  <1>9. /\ credential' \in [Account -> CredentialRow \cup {NoRow}]
        /\ credential'[a] = row
        /\ \A b \in Account : b # a => credential'[b] = credential[b]
    BY <1>1, <1>5, <1>6 DEF TypeOK
  <1>10. /\ pairing' \in [Code -> PairingRow \cup {NoRow}]
         /\ \A q \in Code : \/ pairing'[q] = pairing[q] /\ q # p
                            \/ /\ pairing[q] # NoRow
                               /\ pairing'[q].account = pairing[q].account /\ pairing'[q].claimed
    <2>1. /\ \A q \in Code : q # p => pairing'[q] = pairing[q]
          /\ p \in Code => pairing'[p] = mark
          /\ pairing' \in [Code -> PairingRow \cup {NoRow}]
      BY <1>1, <1>7 DEF TypeOK
    <2> QED
      BY <1>1, <1>7, <2>1
  <1> QED
    BY <1>1, <1>2, <1>3, <1>4, <1>6, <1>8, <1>9, <1>10 DEF Claimed

\* An administrator lets an account go on.
Resumed(a) ==
    /\ a \in accounts /\ active' = active \cup {a}
    /\ outSince' \in [Account -> Time \cup {MaxTime + 1}]
    /\ outSince'[a] = IF a \in members THEN MaxTime + 1 ELSE outSince[a]
    /\ \A b \in Account : b # a => outSince'[b] = outSince[b]
    /\ UNCHANGED <<now, family, pairing, drawn, accounts, members, credential, born,
                   secrets, slot, screen, lost>>

LEMMA ResumeMoves ==
    ASSUME TypeOK, NEW a \in Account, ResumeAccount(a)
    PROVE  Resumed(a)
  BY DEF TypeOK, ResumeAccount, Resumed

\* The clock.
Ticked ==
    /\ now' \in Time /\ now' = now + 1
    /\ UNCHANGED <<family, pairing, drawn, accounts, active, members, credential, born,
                   secrets, slot, screen, lost, outSince>>

LEMMA TickMoves ==
    ASSUME TypeOK, Tick
    PROVE  Ticked
  BY DisplayAssumption DEF TypeOK, Tick, Ticked, tables, Time

\* Every step is one of these.
Moves ==
    \/ \E r \in Request : Begun(r)
    \/ Shrinks /\ Fades /\ Silent
    \/ \E d \in Screen, r \in Request : Received(d, r)
    \/ \E r \in Request : Approved(r)
    \/ \E r \in Request : Claimed(r)
    \/ \E a \in Account : Resumed(a)
    \/ Ticked

\* A request that is answered, and whose writes take a place from somebody or give none.
LEMMA CommitMoves ==
    ASSUME TypeOK, Calls, NEW r \in Request, Commit(r)
    PROVE  Moves
  <1>1. ASSUME NEW op \in Operation, NEW answer \in Verdict, Runs(r, op), Answered(r, answer),
               op # "claim", Shrinks, UNCHANGED <<drawn, secrets, screen, lost>>
        PROVE  Moves
    <2>1. slot[r] # NoCall /\ slot[r].phase = "open" /\ slot[r].op # "claim"
      BY <1>1 DEF Runs
    <2> QED
      BY <1>1, <2>1, AnswerFades DEF Moves
  <1>2. ASSUME CommitStart(r) PROVE Moves
    <2>1. Shrinks /\ Runs(r, "start") /\ Answered(r, "ok") /\ UNCHANGED <<drawn, secrets, screen, lost>>
      BY <1>2, StartShrinks DEF CommitStart
    <2> QED
      BY <1>1, <2>1 DEF Operation, Verdict
  <1>3. ASSUME CommitOpen(r) PROVE Moves
    <2>1. Shrinks /\ Runs(r, "open") /\ Answered(r, "ok") /\ UNCHANGED <<drawn, secrets, screen, lost>>
      BY <1>3, OpenShrinks DEF CommitOpen
    <2> QED
      BY <1>1, <2>1 DEF Operation, Verdict
  <1>4. ASSUME CommitExpire(r) PROVE Moves
    <2>1. Shrinks
      BY <1>4, DeleteShrinks DEF CommitExpire
    <2>2. Runs(r, "expire") /\ Answered(r, "removed") /\ UNCHANGED <<drawn, secrets, screen, lost>>
      BY <1>4 DEF CommitExpire
    <2> QED
      BY <1>1, <2>1, <2>2 DEF Operation, Verdict
  <1>5. ASSUME CommitDetach(r) PROVE Moves
    <2>1. Shrinks
      BY <1>5, DeleteShrinks DEF CommitDetach
    <2>2. Runs(r, "detach") /\ Answered(r, "ok") /\ UNCHANGED <<drawn, secrets, screen, lost>>
      BY <1>5 DEF CommitDetach
    <2> QED
      BY <1>1, <2>1, <2>2 DEF Operation, Verdict
  <1>6. ASSUME CommitDissolve(r) PROVE Moves
    <2>1. Shrinks /\ Runs(r, "dissolve") /\ Answered(r, "ok")
          /\ UNCHANGED <<drawn, secrets, screen, lost>>
      BY <1>6, DissolveShrinks DEF CommitDissolve
    <2> QED
      BY <1>1, <2>1 DEF Operation, Verdict
  <1> QED
    BY <1>2, <1>3, <1>4, <1>5, <1>6, CommitApproveMoves, CommitClaimMoves DEF Commit, Moves

LEMMA NextMoves ==
    ASSUME TypeOK, Awaited, Calls, [Next]_vars
    PROVE  Moves
  <1>1. ASSUME NEW r \in Request, People(r) \/ \E d \in Screen : Call_(d, r)
        PROVE  Moves
    BY <1>1, BeginBegins DEF Moves
  <1>2. ASSUME NEW d \in Screen, NEW r \in Request, Receive(d, r) PROVE Moves
    BY <1>2, ReceiveMoves DEF Moves
  <1>3. ASSUME NEW r \in Request, Rollback(r) PROVE Moves
    <2>1. /\ slot[r] # NoCall /\ slot[r].phase = "open" /\ Answered(r, "error")
          /\ UNCHANGED <<drawn, secrets, screen, lost>> /\ UNCHANGED <<now, born, outSince>>
          /\ UNCHANGED tables /\ "error" \in Verdict
      BY <1>3 DEF Rollback, Verdict
    <2> QED
      BY <2>1, RestShrinks, AnswerFades DEF Moves
  <1>4. ASSUME NEW a \in Account, StopAccount(a) PROVE Moves
    <2>1. UNCHANGED <<drawn, secrets, slot, screen, lost>>
      BY <1>4 DEF StopAccount
    <2> QED
      BY <1>4, <2>1, StopShrinks, RestFades DEF Moves
  <1>5. ASSUME NEW a \in Account, DeleteUser(a) PROVE Moves
    <2>1. /\ a \in accounts /\ DeleteAccount(a)
          /\ UNCHANGED <<now, born, family>> /\ UNCHANGED <<drawn, secrets, slot, screen, lost>>
      BY <1>5 DEF DeleteUser
    <2> QED
      BY <2>1, DeleteShrinks, RestFades DEF Moves
  <1>6. ASSUME NEW d \in Screen, Lose(d) PROVE Moves
    <2>1. UNCHANGED <<now, born, outSince>> /\ UNCHANGED tables
      BY <1>6 DEF Lose
    <2> QED
      BY <1>6, <2>1, RestShrinks, LoseFades DEF Moves
  <1>7. ASSUME UNCHANGED vars PROVE Moves
    <2>1. /\ UNCHANGED <<now, born, outSince>> /\ UNCHANGED tables
          /\ UNCHANGED <<drawn, secrets, slot, screen, lost>>
      BY <1>7 DEF vars
    <2> QED
      BY <2>1, RestShrinks, RestFades DEF Moves
  <1>8. ASSUME NEW a \in Account, ResumeAccount(a) PROVE Moves
    BY <1>8, ResumeMoves DEF Moves
  <1>9. Tick => Moves
    BY TickMoves DEF Moves
  <1> QED
    BY <1>1, <1>2, <1>3, <1>4, <1>5, <1>6, <1>7, <1>8, <1>9, CommitMoves DEF Next

-----------------------------------------------------------------------------
(* The invariant holds.                                                      *)

LEMMA TypesKept ==
    ASSUME TypeOK, Moves
    PROVE  TypeOK'
  <1>1. ASSUME NEW r \in Request, Begun(r) PROVE TypeOK'
    BY <1>1 DEF TypeOK, Begun
  <1>2. ASSUME Shrinks, Fades PROVE TypeOK'
    BY <1>2 DEF TypeOK, Shrinks, Fades
  <1>3. ASSUME NEW d \in Screen, NEW r \in Request, Received(d, r) PROVE TypeOK'
    BY <1>3 DEF TypeOK, Received
  <1>4. ASSUME NEW r \in Request, Approved(r) PROVE TypeOK'
    <2>1. born + 1 \in 0 .. MaxAccount
      BY <1>4, DisplayAssumption DEF Approved, Account
    <2> QED
      BY <1>4, <2>1 DEF TypeOK, Approved, Fades
  <1>5. ASSUME NEW r \in Request, Claimed(r) PROVE TypeOK'
    BY <1>5 DEF TypeOK, Claimed, Fades
  <1>6. ASSUME NEW a \in Account, Resumed(a) PROVE TypeOK'
    BY <1>6 DEF TypeOK, Resumed
  <1>7. ASSUME Ticked PROVE TypeOK'
    BY <1>7 DEF TypeOK, Ticked
  <1> QED
    BY <1>1, <1>2, <1>3, <1>4, <1>5, <1>6, <1>7 DEF Moves

LEMMA AwaitedKept ==
    ASSUME TypeOK, Awaited, Moves
    PROVE  Awaited'
  <1>0. \A d \in Screen : screen[d].call \in Request \cup {NoCall}
    BY DEF TypeOK, Memory
  <1>1. ASSUME NEW r \in Request, Begun(r) PROVE Awaited'
    <2>1. \A d \in Screen : screen[d].call # r
      BY <1>1, NullsAreApart DEF Awaited, Begun
    <2> QED
      BY <1>0, <1>1, <2>1 DEF Awaited, Begun
  <1>2. ASSUME Fades PROVE Awaited'
    BY <1>0, <1>2 DEF Awaited, Fades
  <1>3. ASSUME NEW d \in Screen, NEW r \in Request, Received(d, r) PROVE Awaited'
    BY <1>0, <1>3 DEF Awaited, Received
  <1>4. ASSUME UNCHANGED <<slot, screen>> PROVE Awaited'
    BY <1>4 DEF Awaited
  <1> QED
    BY <1>1, <1>2, <1>3, <1>4 DEF Moves, Approved, Claimed, Resumed, Ticked

LEMMA NumberedKept ==
    ASSUME TypeOK, Numbered, Moves
    PROVE  Numbered'
  <1>0. /\ born \in Nat /\ secrets \in Nat
        /\ \A r \in Request : slot[r] # NoCall => slot[r].account \in Nat /\ slot[r].secret \in Nat
        /\ \A d \in Screen : screen[d].owner \in Nat /\ screen[d].secret \in Nat
        /\ \A p \in Code : pairing[p] # NoRow => pairing[p].account \in Nat
        /\ \A a \in Account : a \in Nat /\ (credential[a] # NoRow => credential[a].secret \in Nat)
    <2>1. born \in Nat /\ secrets \in Nat
      BY DisplayAssumption DEF TypeOK
    <2>2. \A r \in Request : slot[r] # NoCall => slot[r].account \in Nat /\ slot[r].secret \in Nat
      BY DisplayAssumption DEF TypeOK, Call
    <2>3. \A d \in Screen : screen[d].owner \in Nat /\ screen[d].secret \in Nat
      BY DisplayAssumption DEF TypeOK, Memory
    <2>4. \A p \in Code : pairing[p] # NoRow => pairing[p].account \in Nat
      BY DisplayAssumption DEF TypeOK, PairingRow
    <2>5. \A a \in Account : a \in Nat /\ (credential[a] # NoRow => credential[a].secret \in Nat)
      BY DisplayAssumption DEF TypeOK, CredentialRow, Secret, Account
    <2> QED
      BY <2>1, <2>2, <2>3, <2>4, <2>5
  <1>1. ASSUME NEW r \in Request, Begun(r) PROVE Numbered'
    <2>1. secrets' \in Nat /\ secrets <= secrets'
      BY <1>0, <1>1, DisplayAssumption DEF Begun, PlanOfClaim
    <2>2. slot'[r].account <= born /\ slot'[r].secret <= secrets'
      BY <1>0, <1>1, <2>1 DEF Begun, PlanOfClaim, PlanOfOpen, PlanOfNeither, Numbered
    <2> QED
      BY <1>0, <1>1, <2>1, <2>2 DEF Numbered, Begun
  <1>2. ASSUME Shrinks, Fades PROVE Numbered'
    <2>1. \A r \in Request : slot'[r] # NoCall => slot'[r].account <= born /\ slot'[r].secret <= secrets
      BY <1>0, <1>2 DEF Numbered, Fades, Carries
    <2>2. \A p \in Code : pairing'[p] # NoRow => pairing'[p].account <= born
      BY <1>0, <1>2 DEF Numbered, Shrinks
    <2>3. \A a \in Account : a > born => outSince'[a] = MaxTime + 1
      BY <1>0, <1>2 DEF Numbered, Shrinks
    <2>4. \A a \in Account : credential'[a] # NoRow =>
             a \in accounts' /\ credential'[a].secret <= secrets
      BY <1>0, <1>2 DEF Numbered, Shrinks, Alike
    <2> QED
      BY <1>2, <2>1, <2>2, <2>3, <2>4 DEF Numbered, Shrinks, Fades
  <1>3. ASSUME NEW d \in Screen, NEW r \in Request, Received(d, r) PROVE Numbered'
    <2>1. screen'[d].owner <= born /\ screen'[d].secret <= secrets
      BY <1>0, <1>3 DEF Numbered, Received, Same, Nothing
    <2> QED
      BY <1>3, <2>1 DEF Numbered, Received
  <1>4. ASSUME NEW r \in Request, Approved(r) PROVE Numbered'
    <2>1. \A q \in Request : slot'[q] # NoCall => slot'[q].account <= born /\ slot'[q].secret <= secrets
      BY <1>0, <1>4 DEF Numbered, Approved, Fades, Carries
    <2>2. \A p \in Code : pairing'[p] # NoRow => pairing'[p].account <= born + 1
      BY <1>0, <1>4 DEF Numbered, Approved
    <2>3. \A q \in Request : slot'[q] # NoCall => slot'[q].account \in Nat
      BY <1>0, <1>4 DEF Approved, Fades, Carries
    <2>4. \A a \in accounts' \cup active' \cup members' : a <= born + 1
      BY <1>0, <1>4 DEF TypeOK, Numbered, Approved
    <2>5. \A a \in Account : credential'[a] # NoRow =>
             a \in accounts' /\ credential'[a].secret <= secrets
      BY <1>4 DEF Numbered, Approved
    <2>6. \A d \in Screen : screen'[d].owner <= born + 1 /\ screen'[d].secret <= secrets
      BY <1>0, <1>4 DEF Numbered, Approved, Fades
    <2>7. \A a \in Account : a > born + 1 => outSince'[a] = MaxTime + 1
      BY <1>0, <1>4 DEF Numbered, Approved
    <2>8. \A q \in Request : slot'[q] # NoCall => slot'[q].account <= born + 1
      BY <1>0, <2>1, <2>3
    <2>9. born' = born + 1 /\ secrets' = secrets
      BY <1>4 DEF Approved, Fades
    <2> QED
      BY <2>1, <2>2, <2>4, <2>5, <2>6, <2>7, <2>8, <2>9 DEF Numbered
  <1>5. ASSUME NEW r \in Request, Claimed(r) PROVE Numbered'
    <2>1. \A q \in Request : slot'[q] # NoCall => slot'[q].account <= born /\ slot'[q].secret <= secrets
      BY <1>0, <1>5 DEF Numbered, Claimed, Fades, Carries
    <2>2. \A p \in Code : pairing'[p] # NoRow => pairing'[p].account <= born
      BY <1>0, <1>5 DEF Numbered, Claimed
    <2>3. \A a \in Account : credential'[a] # NoRow =>
             a \in accounts' /\ credential'[a].secret <= secrets
      BY <1>0, <1>5 DEF Numbered, Claimed
    <2> QED
      BY <1>5, <2>1, <2>2, <2>3 DEF Numbered, Claimed, Fades
  <1>6. ASSUME NEW a \in Account, Resumed(a) PROVE Numbered'
    BY <1>0, <1>6 DEF Numbered, Resumed
  <1>7. ASSUME Ticked PROVE Numbered'
    BY <1>7 DEF Numbered, Ticked
  <1> QED
    BY <1>1, <1>2, <1>3, <1>4, <1>5, <1>6, <1>7 DEF Moves

LEMMA CallsKept ==
    ASSUME TypeOK, Numbered, Calls, Rows, Moves
    PROVE  Calls'
  <1>0. /\ born \in Nat /\ secrets \in Nat
        /\ \A r \in Request : slot[r] # NoCall => slot[r].account \in Nat /\ slot[r].phase \in {"open", "done"}
    BY DisplayAssumption DEF TypeOK, Call
  <1>1. ASSUME NEW r \in Request, Begun(r) PROVE Calls'
    <2>1. \A q \in Request : q # r => slot'[q] = slot[q]
      BY <1>1 DEF Begun
    <2>2. pairing' = pairing
      BY <1>1 DEF Begun
    <2>3. ASSUME PlanOfClaim(slot'[r])
          PROVE  /\ slot'[r].secret # 0 /\ slot'[r].account # 0 /\ slot'[r].insert
                 /\ slot'[r].op = "claim"
                 /\ \A q \in Code : pairing[q] # NoRow /\ pairing[q].account = slot'[r].account
                                       => q = slot'[r].code
      <3>1. /\ slot'[r].op = "claim" /\ slot'[r].secret = secrets + 1
            /\ slot'[r].code \in Code /\ pairing[slot'[r].code] # NoRow
            /\ ~pairing[slot'[r].code].claimed
            /\ slot'[r].account = pairing[slot'[r].code].account /\ slot'[r].account # 0
        BY <2>3 DEF PlanOfClaim
      <3>2. credential[slot'[r].account] = NoRow
        BY <3>1 DEF Rows
      <3>3. slot'[r].insert = (credential[slot'[r].account] = NoRow)
        BY <2>3 DEF PlanOfClaim
      <3>4. slot'[r].insert
        BY <3>2, <3>3
      <3>5. \A q \in Code : pairing[q] # NoRow /\ pairing[q].account = slot'[r].account
                              => q = slot'[r].code
        BY <3>1 DEF Rows
      <3> QED
        BY <1>0, <3>1, <3>4, <3>5
    <2>4. \/ PlanOfClaim(slot'[r])
          \/ /\ slot'[r].secret = 0
             /\ slot'[r].op = "claim" => slot'[r].phase = "done" /\ slot'[r].answer # "ok"
      BY <1>1 DEF Begun, PlanOfOpen, PlanOfNeither
    <2> QED
      BY <2>1, <2>2, <2>3, <2>4 DEF Calls
  <1>2. ASSUME Fades,
               \A r \in Request, q \in Code : slot[r] # NoCall /\ slot[r].account # 0
                   /\ pairing'[q] # NoRow /\ pairing'[q].account = slot[r].account
                      => pairing[q] # NoRow /\ pairing[q].account = slot[r].account
        PROVE  Calls'
    <2>1. ASSUME NEW r \in Request, slot'[r] # NoCall
          PROVE  \/ slot'[r] = slot[r]
                 \/ /\ slot[r] # NoCall /\ slot'[r].phase = "done" /\ slot'[r].op = slot[r].op
                    /\ slot[r].phase = "open"
                    /\ \/ slot'[r].secret = slot[r].secret /\ slot'[r].account = slot[r].account
                       \/ slot'[r].secret = 0 /\ slot'[r].answer # "ok"
      BY <1>2, <2>1 DEF Fades, Carries
    <2>2. ASSUME NEW r \in Request, slot'[r] # NoCall, slot'[r].phase = "open", slot'[r].op = "claim"
          PROVE  /\ slot'[r].secret # 0 /\ slot'[r].insert
                 /\ \A q \in Code : pairing'[q] # NoRow /\ pairing'[q].account = slot'[r].account
                                       => q = slot'[r].code
      <3>1. slot'[r] = slot[r] /\ slot[r].account # 0
        BY <2>1, <2>2 DEF Calls
      <3> QED
        BY <1>2, <2>2, <3>1 DEF Calls
    <2> QED
      BY <2>1, <2>2 DEF Calls
  <1>3. ASSUME NEW d \in Screen, NEW r \in Request, Received(d, r) PROVE Calls'
    BY <1>3 DEF Calls, Received
  <1>4. ASSUME Shrinks, Fades PROVE Calls'
    BY <1>2, <1>4 DEF Shrinks
  <1>5. ASSUME NEW r \in Request, Approved(r) PROVE Calls'
    <2>1. \A q \in Request : slot[q] # NoCall => slot[q].account # born + 1
      BY <1>0 DEF Numbered
    <2> QED
      BY <1>2, <1>5, <2>1 DEF Approved
  <1>6. ASSUME NEW r \in Request, Claimed(r) PROVE Calls'
    BY <1>2, <1>6 DEF Claimed
  <1>7. ASSUME UNCHANGED <<slot, pairing>> PROVE Calls'
    BY <1>7 DEF Calls
  <1> QED
    BY <1>1, <1>3, <1>4, <1>5, <1>6, <1>7 DEF Moves, Resumed, Ticked

LEMMA RowsKept ==
    ASSUME TypeOK, Numbered, Calls, Rows, Moves
    PROVE  Rows'
  <1>0. /\ born \in Nat
        /\ \A p \in Code : pairing[p] # NoRow => pairing[p].account \in 0 .. MaxAccount
        /\ \A p \in Code : pairing[p] # NoRow /\ pairing[p].account # 0 => pairing[p].account \in Account
    BY DisplayAssumption DEF TypeOK, PairingRow, Account
  <1>1. ASSUME UNCHANGED <<pairing, credential>> PROVE Rows'
    BY <1>1 DEF Rows
  <1>2. ASSUME Shrinks PROVE Rows'
    <2>1. \A p \in Code : pairing'[p] # NoRow /\ pairing'[p].account # 0 => pairing'[p] = pairing[p]
      BY <1>2 DEF Shrinks
    <2>2. \A a \in Account : credential[a] = NoRow => credential'[a] = NoRow
      BY <1>2 DEF Shrinks, Alike
    <2> QED
      BY <1>0, <2>1, <2>2 DEF Rows
  <1>3. ASSUME NEW r \in Request, Approved(r) PROVE Rows'
    <2>1. /\ \A p \in Code : pairing[p] # NoRow => pairing[p].account # born + 1
          /\ credential' = credential
          /\ \A p \in Code : \/ pairing'[p] = pairing[p]
                             \/ p = slot[r].code /\ pairing'[p].account = born + 1
      BY <1>0, <1>3 DEF Numbered, Approved
    <2>2. credential[born + 1] = NoRow
      <3>1. born + 1 \in Account /\ born + 1 \notin accounts
        BY <1>0, <1>3 DEF Numbered, Approved
      <3> QED
        BY <3>1 DEF Numbered
    <2> QED
      BY <2>1, <2>2 DEF Rows
  <1>4. ASSUME NEW r \in Request, Claimed(r) PROVE Rows'
    <2>1. \A p \in Code : \/ pairing'[p] = pairing[p] /\ p # slot[r].code
                          \/ /\ pairing[p] # NoRow
                             /\ pairing'[p].account = pairing[p].account /\ pairing'[p].claimed
      BY <1>4 DEF Claimed
    <2>2. \A p \in Code : pairing[p] # NoRow /\ pairing[p].account = slot[r].account => p = slot[r].code
      BY <1>4 DEF Claimed, Calls
    <2>3. \A a \in Account : a # slot[r].account => credential'[a] = credential[a]
      BY <1>4 DEF Claimed
    <2>4. ASSUME NEW p \in Code, pairing'[p] # NoRow, pairing'[p].account # 0
          PROVE  pairing[p] # NoRow /\ pairing[p].account = pairing'[p].account
      BY <2>1, <2>4
    <2>5. ASSUME NEW p \in Code, pairing'[p] # NoRow, pairing'[p].account # 0, ~pairing'[p].claimed
          PROVE  credential'[pairing'[p].account] = NoRow
      <3>1. pairing'[p] = pairing[p] /\ p # slot[r].code
        BY <2>1, <2>5
      <3>2. pairing[p].account # slot[r].account /\ pairing[p].account \in Account
        BY <1>0, <2>2, <2>5, <3>1
      <3> QED
        BY <2>3, <2>5, <3>1, <3>2 DEF Rows
    <2>6. ASSUME NEW p \in Code, NEW q \in Code, pairing'[p] # NoRow, pairing'[p].account # 0,
                 pairing'[q] # NoRow, pairing'[q].account = pairing'[p].account
          PROVE  q = p
      <3>1. pairing[p] # NoRow /\ pairing[p].account = pairing'[p].account
        BY <2>4, <2>6
      <3>2. pairing[q] # NoRow /\ pairing[q].account = pairing'[q].account
        BY <2>4, <2>6
      <3> QED
        BY <2>6, <3>1, <3>2 DEF Rows
    <2> QED
      BY <2>5, <2>6 DEF Rows
  <1> QED
    BY <1>1, <1>2, <1>3, <1>4 DEF Moves, Begun, Received, Resumed, Ticked

\* Requests that fade hold no secret they did not hold.
LEMMA FadedSecrets ==
    ASSUME Fades, NEW r \in Request, slot'[r] # NoCall, slot'[r].secret # 0
    PROVE  slot[r] # NoCall /\ slot'[r].secret = slot[r].secret /\ slot'[r].account = slot[r].account
  BY DEF Fades, Carries

LEMMA AgreeKept ==
    ASSUME TypeOK, Numbered, Calls, Agree, Moves
    PROVE  Agree'
  <1>0. /\ secrets \in Nat
        /\ \A a \in Account : credential[a] # NoRow => credential[a].secret \in Nat \ {0}
        /\ \A r \in Request : slot[r] # NoCall => slot[r].secret \in Nat
        /\ \A d \in Screen : screen[d].secret \in Nat
    BY DisplayAssumption DEF TypeOK, Call, Memory, CredentialRow, Secret
  <1>1. ASSUME NEW r \in Request, Begun(r) PROVE Agree'
    <2>1. /\ \A q \in Request : q # r => slot'[q] = slot[q]
          /\ credential' = credential
          /\ \A d \in Screen : screen'[d].secret = screen[d].secret /\ screen'[d].owner = screen[d].owner
      BY <1>1 DEF Begun
    <2>2. slot'[r].secret = 0 \/ slot'[r].secret = secrets + 1
      BY <1>1 DEF Begun, PlanOfClaim
    <2>3. /\ \A q \in Request : slot[q] # NoCall => slot[q].secret # secrets + 1
          /\ \A a \in Account : credential[a] # NoRow => credential[a].secret # secrets + 1
          /\ \A d \in Screen : screen[d].secret # secrets + 1
      BY <1>0 DEF Numbered
    <2>4. \A p, q \in Request : slot'[p] # NoCall /\ slot'[q] # NoCall /\ slot'[p].secret # 0
                                   /\ slot'[p].secret = slot'[q].secret => p = q
      BY <2>1, <2>2, <2>3 DEF Agree
    <2>5. \A p \in Request : slot'[p] # NoCall /\ slot'[p].secret # 0 =>
             /\ \A a \in Account : credential[a] # NoRow /\ credential[a].secret = slot'[p].secret
                                       => a = slot'[p].account
             /\ \A d \in Screen : screen[d].secret = slot'[p].secret
                                       => screen[d].owner = slot'[p].account
      BY <2>1, <2>2, <2>3 DEF Agree
    <2> QED
      BY <2>1, <2>4, <2>5 DEF Agree
  <1>2. ASSUME Fades,
               \A a \in Account : credential'[a] # NoRow =>
                   credential[a] # NoRow /\ credential'[a].secret = credential[a].secret
        PROVE  Agree'
    <2>1. \A d \in Screen : screen'[d].secret = screen[d].secret /\ screen'[d].owner = screen[d].owner
      BY <1>2 DEF Fades
    <2>2. \A q \in Request : slot'[q] # NoCall /\ slot'[q].secret # 0 =>
             slot[q] # NoCall /\ slot'[q].secret = slot[q].secret /\ slot'[q].account = slot[q].account
      BY <1>2, FadedSecrets
    <2> QED
      BY <1>2, <2>1, <2>2 DEF Agree
  <1>3. ASSUME NEW d \in Screen, NEW r \in Request, Received(d, r) PROVE Agree'
    <2>1. /\ \A q \in Request : slot'[q] # NoCall => q # r /\ slot'[q] = slot[q]
          /\ credential' = credential /\ slot[r] # NoCall
          /\ \A e \in Screen : e # d => screen'[e] = screen[e]
      BY <1>3 DEF Received
    <2>2. \/ screen'[d].secret = screen[d].secret /\ screen'[d].owner = screen[d].owner
          \/ screen'[d].secret = 0
          \/ screen'[d].secret = slot[r].secret /\ screen'[d].owner = slot[r].account
      BY <1>3 DEF Received, Same, Nothing
    <2>3. ASSUME NEW q \in Request, slot'[q] # NoCall, slot'[q].secret # 0,
                 screen'[d].secret = slot'[q].secret
          PROVE  screen'[d].owner = slot'[q].account
      <3>1. ~(screen'[d].secret = slot[r].secret)
        BY <2>1, <2>3 DEF Agree
      <3> QED
        BY <2>1, <2>2, <2>3, <3>1 DEF Agree
    <2>4. ASSUME NEW a \in Account, credential[a] # NoRow, credential[a].secret = screen'[d].secret
          PROVE  screen'[d].owner = a
      BY <1>0, <2>1, <2>2, <2>4 DEF Agree
    <2> QED
      BY <2>1, <2>3, <2>4 DEF Agree
  <1>4. ASSUME NEW r \in Request, Claimed(r) PROVE Agree'
    <2>1. /\ \A a \in Account : a # slot[r].account => credential'[a] = credential[a]
          /\ credential'[slot[r].account].secret = slot[r].secret
          /\ slot[r] # NoCall /\ slot[r].secret # 0
      BY <1>4 DEF Claimed, Calls
    <2>2. \A d \in Screen : screen'[d].secret = screen[d].secret /\ screen'[d].owner = screen[d].owner
      BY <1>4 DEF Claimed, Fades
    <2>3. \A q \in Request : slot'[q] # NoCall /\ slot'[q].secret # 0 =>
             slot[q] # NoCall /\ slot'[q].secret = slot[q].secret /\ slot'[q].account = slot[q].account
      BY <1>4, FadedSecrets DEF Claimed
    <2>4. \A p, q \in Request : slot'[p] # NoCall /\ slot'[q] # NoCall /\ slot'[p].secret # 0
                                   /\ slot'[p].secret = slot'[q].secret => p = q
      BY <2>3 DEF Agree
    <2>5. ASSUME NEW q \in Request, slot'[q] # NoCall, slot'[q].secret # 0
          PROVE  /\ \A a \in Account : credential'[a] # NoRow /\ credential'[a].secret = slot'[q].secret
                                          => a = slot'[q].account
                 /\ \A d \in Screen : screen'[d].secret = slot'[q].secret
                                          => screen'[d].owner = slot'[q].account
      BY <2>1, <2>2, <2>3, <2>5 DEF Agree
    <2>6. \A d \in Screen, a \in Account :
             credential'[a] # NoRow /\ credential'[a].secret = screen'[d].secret => screen'[d].owner = a
      BY <2>1, <2>2 DEF Agree
    <2> QED
      BY <2>4, <2>5, <2>6 DEF Agree
  <1>5. ASSUME UNCHANGED <<slot, screen, credential>> PROVE Agree'
    BY <1>5 DEF Agree
  <1>6. ASSUME Shrinks, Fades PROVE Agree'
    BY <1>2, <1>6 DEF Shrinks, Alike
  <1>7. ASSUME NEW r \in Request, Approved(r) PROVE Agree'
    BY <1>2, <1>7 DEF Approved
  <1> QED
    BY <1>1, <1>3, <1>4, <1>5, <1>6, <1>7 DEF Moves, Resumed, Ticked

LEMMA ValidKept ==
    ASSUME TypeOK, Numbered, Calls, Valid, Moves
    PROVE  Valid'
  <1>0. /\ born \in Nat
        /\ \A r \in Request : slot[r] # NoCall => slot[r].phase \in {"open", "done"}
    BY DisplayAssumption DEF TypeOK, Call
  <1>1. ASSUME NEW r \in Request, Begun(r) PROVE Valid'
    <2>1. slot'[r].phase = "open" \/ slot'[r].secret = 0
      BY <1>1 DEF Begun, PlanOfClaim
    <2> QED
      BY <1>1, <2>1 DEF Valid, Begun
  <1>2. ASSUME Fades, Silent,
               \A a \in Account : a \in accounts' => Alike(credential[a], credential'[a]),
               \A r \in Request : slot[r] # NoCall /\ slot[r].account \in accounts'
                                     => slot[r].account \in accounts,
               \A d \in Screen : screen[d].owner \in accounts' => screen[d].owner \in accounts
        PROVE  Valid'
    <2>1. \A a \in accounts : a \in Account
      BY DEF TypeOK
    <2>2. ASSUME NEW r \in Request, slot'[r] # NoCall, slot'[r].phase = "done", slot'[r].secret # 0,
                 slot'[r].account \in accounts'
          PROVE  slot'[r] = slot[r]
      <3>1. slot[r] # NoCall /\ slot[r].secret # 0
        BY <1>2, <2>2, FadedSecrets
      <3>2. slot[r].op = "claim"
        BY <3>1 DEF Calls
      <3> QED
        BY <1>2, <2>2, <3>1, <3>2 DEF Fades, Silent, Carries
    <2>3. ASSUME NEW r \in Request, slot'[r] # NoCall, slot'[r].phase = "done", slot'[r].secret # 0,
                 slot'[r].account \in accounts'
          PROVE  /\ credential'[slot'[r].account] # NoRow
                 /\ credential'[slot'[r].account].secret = slot'[r].secret
      <3>1. slot'[r] = slot[r]
        BY <2>2, <2>3
      <3> QED
        BY <1>2, <2>1, <2>3, <3>1 DEF Valid, Alike
    <2>4. ASSUME NEW d \in Screen, screen'[d].owner \in accounts'
          PROVE  /\ credential'[screen'[d].owner] # NoRow
                 /\ credential'[screen'[d].owner].secret = screen'[d].secret
      <3>1. screen'[d].owner = screen[d].owner /\ screen'[d].secret = screen[d].secret
        BY <1>2 DEF Fades
      <3> QED
        BY <1>2, <2>1, <2>4, <3>1 DEF Valid, Alike
    <2> QED
      BY <2>3, <2>4 DEF Valid
  <1>3. ASSUME NEW d \in Screen, NEW r \in Request, Received(d, r) PROVE Valid'
    <2>1. 0 \notin accounts
      BY DEF TypeOK, Account
    <2>2. \/ screen'[d].secret = screen[d].secret /\ screen'[d].owner = screen[d].owner
          \/ screen'[d].owner = 0
          \/ /\ slot[r].phase = "done" /\ slot[r] # NoCall /\ slot[r].secret # 0
             /\ screen'[d].secret = slot[r].secret /\ screen'[d].owner = slot[r].account
      BY <1>3 DEF Received, Same, Nothing, Calls
    <2> QED
      BY <1>3, <2>1, <2>2 DEF Valid, Received
  <1>4. ASSUME Shrinks, Fades, Silent PROVE Valid'
    BY <1>2, <1>4 DEF Shrinks
  <1>5. ASSUME NEW r \in Request, Approved(r) PROVE Valid'
    <2>1. /\ \A q \in Request : slot[q] # NoCall => slot[q].account # born + 1
          /\ \A d \in Screen : screen[d].owner # born + 1
      BY <1>0 DEF Numbered
    <2> QED
      BY <1>2, <1>5, <2>1 DEF Approved, Alike
  <1>6. ASSUME NEW r \in Request, Claimed(r) PROVE Valid'
    <2>1. /\ slot[r].account \in accounts /\ credential[slot[r].account] = NoRow
          /\ credential'[slot[r].account] # NoRow
          /\ credential'[slot[r].account].secret = slot[r].secret
          /\ \A a \in Account : a # slot[r].account => credential'[a] = credential[a]
          /\ accounts' = accounts /\ Fades
          /\ \A q \in Request : q # r => slot'[q] = slot[q]
      BY <1>6 DEF Claimed, Calls
    <2>2. \A d \in Screen : screen'[d].secret = screen[d].secret /\ screen'[d].owner = screen[d].owner
      BY <2>1 DEF Fades
    <2>3. \A a \in accounts : a \in Account
      BY DEF TypeOK
    <2>4. slot'[r] # NoCall /\ slot'[r].secret # 0 =>
             slot'[r].secret = slot[r].secret /\ slot'[r].account = slot[r].account
      BY <2>1, FadedSecrets
    <2>5. \A q \in Request : slot'[q] # NoCall /\ slot'[q].phase = "done" /\ slot'[q].secret # 0
             /\ slot'[q].account \in accounts =>
                /\ credential'[slot'[q].account] # NoRow
                /\ credential'[slot'[q].account].secret = slot'[q].secret
      BY <2>1, <2>3, <2>4 DEF Valid
    <2>6. \A d \in Screen : screen[d].owner \in accounts =>
             /\ credential'[screen[d].owner] # NoRow
             /\ credential'[screen[d].owner].secret = screen[d].secret
      BY <2>1, <2>3 DEF Valid
    <2> QED
      BY <2>1, <2>2, <2>5, <2>6 DEF Valid
  <1>7. ASSUME UNCHANGED <<slot, screen, credential, accounts>> PROVE Valid'
    BY <1>7 DEF Valid
  <1> QED
    BY <1>1, <1>3, <1>4, <1>5, <1>6, <1>7 DEF Moves, Resumed, Ticked

\* Requests that fade open no session they did not open.
LEMMA FadedSessions ==
    ASSUME TypeOK, Fades, NEW r \in Request, slot'[r] # NoCall, Opens(slot'[r])
    PROVE  /\ slot[r] # NoCall /\ Opens(slot[r])
           /\ slot'[r].account = slot[r].account /\ slot'[r].at = slot[r].at
  BY DEF Fades, Carries, Opens

LEMMA SessionsKept ==
    ASSUME TypeOK, Awaited, Numbered, Calls, Agree, Sessions, Moves
    PROVE  Sessions'
  <1>0. /\ now \in Nat /\ now <= MaxTime /\ MaxTime \in Nat /\ TokenLife \in Nat /\ born \in Nat
        /\ \A a \in Account : outSince[a] \in Nat /\ a # 0 /\ a \in Nat
        /\ \A r \in Request : slot[r] # NoCall =>
              slot[r].at \in Nat /\ slot[r].account \in Nat /\ slot[r].account <= MaxAccount
        /\ \A d \in Screen : screen[d].call \in Request \cup {NoCall} /\ screen[d].until \in Nat
    <2>1. now \in Nat /\ now <= MaxTime /\ MaxTime \in Nat /\ TokenLife \in Nat /\ born \in Nat
      BY DisplayAssumption DEF TypeOK, Time
    <2>2. \A a \in Account : outSince[a] \in Nat /\ a # 0 /\ a \in Nat
      BY DisplayAssumption DEF TypeOK, Time, Account
    <2>3. \A r \in Request : slot[r] # NoCall =>
              slot[r].at \in Nat /\ slot[r].account \in Nat /\ slot[r].account <= MaxAccount
      BY DisplayAssumption DEF TypeOK, Time, Call
    <2>4. \A d \in Screen : screen[d].call \in Request \cup {NoCall} /\ screen[d].until \in Nat
      BY DEF TypeOK, Memory
    <2> QED
      BY <2>1, <2>2, <2>3, <2>4
  <1>00. \A r \in Request : slot[r] # NoCall /\ slot[r].account # 0 => slot[r].account \in Account
    BY <1>0, DisplayAssumption DEF Account
  <1>1. ASSUME NEW r \in Request, Begun(r) PROVE Sessions'
    <2>1. /\ UNCHANGED <<now, active, members, outSince, credential>>
          /\ \A q \in Request : q # r => slot'[q] = slot[q]
          /\ \A e \in Screen : /\ screen'[e].secret = screen[e].secret
                               /\ screen'[e].owner = screen[e].owner
                               /\ screen'[e].until = screen[e].until
                               /\ screen'[e].call = screen[e].call \/ screen'[e].call = r
          /\ slot[r] = NoCall
      BY <1>1 DEF Begun
    <2>2. \A d \in Screen : screen[d].call # r
      BY <2>1, NullsAreApart DEF Awaited
    <2>3. ASSUME Opens(slot'[r])
          PROVE  /\ slot'[r].account # 0 /\ slot'[r].at <= now
                 /\ slot'[r].at <= outSince[slot'[r].account]
                 /\ \A d \in Screen : screen'[d].call = r => screen[d].owner = slot'[r].account
      <3>1. PlanOfOpen(r, slot'[r])
        BY <1>1, <2>3 DEF Begun, Opens, PlanOfClaim, PlanOfNeither
      <3>2. /\ slot'[r].at = now /\ slot'[r].account \in Account
            /\ slot'[r].account \in active /\ slot'[r].account \in members
            /\ credential[slot'[r].account] # NoRow
        BY <3>1 DEF PlanOfOpen
      <3>3. outSince[slot'[r].account] = MaxTime + 1
        BY <3>2 DEF Sessions
      <3>4. ASSUME NEW d \in Screen, screen'[d].call = r
            PROVE  screen[d].owner = slot'[r].account
        <4>1. credential[slot'[r].account].secret = screen[d].secret
          BY <2>2, <3>1, <3>4 DEF PlanOfOpen
        <4> QED
          BY <3>2, <4>1 DEF Agree
      <3> QED
        BY <1>0, <3>2, <3>3, <3>4
    <2>4. ASSUME NEW q \in Request, q # r, slot[q] # NoCall, Opens(slot[q])
          PROVE  \A d \in Screen : screen'[d].call = q => screen[d].owner = slot[q].account
      BY <2>1, <2>4 DEF Sessions
    <2>5. \A q \in Request : slot'[q] # NoCall /\ Opens(slot'[q]) =>
             /\ slot'[q].account # 0 /\ slot'[q].at <= now /\ slot'[q].at <= outSince[slot'[q].account]
             /\ \A d \in Screen : screen'[d].call = q => screen[d].owner = slot'[q].account
      BY <2>1, <2>3, <2>4 DEF Sessions
    <2> QED
      BY <2>1, <2>5 DEF Sessions
  <1>2. ASSUME Fades, now' = now,
               \A a \in Account : a \in active' /\ a \in members' => outSince'[a] = MaxTime + 1,
               \A a \in Account : outSince'[a] = outSince[a] \/ outSince'[a] = Earlier(outSince[a], now)
        PROVE  Sessions'
    <2>1. \A e \in Screen : /\ screen'[e].secret = screen[e].secret
                            /\ screen'[e].owner = screen[e].owner
                            /\ screen'[e].until = screen[e].until
                            /\ screen'[e].call = screen[e].call \/ screen'[e].call = NoCall
      BY <1>2 DEF Fades
    <2>2. \A r \in Request : slot'[r] # NoCall /\ Opens(slot'[r]) =>
             /\ slot[r] # NoCall /\ Opens(slot[r])
             /\ slot'[r].account = slot[r].account /\ slot'[r].at = slot[r].at
      BY <1>2, FadedSessions
    <2>3. ASSUME NEW r \in Request, slot[r] # NoCall, Opens(slot[r])
          PROVE  slot[r].at <= outSince'[slot[r].account]
      <3>1. /\ slot[r].account # 0 /\ slot[r].at <= now /\ slot[r].at <= outSince[slot[r].account]
            /\ slot[r].account \in Account
        BY <1>00, <2>3 DEF Sessions
      <3> QED
        BY <1>2, <3>1 DEF Earlier
    <2>4. ASSUME NEW r \in Request, slot[r] # NoCall, Opens(slot[r]), NEW d \in Screen,
                 screen'[d].call = r
          PROVE  screen[d].owner = slot[r].account
      BY <2>1, <2>4, NullsAreApart DEF Sessions
    <2> QED
      BY <1>2, <2>1, <2>2, <2>3, <2>4 DEF Sessions
  <1>3. ASSUME NEW d \in Screen, NEW r \in Request, Received(d, r) PROVE Sessions'
    <2>1. /\ UNCHANGED <<now, active, members, outSince>>
          /\ \A q \in Request : slot'[q] # NoCall => q # r /\ slot'[q] = slot[q]
          /\ \A e \in Screen : e # d => screen'[e] = screen[e]
          /\ screen'[d].call = NoCall /\ slot[r] # NoCall
      BY <1>3 DEF Received
    <2>2. screen'[d].secret # 0 => screen'[d].owner # 0
      BY <1>3 DEF Received, Same, Nothing, Calls, Sessions
    <2>3. screen'[d].until <= now + TokenLife
      <3>1. slot[r].op = "open" /\ slot[r].answer = "ok" => slot[r].at <= now
        BY <2>1 DEF Sessions, Opens
      <3>2. screen[d].until <= now + TokenLife /\ slot[r].at \in Nat
        BY <1>0, <2>1 DEF Sessions
      <3>3. \/ screen'[d].until = screen[d].until
            \/ screen'[d].until = 0
            \/ /\ slot[r].op = "open" /\ slot[r].answer = "ok"
               /\ screen'[d].until = slot[r].at + TokenLife
        BY <1>3 DEF Received, Same, Nothing
      <3> QED
        BY <1>0, <3>1, <3>2, <3>3
    <2>4. \A q \in Request, e \in Screen : screen'[e].call = q => e # d
      BY <2>1, NullsAreApart
    <2> QED
      BY <2>1, <2>2, <2>3, <2>4 DEF Sessions
  <1>4. ASSUME Shrinks, Fades PROVE Sessions'
    <2>1. \A a \in Account : a \in active' /\ a \in members' => outSince'[a] = MaxTime + 1
      BY <1>4 DEF Shrinks, Sessions
    <2> QED
      BY <1>2, <1>4, <2>1 DEF Shrinks
  <1>5. ASSUME NEW r \in Request, Approved(r) PROVE Sessions'
    <2>1. born + 1 \in Account /\ outSince[born + 1] = MaxTime + 1 /\ outSince' = outSince
      BY <1>0, <1>5 DEF Numbered, Approved
    <2>2. \A a \in Account : a \in active' /\ a \in members' => outSince'[a] = MaxTime + 1
      BY <1>5, <2>1 DEF Approved, Sessions
    <2> QED
      BY <1>2, <1>5, <2>1, <2>2 DEF Approved
  <1>6. ASSUME NEW r \in Request, Claimed(r) PROVE Sessions'
    BY <1>2, <1>6 DEF Claimed, Sessions
  <1>7. ASSUME NEW a \in Account, Resumed(a) PROVE Sessions'
    <2>1. /\ UNCHANGED <<now, members, slot, screen>>
          /\ active' = active \cup {a}
          /\ \A b \in Account : b # a => outSince'[b] = outSince[b]
          /\ outSince'[a] = IF a \in members THEN MaxTime + 1 ELSE outSince[a]
      BY <1>7 DEF Resumed
    <2>2. ASSUME NEW r \in Request, slot[r] # NoCall, Opens(slot[r])
          PROVE  slot[r].at <= outSince'[slot[r].account]
      <3>1. /\ slot[r].account # 0 /\ slot[r].at <= now /\ slot[r].at <= outSince[slot[r].account]
            /\ slot[r].account \in Account
        BY <1>00, <2>2 DEF Sessions
      <3> QED
        BY <1>0, <2>1, <2>2, <3>1
    <2> QED
      BY <2>1, <2>2 DEF Sessions
  <1>8. ASSUME Ticked PROVE Sessions'
    <2>1. /\ now' = now + 1 /\ UNCHANGED <<active, members, slot, screen, outSince>>
      BY <1>8 DEF Ticked
    <2>2. \A r \in Request : slot[r] # NoCall /\ Opens(slot[r]) => slot[r].at <= now + 1
      BY <1>0 DEF Sessions
    <2>3. ASSUME NEW d \in Screen PROVE screen[d].until <= (now + 1) + TokenLife
      <3>1. screen[d].until <= now + TokenLife /\ screen[d].until \in Nat
        BY <1>0 DEF Sessions
      <3>2. now \in Nat /\ TokenLife \in Nat
        BY <1>0
      <3> QED
        BY <3>1, <3>2
    <2> QED
      BY <2>1, <2>2, <2>3 DEF Sessions
  <1> QED
    BY <1>1, <1>3, <1>4, <1>5, <1>6, <1>7, <1>8 DEF Moves

LEMMA TokensKept ==
    ASSUME TypeOK, Numbered, Calls, Sessions, TokensEndSoon, Moves
    PROVE  TokensEndSoon'
  <1>0. /\ now \in Nat /\ now <= MaxTime /\ MaxTime \in Nat /\ TokenLife \in Nat /\ born \in Nat
        /\ \A a \in Account : outSince[a] \in Nat /\ a \in Nat
        /\ \A d \in Screen : /\ screen[d].until \in Nat
                             /\ screen[d].owner \in Nat /\ screen[d].owner <= MaxAccount
    BY DisplayAssumption DEF TypeOK, Time, Account, Memory
  <1>1. \A d \in Screen : screen[d].secret # 0 =>
           /\ screen[d].owner \in Account
           /\ screen[d].until <= outSince[screen[d].owner] + TokenLife
           /\ screen[d].until <= now + TokenLife
    BY <1>0, DisplayAssumption DEF Sessions, TokensEndSoon, Account
  <1>2. ASSUME \A a \in Account : outSince'[a] >= outSince[a] \/ outSince'[a] >= now,
               \A d \in Screen : /\ screen'[d].secret = screen[d].secret
                                 /\ screen'[d].owner = screen[d].owner
                                 /\ screen'[d].until = screen[d].until,
               outSince' \in [Account -> Nat]
        PROVE  TokensEndSoon'
    <2>1. ASSUME NEW d \in Screen, screen[d].secret # 0
          PROVE  screen[d].until <= outSince'[screen[d].owner] + TokenLife
      BY <1>0, <1>1, <1>2, <2>1
    <2> QED
      BY <1>2, <2>1 DEF TokensEndSoon
  <1>3. outSince \in [Account -> Nat] /\ \A a \in Account : outSince[a] >= outSince[a]
    BY <1>0 DEF TypeOK
  <1>4. ASSUME NEW r \in Request, Begun(r) PROVE TokensEndSoon'
    BY <1>2, <1>3, <1>4 DEF Begun
  <1>5. ASSUME Shrinks, Fades PROVE TokensEndSoon'
    <2>1. \A a \in Account : outSince'[a] \in Nat
      BY <1>0, <1>5 DEF Shrinks, Time
    <2>2. outSince' \in [Account -> Nat]
      BY <1>5, <2>1 DEF Shrinks
    <2>3. \A a \in Account : outSince'[a] >= outSince[a] \/ outSince'[a] >= now
      BY <1>0, <1>5 DEF Shrinks, Earlier
    <2> QED
      BY <1>2, <1>5, <2>2, <2>3 DEF Fades
  <1>6. ASSUME NEW d \in Screen, NEW r \in Request, Received(d, r) PROVE TokensEndSoon'
    <2>1. /\ UNCHANGED outSince
          /\ \A e \in Screen : e # d => screen'[e] = screen[e]
          /\ slot[r] # NoCall /\ screen[d].call = r
      BY <1>6 DEF Received
    <2>2. ASSUME slot[r].op = "open", slot[r].answer = "ok"
          PROVE  screen[d].owner = slot[r].account /\ slot[r].at <= outSince[slot[r].account]
      BY <2>1, <2>2 DEF Sessions, Opens
    <2>3. ASSUME slot[r].secret # 0
          PROVE  outSince[slot[r].account] \in Nat
      <3>1. slot[r].account # 0 /\ slot[r].account \in 0 .. MaxAccount
        BY <2>1, <2>3 DEF Calls, TypeOK, Call
      <3>2. slot[r].account \in Account
        BY <3>1, DisplayAssumption DEF Account
      <3> QED
        BY <1>0, <3>2
    <2>4. slot[r].at \in Nat
      BY <2>1, DisplayAssumption DEF TypeOK, Call, Time
    <2>5. screen'[d].secret # 0 => screen'[d].until <= outSince[screen'[d].owner] + TokenLife
      <3>1. CASE Same(screen[d], screen'[d])
        BY <1>1, <3>1 DEF Same
      <3>2. CASE Nothing(screen'[d])
        BY <3>2 DEF Nothing
      <3>3. CASE /\ screen'[d].secret = slot[r].secret /\ screen'[d].owner = slot[r].account
                 /\ screen'[d].until = 0
        BY <1>0, <2>3, <3>3
      <3>4. CASE /\ slot[r].op = "open" /\ slot[r].answer = "ok"
                 /\ screen'[d].secret = screen[d].secret /\ screen'[d].owner = screen[d].owner
                 /\ screen'[d].until = slot[r].at + TokenLife
        BY <1>0, <1>1, <2>2, <2>4, <3>4
      <3> QED
        BY <1>6, <3>1, <3>2, <3>3, <3>4 DEF Received
    <2> QED
      BY <2>1, <2>5 DEF TokensEndSoon
  <1>7. ASSUME NEW r \in Request, Approved(r) PROVE TokensEndSoon'
    BY <1>2, <1>3, <1>7 DEF Approved, Fades
  <1>8. ASSUME NEW r \in Request, Claimed(r) PROVE TokensEndSoon'
    BY <1>2, <1>3, <1>8 DEF Claimed, Fades
  <1>9. ASSUME NEW a \in Account, Resumed(a) PROVE TokensEndSoon'
    <2>1. \A b \in Account : outSince'[b] \in Nat /\ outSince'[b] >= outSince[b]
      <3>1. outSince[a] <= MaxTime + 1
        BY <1>0 DEF TypeOK, Time
      <3> QED
        BY <1>0, <1>9, <3>1 DEF Resumed
    <2>2. outSince' \in [Account -> Nat]
      BY <1>9, <2>1 DEF Resumed
    <2> QED
      BY <1>2, <1>9, <2>1, <2>2 DEF Resumed
  <1>10. ASSUME Ticked PROVE TokensEndSoon'
    BY <1>2, <1>3, <1>10 DEF Ticked
  <1> QED
    BY <1>4, <1>5, <1>6, <1>7, <1>8, <1>9, <1>10 DEF Moves

LEMMA InitiallySo == Init => DisplayInv
  <1> SUFFICES ASSUME Init PROVE DisplayInv
    OBVIOUS
  <1>1. 0 \in 0 .. MaxAccount /\ 0 \in 0 .. MaxSecret /\ 0 \in Time /\ 0 \in 0 .. MaxLost /\ 0 \in Nat
    BY DisplayAssumption DEF Time
  <1>2. /\ Blank \in Memory /\ Blank.call = NoCall /\ Blank.secret = 0 /\ Blank.owner = 0
        /\ Blank.until = 0
    BY <1>1 DEF Blank, Memory
  <1>3. /\ now = 0 /\ born = 0 /\ secrets = 0 /\ lost = 0 /\ family = TRUE
        /\ drawn = {} /\ accounts = {} /\ active = {} /\ members = {}
        /\ pairing = [p \in Code |-> NoRow] /\ credential = [a \in Account |-> NoRow]
        /\ slot = [r \in Request |-> NoCall] /\ screen = [d \in Screen |-> Blank]
        /\ outSince = [a \in Account |-> MaxTime + 1]
    BY DEF Init
  <1> HIDE DEF Init
  <1>4. TypeOK
    BY <1>1, <1>2, <1>3 DEF TypeOK
  <1>5. /\ \A d \in Screen : /\ screen[d].call = NoCall /\ screen[d].secret = 0
                             /\ screen[d].owner = 0 /\ screen[d].until = 0
        /\ \A r \in Request : slot[r] = NoCall
        /\ \A a \in Account : credential[a] = NoRow /\ outSince[a] = MaxTime + 1
        /\ \A p \in Code : pairing[p] = NoRow
    BY <1>2, <1>3
  <1>6. Awaited /\ Numbered /\ Calls /\ Rows
    BY <1>1, <1>3, <1>5 DEF Awaited, Numbered, Calls, Rows
  <1>7. Agree /\ Valid
    BY <1>3, <1>5 DEF Agree, Valid
  <1>8. now + TokenLife \in Nat /\ 0 <= now + TokenLife
    BY <1>3, DisplayAssumption
  <1>9. Sessions /\ TokensEndSoon
    BY <1>3, <1>5, <1>8 DEF Sessions, TokensEndSoon
  <1> QED
    BY <1>4, <1>6, <1>7, <1>9 DEF DisplayInv

LEMMA InvariantKept == DisplayInv /\ [Next]_vars => DisplayInv'
  <1> SUFFICES ASSUME DisplayInv, [Next]_vars PROVE DisplayInv'
    OBVIOUS
  <1>1. TypeOK /\ Awaited /\ Numbered /\ Calls /\ Rows /\ Agree /\ Valid /\ Sessions /\ TokensEndSoon
    BY DEF DisplayInv
  <1>2. Moves
    BY <1>1, NextMoves
  <1>3. TypeOK' /\ Awaited' /\ Numbered'
    BY <1>1, <1>2, TypesKept, AwaitedKept, NumberedKept
  <1>4. Calls' /\ Rows' /\ Agree'
    BY <1>1, <1>2, CallsKept, RowsKept, AgreeKept
  <1>5. Valid' /\ Sessions' /\ TokensEndSoon'
    BY <1>1, <1>2, ValidKept, SessionsKept, TokensKept
  <1> QED
    BY <1>3, <1>4, <1>5 DEF DisplayInv

\* The invariant holds in every reachable state.
THEOREM PairingInvariant == Spec => []DisplayInv
  <1> QED
    BY InitiallySo, InvariantKept, PTL DEF Spec

-----------------------------------------------------------------------------
(* What it means.                                                            *)

\* The tables, the requests and the screens keep their types, whatever overlaps.
THEOREM PairingTypes == Spec => []TypeOK
  <1>1. DisplayInv => TypeOK
    BY DEF DisplayInv
  <1> QED
    BY <1>1, PairingInvariant, PTL

\* The secret a screen received stays the one of its display for as long as that exists.
THEOREM ScreensStayPaired == Spec => []SecretsStayValid
  <1>1. ASSUME DisplayInv PROVE SecretsStayValid
    <2> SUFFICES ASSUME NEW d \in Screen, screen[d].owner \in accounts
                 PROVE  Owners(screen[d].secret) = {screen[d].owner}
      BY DEF SecretsStayValid
    <2>1. TypeOK /\ Valid /\ Agree
      BY <1>1 DEF DisplayInv
    <2>2. /\ screen[d].owner \in Account
          /\ credential[screen[d].owner] # NoRow
          /\ credential[screen[d].owner].secret = screen[d].secret
      BY <2>1 DEF TypeOK, Valid
    <2>3. \A a \in Account : credential[a] # NoRow /\ credential[a].secret = screen[d].secret
                                => screen[d].owner = a
      BY <2>1 DEF Agree
    <2> QED
      BY <2>2, <2>3 DEF Owners
  <1>2. DisplayInv => SecretsStayValid
    BY <1>1
  <1> QED
    BY <1>2, PairingInvariant, PTL

\* The token of a display that left the roster ends within the life of one token.
THEOREM DetachedScreensGoDark == Spec => []TokensEndSoon
  <1>1. DisplayInv => TokensEndSoon
    BY DEF DisplayInv
  <1> QED
    BY <1>1, PairingInvariant, PTL


-----------------------------------------------------------------------------
(* The tabs of a browser: what always holds.                                 *)

\* One tab at a time asks the provider in a frame.
OneLock == \A t, u \in Tab : Renewing(t) /\ Renewing(u) => t = u

\* A ticket is somebody's, the refresh token goes with the access token, and a session is
\* continued for somebody.
TicketsAndTokens ==
    /\ \A t \in Tab : page[t] = "landing" => ticket[t] # None
    /\ refresh = IF access = None THEN None ELSE IF access.sso THEN None ELSE access.who
    /\ \A t \in Tab : cont[t].at \in {"refresh", "exchange"} => cont[t].who # None

\* Whatever a tab shows, asks or continues is for the person the tokens name.
OrderlyAt(t) ==
    /\ cont[t].at # "idle" => access # None
    /\ cont[t].at = "refresh" => access.sso = FALSE /\ cont[t].who = access.who
    /\ cont[t].at \in {"wait", "still", "frame", "out", "exchange"} => access.sso = TRUE
    /\ cont[t].at = "exchange" => cont[t].with = access.who
    /\ access # None => /\ shown[t] \in {None, access.who}
                        /\ \A k \in Kind : job[t][k].as \in {None, access.who}

Orderly == calm /\ kept => \A t \in Tab : OrderlyAt(t)

BrowserInv == BrowserTypeOK /\ OneLock /\ TicketsAndTokens /\ Orderly

-----------------------------------------------------------------------------
(* The parts of a tab.                                                       *)

Jobs == [Kind -> [at : {"idle", "sent", "joined", "again"}, as : Somebody]]
Conts == [at : {"idle", "refresh", "wait", "still", "frame", "out", "exchange"},
          who : Somebody, with : Somebody]

LEMMA PartsTyped ==
    /\ NoJob \in [at : {"idle", "sent", "joined", "again"}, as : Somebody]
    /\ NoJob.at = "idle" /\ NoJob.as = None
    /\ Quiet \in Conts /\ Quiet.at = "idle"
    /\ None \in Somebody
    /\ \A p \in Person : p \in Somebody /\ p # None
    /\ \A k \in Token : k # None
  BY BrowserAssumption DEF NoJob, Quiet, Conts, Somebody

LEMMA TokenParts ==
    ASSUME BrowserTypeOK, access # None
    PROVE  access.who \in Person /\ access.sso \in BOOLEAN /\ access.fresh \in BOOLEAN
  BY DEF BrowserTypeOK, Token

\* A request carries nobody, or the one whose token there is.
LEMMA HeaderIs ==
    ASSUME BrowserTypeOK
    PROVE  Header \in Somebody /\ (access # None => Header \in {None, access.who})
  BY TokenParts DEF Header, Somebody

LEMMA SentMoves ==
    ASSUME BrowserTypeOK, NEW t \in Tab, NEW k \in Kind
    PROVE  /\ Sent(t, k) \in [Tab -> Jobs]
           /\ \A u \in Tab : u # t => Sent(t, k)[u] = job[u]
           /\ \A j \in Kind : Sent(t, k)[t][j].as \in {Header, job[t][j].as}
  <1>1. /\ job \in [Tab -> Jobs] /\ Header \in Somebody
    BY HeaderIs DEF BrowserTypeOK, Jobs
  <1> DEFINE n == [at |-> "sent", as |-> Header]
  <1>2. n \in [at : {"idle", "sent", "joined", "again"}, as : Somebody] /\ n.as = Header
    BY <1>1
  <1>3. Sent(t, k) = [job EXCEPT ![t] = [job[t] EXCEPT ![k] = n]]
    BY <1>1 DEF Sent
  <1> HIDE DEF n
  <1> QED
    BY <1>1, <1>2, <1>3 DEF Jobs

\* A request of a tab changes.
LEMMA OneJobMoves ==
    ASSUME BrowserTypeOK, NEW t \in Tab, NEW k \in Kind,
           NEW n \in [at : {"idle", "sent", "joined", "again"}, as : Somebody],
           job' = [job EXCEPT ![t][k] = n]
    PROVE  /\ job' \in [Tab -> Jobs]
           /\ \A u \in Tab : u # t => job'[u] = job[u]
           /\ \A j \in Kind : job'[t][j].as \in {n.as, job[t][j].as}
  <1>1. job \in [Tab -> Jobs] /\ job' = [job EXCEPT ![t] = [job[t] EXCEPT ![k] = n]]
    BY DEF BrowserTypeOK, Jobs
  <1> QED
    BY <1>1 DEF Jobs

\* How a tab's session stops being continued.
Ends(t) ==
    /\ job' \in [Tab -> Jobs] /\ cont' \in [Tab -> Conts]
    /\ cont'[t] = Quiet
    /\ \A u \in Tab : u # t => job'[u] = job[u] /\ cont'[u] = cont[u]

LEMMA DropEnds ==
    ASSUME BrowserTypeOK, NEW t \in Tab, Drop(t)
    PROVE  Ends(t) /\ \A k \in Kind : job'[t][k].as \in {None, job[t][k].as}
  <1> DEFINE n == [k \in Kind |-> IF k \in Waiting(t) THEN NoJob ELSE job[t][k]]
  <1>1. /\ job' = [job EXCEPT ![t] = n] /\ cont' = [cont EXCEPT ![t] = Quiet]
    BY DEF Drop
  <1>2. job \in [Tab -> Jobs] /\ cont \in [Tab -> Conts]
    BY DEF BrowserTypeOK, Jobs, Conts
  <1>3. n \in Jobs /\ \A k \in Kind : n[k].as \in {None, job[t][k].as}
    BY <1>2, PartsTyped DEF Jobs
  <1> HIDE DEF n
  <1> QED
    BY <1>1, <1>2, <1>3, PartsTyped DEF Ends

LEMMA AgainEnds ==
    ASSUME BrowserTypeOK, NEW t \in Tab, NEW a \in Somebody,
           job' = [job EXCEPT ![t] = [k \in Kind |->
                     IF k \in Waiting(t) THEN [at |-> "again", as |-> a] ELSE @[k]]],
           cont' = [cont EXCEPT ![t] = Quiet]
    PROVE  Ends(t) /\ \A k \in Kind : job'[t][k].as \in {a, job[t][k].as}
  <1> DEFINE m == [at |-> "again", as |-> a]
             n == [k \in Kind |-> IF k \in Waiting(t) THEN m ELSE job[t][k]]
  <1>1. job' = [job EXCEPT ![t] = n]
    OBVIOUS
  <1>2. job \in [Tab -> Jobs] /\ cont \in [Tab -> Conts]
    BY DEF BrowserTypeOK, Jobs, Conts
  <1>3. m \in [at : {"idle", "sent", "joined", "again"}, as : Somebody] /\ m.as = a
    OBVIOUS
  <1> HIDE DEF m
  <1>4. n \in Jobs /\ \A k \in Kind : n[k].as \in {a, job[t][k].as}
    BY <1>2, <1>3 DEF Jobs
  <1> HIDE DEF n
  <1> QED
    BY <1>1, <1>2, <1>4, PartsTyped DEF Ends

\* The tokens are gone; if it did not matter, nobody else was continuing a session.
Cleared(t) ==
    /\ access' = None /\ refresh' = None /\ kept' \in BOOLEAN
    /\ kept' => kept /\ \A u \in Tab : u # t => cont[u].at = "idle"

LEMMA ClearedFor ==
    ASSUME BrowserTypeOK, NEW t \in Tab, NEW others \in {Tab, Tab \ {t}}, ClearTokens(others)
    PROVE  Cleared(t)
  BY PartsTyped DEF BrowserTypeOK, ClearTokens, Cleared

\* How the continuing of a tab goes on.
Advances(t) ==
    \/ cont'[t].at = "refresh" /\ cont'[t].who = refresh /\ refresh # None
    \/ cont'[t].at = "wait" /\ refresh = None /\ access # None
    \/ cont[t].at = "wait" /\ cont'[t].at = "still" /\ LockFree
    \/ cont[t].at = "still" /\ cont'[t].at = "frame"
    \/ cont[t].at = "frame" /\ cont'[t].at = "out"
    \/ /\ cont[t].at = "out" /\ cont'[t].at = "exchange"
       /\ cont'[t].who # None /\ cont'[t].with = ContinuedUser

\* Whom a tab's requests are for, and whom its tokens name.
Held(t) == {None, access.who} \cup {job[t][k].as : k \in Kind}

\* A step of one tab that brings no new tokens.
Turn(t) ==
    /\ job' \in [Tab -> Jobs] /\ cont' \in [Tab -> Conts]
    /\ shown' \in [Tab -> Somebody] /\ unreachable' \in [Tab -> BOOLEAN]
    /\ \A u \in Tab : u # t => job'[u] = job[u] /\ cont'[u] = cont[u] /\ shown'[u] = shown[u]
    /\ KeepTokens \/ Cleared(t)
    /\ calm' \in BOOLEAN /\ (calm' => calm)
    /\ \/ cont'[t].at = "idle"
       \/ (KeepTokens \/ ~kept') /\ cont'[t] = cont[t]
       \/ KeepTokens /\ Advances(t)
    /\ access' # None =>
          /\ shown'[t] \in {shown[t]} \cup Held(t)
          /\ \A k \in Kind : job'[t][k].as \in Held(t)

LEMMA HeldAre ==
    ASSUME NEW t \in Tab
    PROVE  /\ None \in Held(t) /\ access.who \in Held(t)
           /\ \A k \in Kind : job[t][k].as \in Held(t)
  BY DEF Held

LEMMA GiveUpTurns ==
    ASSUME BrowserTypeOK, NEW t \in Tab, NEW forget \in BOOLEAN, GiveUp(t, forget), UNCHANGED calm
    PROVE  Turn(t) /\ Ends(t)
  <1>1. Drop(t) /\ (KeepTokens \/ ClearTokens(Tab \ {t}))
        /\ shown' = [shown EXCEPT ![t] = None]
        /\ unreachable' = [unreachable EXCEPT ![t] = @ /\ ~AskedWho(t)]
    BY DEF GiveUp
  <1>2. Ends(t) /\ \A k \in Kind : job'[t][k].as \in {None, job[t][k].as}
    BY <1>1, DropEnds
  <1>3. KeepTokens \/ Cleared(t)
    BY <1>1, ClearedFor
  <1>4. /\ shown' \in [Tab -> Somebody] /\ shown'[t] = None
        /\ \A u \in Tab : u # t => shown'[u] = shown[u]
    BY <1>1, PartsTyped DEF BrowserTypeOK
  <1>5. unreachable' \in [Tab -> BOOLEAN]
    BY <1>1 DEF BrowserTypeOK, AskedWho
  <1>6. calm' \in BOOLEAN /\ (calm' => calm)
    BY DEF BrowserTypeOK
  <1>7. shown'[t] \in Held(t) /\ \A k \in Kind : job'[t][k].as \in Held(t)
    BY <1>2, <1>4, HeldAre
  <1>8. cont'[t].at = "idle"
    BY <1>2, PartsTyped DEF Ends
  <1>9. Ends(t)
    BY <1>2
  <1> QED
    BY <1>3, <1>4, <1>5, <1>6, <1>7, <1>8, <1>9 DEF Turn, Ends

LEMMA ThrewTurns ==
    ASSUME BrowserTypeOK, NEW t \in Tab, Threw(t), UNCHANGED calm
    PROVE  Turn(t) /\ Ends(t)
  <1>1. Drop(t) /\ KeepTokens /\ UNCHANGED shown
        /\ unreachable' = [unreachable EXCEPT ![t] = @ \/ AskedWho(t)]
    BY DEF Threw
  <1>2. Ends(t) /\ \A k \in Kind : job'[t][k].as \in {None, job[t][k].as}
    BY <1>1, DropEnds
  <1>3. unreachable' \in [Tab -> BOOLEAN]
    BY <1>1 DEF BrowserTypeOK, AskedWho
  <1>4. calm' \in BOOLEAN /\ (calm' => calm) /\ shown' \in [Tab -> Somebody]
    BY <1>1 DEF BrowserTypeOK
  <1>5. \A k \in Kind : job'[t][k].as \in Held(t)
    BY <1>2, HeldAre
  <1> QED
    BY <1>1, <1>2, <1>3, <1>4, <1>5, PartsTyped DEF Turn, Ends

\* A step in which the tab's requests change, or what it shows, but not its continuing.
LEMMA JobTurns ==
    ASSUME BrowserTypeOK, NEW t \in Tab, UNCHANGED <<cont, access, refresh, kept, calm>>,
           job' \in [Tab -> Jobs], shown' \in [Tab -> Somebody], unreachable' \in [Tab -> BOOLEAN],
           \A u \in Tab : u # t => job'[u] = job[u] /\ shown'[u] = shown[u],
           shown'[t] \in {shown[t]} \cup Held(t), \A k \in Kind : access # None => job'[t][k].as \in Held(t)
    PROVE  Turn(t)
  <1>1. cont' \in [Tab -> Conts] /\ calm' \in BOOLEAN /\ KeepTokens
    BY DEF BrowserTypeOK, Conts, KeepTokens
  <1> QED
    BY <1>1 DEF Turn

\* What a tab does for itself leaves the lock, the tokens and everybody's person in order.
LEMMA TurnKeepsLock ==
    ASSUME BrowserTypeOK, OneLock, NEW t \in Tab, Turn(t)
    PROVE  OneLock'
  <1>1. \A u \in Tab : u # t => cont'[u] = cont[u]
    BY DEF Turn
  <1>2. Renewing(t)' => Renewing(t) \/ LockFree
    <2>1. \/ cont'[t].at = "idle" \/ cont'[t] = cont[t] \/ Advances(t)
      BY DEF Turn
    <2> QED
      BY <2>1 DEF Advances, Renewing
  <1>3. \A u \in Tab : u # t => (Renewing(u)' <=> Renewing(u))
    BY <1>1 DEF Renewing
  <1> QED
    BY <1>2, <1>3 DEF OneLock, LockFree

LEMMA TurnKeepsTokens ==
    ASSUME BrowserTypeOK, TicketsAndTokens, NEW t \in Tab, Turn(t),
           \A u \in Tab : page'[u] = "landing" => ticket'[u] # None
    PROVE  TicketsAndTokens'
  <1>1. refresh' = IF access' = None THEN None ELSE IF access'.sso THEN None ELSE access'.who
    BY DEF Turn, TicketsAndTokens, KeepTokens, Cleared
  <1>2. \A u \in Tab : cont'[u].at \in {"refresh", "exchange"} => cont'[u].who # None
    BY DEF Turn, TicketsAndTokens, Advances
  <1> QED
    BY <1>1, <1>2 DEF TicketsAndTokens

LEMMA TurnKeepsOrder ==
    ASSUME BrowserTypeOK, TicketsAndTokens, Orderly, NEW t \in Tab, Turn(t)
    PROVE  Orderly'
  <1> SUFFICES ASSUME calm', kept', NEW u \in Tab
               PROVE  OrderlyAt(u)'
    BY DEF Orderly
  <1>1. calm /\ kept /\ \A v \in Tab : OrderlyAt(v)
    BY DEF Turn, KeepTokens, Cleared, Orderly
  <1>2. ASSUME u # t PROVE OrderlyAt(u)'
    <2>1. job'[u] = job[u] /\ cont'[u] = cont[u] /\ shown'[u] = shown[u]
      BY <1>2 DEF Turn
    <2>2. ASSUME KeepTokens PROVE OrderlyAt(u)'
      BY <1>1, <2>1, <2>2 DEF OrderlyAt, KeepTokens
    <2>3. ASSUME Cleared(t) PROVE OrderlyAt(u)'
      <3>1. cont[u].at = "idle" /\ access' = None
        BY <1>2, <2>3 DEF Cleared
      <3> QED
        BY <2>1, <3>1 DEF OrderlyAt
    <2> QED
      BY <2>2, <2>3 DEF Turn
  <1>3. ASSUME u = t PROVE OrderlyAt(u)'
    <2>1. OrderlyAt(t)
      BY <1>1
    <2>2. access' # None =>
             /\ access' = access
             /\ shown'[t] \in {None, access'.who}
             /\ \A k \in Kind : job'[t][k].as \in {None, access'.who}
      <3>1. access' # None => access' = access
        BY DEF Turn, KeepTokens, Cleared
      <3>2. access # None => /\ shown[t] \in {None, access.who}
                             /\ \A k \in Kind : job[t][k].as \in {None, access.who}
        BY <2>1 DEF OrderlyAt
      <3>3. access' # None =>
              /\ shown'[t] \in {shown[t]} \cup Held(t)
              /\ \A k \in Kind : job'[t][k].as \in Held(t)
        BY DEF Turn
      <3>4. access # None => Held(t) \subseteq {None, access.who}
        BY <3>2 DEF Held
      <3> QED
        BY <3>1, <3>2, <3>3, <3>4
    <2>3. /\ cont'[t].at # "idle" => access' # None
          /\ cont'[t].at = "refresh" => access'.sso = FALSE /\ cont'[t].who = access'.who
          /\ cont'[t].at \in {"wait", "still", "frame", "out", "exchange"} => access'.sso = TRUE
          /\ cont'[t].at = "exchange" => cont'[t].with = access'.who
      <3>1. ASSUME KeepTokens, cont'[t] = cont[t] PROVE <2>3!:
        BY <2>1, <3>1 DEF OrderlyAt, KeepTokens
      <3>2. ASSUME KeepTokens, Advances(t) PROVE <2>3!:
        <4>0. access # None
          BY <2>1, <3>2 DEF Advances, OrderlyAt, TicketsAndTokens
        <4>1. access' = access /\ access.sso \in BOOLEAN
          BY <3>2, <4>0, TokenParts DEF KeepTokens
        <4>2. refresh = IF access.sso THEN None ELSE access.who
          BY <4>0 DEF TicketsAndTokens
        <4>3. access.who # None
          BY <4>0, TokenParts, PartsTyped
        <4>4. access.sso = TRUE => ContinuedUser = access.who
          BY <4>0 DEF ContinuedUser
        <4> QED
          BY <2>1, <3>2, <4>0, <4>1, <4>2, <4>3, <4>4 DEF OrderlyAt, Advances
      <3> QED
        BY <3>1, <3>2 DEF Turn
    <2> QED
      BY <1>3, <2>2, <2>3 DEF OrderlyAt
  <1> QED
    BY <1>2, <1>3

\* New tokens for the same person.
Renewed(t, p, sso) ==
    /\ SetTokens(p, sso) /\ Ends(t)
    /\ \A k \in Kind : job'[t][k].as \in {None, p, job[t][k].as}
    /\ UNCHANGED <<shown, unreachable, page, ticket, calm>>

LEMMA SetTokensTypes ==
    ASSUME BrowserTypeOK, NEW p \in Person, NEW sso \in BOOLEAN, SetTokens(p, sso)
    PROVE  /\ access' \in Token /\ access' # None /\ access'.who = p /\ access'.sso = sso
           /\ access'.fresh = TRUE
           /\ refresh' = IF sso THEN None ELSE p
           /\ refresh' \in Somebody /\ kept' = kept
  <1>1. access' = [who |-> p, sso |-> sso, fresh |-> TRUE] /\ refresh' = IF sso THEN None ELSE p
    BY DEF SetTokens
  <1>2. access' \in Token /\ access'.who = p /\ access'.sso = sso /\ access'.fresh = TRUE
    BY <1>1 DEF Token
  <1> QED
    BY <1>1, <1>2, PartsTyped DEF SetTokens

\* Where the tabs are, and the world around them.
Around ==
    /\ signedOut \in BOOLEAN /\ tried \in [Tab -> BOOLEAN] /\ reloaded \in [Tab -> BOOLEAN]
    /\ page \in [Tab -> {"app", "trying", "login", "asking", "away", "landing"}]
    /\ ticket \in [Tab -> Somebody]
    /\ cookie \in Trip \cup {None}
    /\ idp \in Somebody /\ up \in BOOLEAN /\ outages \in 0 .. MaxOutages
    /\ \A u \in Tab : page[u] = "landing" => ticket[u] # None

LEMMA AroundNow ==
    ASSUME BrowserInv
    PROVE  Around
  BY DEF BrowserInv, BrowserTypeOK, TicketsAndTokens, Around

LEMMA AroundStays ==
    ASSUME BrowserInv, UNCHANGED <<signedOut, marks, page, ticket, cookie, world>>
    PROVE  Around'
  BY AroundNow DEF Around, marks, world

LEMMA TurnKeeps ==
    ASSUME BrowserInv, NEW t \in Tab, Turn(t), Around'
    PROVE  BrowserInv'
  <1>1. BrowserTypeOK /\ OneLock /\ TicketsAndTokens /\ Orderly
    BY DEF BrowserInv
  <1>2. OneLock' /\ Orderly'
    BY <1>1, TurnKeepsLock, TurnKeepsOrder
  <1>3. \A u \in Tab : page'[u] = "landing" => ticket'[u] # None
    BY DEF Around
  <1>4. TicketsAndTokens'
    BY <1>1, <1>3, TurnKeepsTokens
  <1>5. access' \in Token \cup {None} /\ refresh' \in Somebody /\ kept' \in BOOLEAN
    BY <1>1, PartsTyped DEF Turn, KeepTokens, Cleared, BrowserTypeOK
  <1>6. BrowserTypeOK'
    BY <1>5 DEF BrowserTypeOK, Around, Turn, Jobs, Conts
  <1> QED
    BY <1>2, <1>4, <1>6 DEF BrowserInv

LEMMA RenewedKeeps ==
    ASSUME BrowserInv, NEW t \in Tab, NEW p \in Person, NEW sso \in BOOLEAN, Renewed(t, p, sso), Around',
           Orderly => (calm /\ kept => access # None /\ access.sso = sso /\ access.who = p)
    PROVE  BrowserInv'
  <1>1. BrowserTypeOK /\ OneLock /\ TicketsAndTokens /\ Orderly
    BY DEF BrowserInv
  <1>2. /\ access' \in Token /\ access' # None /\ access'.who = p /\ access'.sso = sso
        /\ refresh' = IF sso THEN None ELSE p
        /\ refresh' \in Somebody /\ kept' = kept
    BY <1>1, SetTokensTypes DEF Renewed
  <1>3. /\ job' \in [Tab -> Jobs] /\ cont' \in [Tab -> Conts] /\ cont'[t] = Quiet
        /\ \A u \in Tab : u # t => job'[u] = job[u] /\ cont'[u] = cont[u]
        /\ \A k \in Kind : job'[t][k].as \in {None, p, job[t][k].as}
        /\ shown' = shown /\ unreachable' = unreachable /\ calm' = calm
    BY DEF Renewed, Ends
  <1>4. BrowserTypeOK'
    BY <1>1, <1>2, <1>3 DEF BrowserTypeOK, Around, Jobs, Conts
  <1>5. OneLock'
    BY <1>1, <1>3, PartsTyped DEF OneLock, Renewing
  <1>6. TicketsAndTokens'
    <2>1. \A u \in Tab : cont'[u].at \in {"refresh", "exchange"} => cont'[u].who # None
      BY <1>1, <1>3, PartsTyped DEF TicketsAndTokens
    <2> QED
      BY <1>2, <2>1 DEF TicketsAndTokens, Around
  <1>7. ASSUME calm', kept', NEW u \in Tab PROVE OrderlyAt(u)'
    <2>1. access # None /\ access.sso = sso /\ access.who = p /\ OrderlyAt(u)
      BY <1>1, <1>2, <1>3, <1>7 DEF Orderly
    <2>2. ASSUME u = t PROVE OrderlyAt(u)'
      BY <1>2, <1>3, <2>1, <2>2, PartsTyped DEF OrderlyAt
    <2>3. ASSUME u # t PROVE OrderlyAt(u)'
      BY <1>2, <1>3, <2>1, <2>3 DEF OrderlyAt
    <2> QED
      BY <2>2, <2>3
  <1> QED
    BY <1>4, <1>5, <1>6, <1>7 DEF BrowserInv, Orderly

\* Somebody comes: the session of nobody else is under way, as long as it was calm.
LEMMA EnterKeeps ==
    ASSUME BrowserInv, NEW t \in Tab, NEW p \in Person, NEW sso \in BOOLEAN, Enter(t, p, sso),
           UNCHANGED <<reloaded, shown, unreachable, cont>>, UNCHANGED <<cookie, world>>
    PROVE  BrowserInv'
  <1>1. BrowserTypeOK /\ OneLock /\ TicketsAndTokens /\ Orderly
    BY DEF BrowserInv
  <1>2. SetTokens(p, sso)
    BY DEF Enter
  <1>3. /\ access' \in Token /\ access' # None /\ access'.who = p /\ access'.sso = sso
        /\ refresh' = IF sso THEN None ELSE p
        /\ refresh' \in Somebody /\ kept' = kept
    BY <1>1, <1>2, SetTokensTypes
  <1> DEFINE n == [at |-> "sent", as |-> p]
  <1>4. n \in [at : {"idle", "sent", "joined", "again"}, as : Somebody] /\ n.as = p
    BY PartsTyped
  <1>5. job' = [job EXCEPT ![t]["me"] = n]
    BY DEF Enter
  <1> HIDE DEF n
  <1>6. /\ job' \in [Tab -> Jobs]
        /\ \A u \in Tab : u # t => job'[u] = job[u]
        /\ \A k \in Kind : job'[t][k].as \in {p, job[t][k].as}
    BY <1>1, <1>4, <1>5, OneJobMoves DEF Kind
  <1>7. /\ signedOut' = FALSE /\ tried' = [tried EXCEPT ![t] = FALSE]
        /\ page' = [page EXCEPT ![t] = "app"] /\ ticket' = [ticket EXCEPT ![t] = None]
        /\ calm' = (calm /\ ComesAlone(t, p))
    BY DEF Enter, ClearMarks
  <1>8. Around'
    BY <1>1, <1>7, AroundNow, PartsTyped DEF Around, world
  <1>9. calm' \in BOOLEAN
    BY <1>1, <1>7 DEF BrowserTypeOK, ComesAlone
  <1>10. BrowserTypeOK'
    BY <1>1, <1>3, <1>6, <1>8, <1>9 DEF BrowserTypeOK, Around, Jobs
  <1>11. OneLock'
    BY <1>1 DEF OneLock, Renewing
  <1>12. TicketsAndTokens'
    BY <1>1, <1>3, <1>8 DEF TicketsAndTokens, Around
  <1>13. ASSUME calm', kept', NEW u \in Tab PROVE OrderlyAt(u)'
    <2>1. ComesAlone(t, p)
      BY <1>7, <1>13
    <2>2. cont[u] = Quiet /\ shown[u] \in {None, p} /\ \A k \in Kind : job[u][k] = NoJob
      BY <2>1 DEF ComesAlone, Busy
    <2>3. \A k \in Kind : job'[u][k].as \in {None, p}
      BY <1>6, <2>2, PartsTyped
    <2>4. cont'[u].at = "idle" /\ shown'[u] \in {None, p}
      BY <2>2, PartsTyped
    <2> QED
      BY <1>3, <2>3, <2>4 DEF OrderlyAt
  <1> QED
    BY <1>10, <1>11, <1>12, <1>13 DEF BrowserInv, Orderly

-----------------------------------------------------------------------------
(* One lemma for each kind of step.                                          *)

\* Requests are sent and answered.
LEMMA RequestKeeps ==
    ASSUME BrowserInv, NEW t \in Tab, NEW k \in Kind,
           \/ View(t) \/ Reconnect(t) \/ Delivered(t, k) \/ Undelivered(t, k) \/ Expired(t, k)
           \/ RefusedAgain(t, k)
    PROVE  BrowserInv'
  <1>1. BrowserTypeOK
    BY DEF BrowserInv
  <1>2. /\ job \in [Tab -> Jobs] /\ cont \in [Tab -> Conts] /\ shown \in [Tab -> Somebody]
        /\ unreachable \in [Tab -> BOOLEAN] /\ calm \in BOOLEAN
        /\ \A j \in Kind : job[t][j] \in [at : {"idle", "sent", "joined", "again"}, as : Somebody]
    BY <1>1 DEF BrowserTypeOK, Jobs, Conts
  <1>3. ASSUME NEW j \in Kind, job' = Sent(t, j), UNCHANGED <<shown, unreachable, cont, access, refresh, kept, calm>>
        PROVE  Turn(t)
    <2>1. /\ job' \in [Tab -> Jobs] /\ \A u \in Tab : u # t => job'[u] = job[u]
          /\ \A i \in Kind : job'[t][i].as \in {Header, job[t][i].as}
      BY <1>1, <1>3, SentMoves
    <2>2. access # None => Header \in {None, access.who}
      BY <1>1, HeaderIs
    <2>3. \A i \in Kind : access # None => job'[t][i].as \in Held(t)
      BY <2>1, <2>2, HeldAre
    <2> QED
      BY <1>1, <1>2, <1>3, <2>1, <2>3, JobTurns
  <1>4. ASSUME NEW n \in [at : {"idle", "sent", "joined", "again"}, as : Somebody],
               n.as \in {None, job[t][k].as}, job' = [job EXCEPT ![t][k] = n]
        PROVE  /\ job' \in [Tab -> Jobs] /\ \A u \in Tab : u # t => job'[u] = job[u]
               /\ \A i \in Kind : job'[t][i].as \in Held(t)
    <2>1. /\ job' \in [Tab -> Jobs]
          /\ \A u \in Tab : u # t => job'[u] = job[u]
          /\ \A j \in Kind : job'[t][j].as \in {n.as, job[t][j].as}
      BY <1>1, <1>4, OneJobMoves
    <2>2. n.as \in Held(t) /\ \A j \in Kind : job[t][j].as \in Held(t)
      BY <1>4, HeldAre
    <2> QED
      BY <2>1, <2>2
  <1>5. ASSUME View(t) PROVE BrowserInv'
    <2>1. "view" \in Kind
      BY DEF Kind
    <2>2. Turn(t)
      BY <1>3, <1>5, <2>1 DEF View, storage
    <2>3. Around'
      BY <1>5, AroundStays DEF View, storage
    <2> QED
      BY <2>2, <2>3, TurnKeeps
  <1>6. ASSUME Reconnect(t) PROVE BrowserInv'
    <2>1. "me" \in Kind
      BY DEF Kind
    <2>2. UNCHANGED <<unreachable, cont, access, refresh, kept, calm>>
      BY <1>6 DEF Reconnect, storage
    <2>3. ASSUME shown' = [shown EXCEPT ![t] = None], UNCHANGED job PROVE Turn(t)
      <3>1. /\ shown' \in [Tab -> Somebody] /\ shown'[t] = None
            /\ \A u \in Tab : u # t => shown'[u] = shown[u]
        BY <1>2, <2>3, PartsTyped
      <3>2. job' \in [Tab -> Jobs] /\ unreachable' \in [Tab -> BOOLEAN]
        BY <1>2, <2>2, <2>3
      <3>3. shown'[t] \in Held(t) /\ \A i \in Kind : job'[t][i].as \in Held(t)
        BY <2>3, <3>1, HeldAre
      <3> QED
        BY <1>1, <2>2, <2>3, <3>1, <3>2, <3>3, JobTurns
    <2>4. Turn(t)
      BY <1>3, <1>6, <2>1, <2>2, <2>3 DEF Reconnect
    <2>5. Around'
      BY <1>6, AroundStays DEF Reconnect, storage
    <2> QED
      BY <2>4, <2>5, TurnKeeps
  <1>7. ASSUME Delivered(t, k) PROVE BrowserInv'
    <2>1. job' = [job EXCEPT ![t][k] = NoJob] /\ UNCHANGED <<cont, access, refresh, kept, calm>>
      BY <1>7 DEF Delivered, storage
    <2>2. /\ job' \in [Tab -> Jobs] /\ \A u \in Tab : u # t => job'[u] = job[u]
          /\ \A i \in Kind : job'[t][i].as \in Held(t)
      BY <1>4, <2>1, PartsTyped
    <2>3. /\ shown' \in [Tab -> Somebody] /\ unreachable' \in [Tab -> BOOLEAN]
          /\ \A u \in Tab : u # t => shown'[u] = shown[u]
          /\ shown'[t] \in {shown[t], job[t][k].as}
      BY <1>2, <1>7 DEF Delivered
    <2>4. Turn(t)
      BY <1>1, <2>1, <2>2, <2>3, HeldAre, JobTurns
    <2>5. Around'
      BY <1>7, AroundStays DEF Delivered, storage
    <2> QED
      BY <2>4, <2>5, TurnKeeps
  <1>8. ASSUME Undelivered(t, k) \/ Expired(t, k) PROVE BrowserInv'
    <2>1. UNCHANGED <<shown, cont, access, refresh, kept, calm>>
      BY <1>8 DEF Undelivered, Expired, storage
    <2>2. /\ job' \in [Tab -> Jobs] /\ \A u \in Tab : u # t => job'[u] = job[u]
          /\ \A i \in Kind : job'[t][i].as \in Held(t)
      <3>1. ASSUME Undelivered(t, k) PROVE <2>2!:
        BY <1>4, <3>1, PartsTyped DEF Undelivered
      <3>2. ASSUME Expired(t, k) PROVE <2>2!:
        <4> DEFINE n == [job[t][k] EXCEPT !.at = "joined"]
        <4>1. /\ n \in [at : {"idle", "sent", "joined", "again"}, as : Somebody]
              /\ n.as = job[t][k].as
          BY <1>2
        <4>2. job' = [job EXCEPT ![t][k] = n]
          BY <1>2, <3>2 DEF Expired, Jobs
        <4> HIDE DEF n
        <4> QED
          BY <1>4, <4>1, <4>2
      <3> QED
        BY <1>8, <3>1, <3>2
    <2>3. unreachable' \in [Tab -> BOOLEAN]
      BY <1>2, <1>8 DEF Undelivered, Expired
    <2>4. Turn(t)
      BY <1>1, <1>2, <2>1, <2>2, <2>3, JobTurns
    <2>5. Around'
      BY <1>8, AroundStays DEF Undelivered, Expired, storage
    <2> QED
      BY <2>4, <2>5, TurnKeeps
  <1>9. ASSUME RefusedAgain(t, k) PROVE BrowserInv'
    <2>1. job' = [job EXCEPT ![t][k] = NoJob] /\ UNCHANGED <<cont, calm>>
      BY <1>9 DEF RefusedAgain
    <2>2. /\ job' \in [Tab -> Jobs] /\ \A u \in Tab : u # t => job'[u] = job[u]
          /\ \A i \in Kind : job'[t][i].as \in Held(t)
      BY <1>4, <2>1, PartsTyped
    <2>3. /\ shown' \in [Tab -> Somebody] /\ unreachable' \in [Tab -> BOOLEAN]
          /\ \A u \in Tab : u # t => shown'[u] = shown[u]
          /\ shown'[t] \in {shown[t], None}
      BY <1>2, <1>9, PartsTyped DEF RefusedAgain
    <2>4. KeepTokens \/ Cleared(t)
      BY <1>1, <1>9, ClearedFor DEF RefusedAgain
    <2>5. \/ cont'[t].at = "idle"
          \/ (KeepTokens \/ ~kept') /\ cont'[t] = cont[t]
      BY <1>9, <2>1, PartsTyped DEF RefusedAgain, ClearTokens
    <2>6. shown'[t] \in {shown[t]} \cup Held(t)
      BY <2>3, HeldAre
    <2>7. cont' \in [Tab -> Conts] /\ calm' \in BOOLEAN /\ \A u \in Tab : cont'[u] = cont[u]
      BY <1>2, <2>1
    <2>8. Turn(t)
      BY <2>1, <2>2, <2>3, <2>4, <2>5, <2>6, <2>7 DEF Turn
    <2>9. Around'
      BY <1>9, AroundStays DEF RefusedAgain
    <2> QED
      BY <2>8, <2>9, TurnKeeps
  <1> QED
    BY <1>5, <1>6, <1>7, <1>8, <1>9

\* A session is continued, or not.
LEMMA GaveUpKeeps ==
    ASSUME BrowserInv, NEW t \in Tab, NEW forget \in BOOLEAN, GiveUp(t, forget), UNCHANGED calm, Around'
    PROVE  BrowserInv'
  BY GiveUpTurns, TurnKeeps DEF BrowserInv

LEMMA ThrewKeeps ==
    ASSUME BrowserInv, NEW t \in Tab, Threw(t), UNCHANGED calm, Around'
    PROVE  BrowserInv'
  BY ThrewTurns, TurnKeeps DEF BrowserInv

\* Only how far the tab is with continuing changes.
LEMMA GoesOnKeeps ==
    ASSUME BrowserInv, NEW t \in Tab, NEW n \in Conts, cont' = [cont EXCEPT ![t] = n],
           Advances(t), KeepTokens, UNCHANGED <<shown, unreachable, job, calm>>, Around'
    PROVE  BrowserInv'
  <1>1. BrowserTypeOK
    BY DEF BrowserInv
  <1>2. /\ job' \in [Tab -> Jobs] /\ shown' \in [Tab -> Somebody] /\ calm' \in BOOLEAN
        /\ unreachable' \in [Tab -> BOOLEAN]
    BY <1>1 DEF BrowserTypeOK, Jobs
  <1>3. cont' \in [Tab -> Conts] /\ \A u \in Tab : u # t => cont'[u] = cont[u]
    BY <1>1 DEF BrowserTypeOK, Conts
  <1>4. \A k \in Kind : job'[t][k].as \in Held(t)
    BY HeldAre
  <1>5. Turn(t)
    BY <1>2, <1>3, <1>4 DEF Turn
  <1> QED
    BY <1>5, TurnKeeps

LEMMA ContinueKeeps ==
    ASSUME BrowserInv, NEW t \in Tab, Continue(t)
    PROVE  BrowserInv'
  <1>1. BrowserTypeOK /\ TicketsAndTokens
    BY DEF BrowserInv
  <1>2. Around' /\ UNCHANGED calm
    BY AroundStays DEF Continue
  <1>3. ASSUME refresh # None PROVE BrowserInv'
    <2> DEFINE n == [at |-> "refresh", who |-> refresh, with |-> None]
    <2>1. n \in Conts /\ n.at = "refresh" /\ n.who = refresh
      BY <1>1, PartsTyped DEF Conts, BrowserTypeOK
    <2>2. cont' = [cont EXCEPT ![t] = n] /\ KeepTokens /\ UNCHANGED <<shown, unreachable, job>>
      BY <1>3 DEF Continue
    <2> HIDE DEF n
    <2>3. cont'[t] = n
      BY <1>1, <2>2 DEF BrowserTypeOK
    <2>4. Advances(t)
      BY <1>3, <2>1, <2>3 DEF Advances
    <2> QED
      BY <1>2, <2>1, <2>2, <2>4, GoesOnKeeps
  <1>4. ASSUME refresh = None, access = None \/ signedOut PROVE BrowserInv'
    BY <1>2, <1>4, GaveUpKeeps DEF Continue
  <1>5. ASSUME refresh = None, ~(access = None \/ signedOut) PROVE BrowserInv'
    <2> DEFINE n == [cont[t] EXCEPT !.at = "wait"]
    <2>1. n \in Conts /\ n.at = "wait"
      BY <1>1 DEF Conts, BrowserTypeOK
    <2>2. cont' = [cont EXCEPT ![t] = n] /\ KeepTokens /\ UNCHANGED <<shown, unreachable, job>>
      BY <1>5 DEF Continue
    <2> HIDE DEF n
    <2>3. cont'[t] = n
      BY <1>1, <2>2 DEF BrowserTypeOK
    <2>4. Advances(t)
      BY <1>5, <2>1, <2>3 DEF Advances
    <2> QED
      BY <1>2, <1>5, <2>1, <2>2, <2>4, GoesOnKeeps
  <1> QED
    BY <1>3, <1>4, <1>5

LEMMA ResumeEnds ==
    ASSUME BrowserTypeOK, NEW t \in Tab, Resume(t), access' \in Token
    PROVE  /\ Ends(t) /\ UNCHANGED <<shown, unreachable>>
           /\ \A k \in Kind : job'[t][k].as \in {None, access'.who, job[t][k].as}
  <1> DEFINE a == IF access'.fresh THEN access'.who ELSE None
  <1>1. a \in Somebody /\ a \in {None, access'.who}
    BY PartsTyped DEF Token
  <1>2. /\ job' = [job EXCEPT ![t] = [k \in Kind |->
                     IF k \in Waiting(t) THEN [at |-> "again", as |-> a] ELSE @[k]]]
        /\ cont' = [cont EXCEPT ![t] = Quiet]
        /\ UNCHANGED <<shown, unreachable>>
    BY DEF Resume
  <1> HIDE DEF a
  <1>3. Ends(t) /\ \A k \in Kind : job'[t][k].as \in {a, job[t][k].as}
    BY <1>1, <1>2, AgainEnds
  <1> QED
    BY <1>1, <1>2, <1>3

LEMMA RefreshedKeeps ==
    ASSUME BrowserInv, NEW t \in Tab, Refreshed(t)
    PROVE  BrowserInv'
  <1>1. BrowserTypeOK /\ TicketsAndTokens
    BY DEF BrowserInv
  <1>2. Around' /\ UNCHANGED <<page, ticket, calm>> /\ cont[t].at = "refresh"
    BY AroundStays DEF Refreshed
  <1>3. ASSUME SetTokens(cont[t].who, FALSE), Resume(t) PROVE BrowserInv'
    <2>1. cont[t].who \in Person
      BY <1>1, <1>2 DEF TicketsAndTokens, BrowserTypeOK, Somebody
    <2>2. access' \in Token /\ access'.who = cont[t].who
      BY <1>1, <1>3, <2>1, SetTokensTypes
    <2>3. Renewed(t, cont[t].who, FALSE)
      BY <1>1, <1>2, <1>3, <2>2, ResumeEnds DEF Renewed
    <2>4. Orderly => (calm /\ kept =>
              access # None /\ access.sso = FALSE /\ access.who = cont[t].who)
      BY <1>2 DEF Orderly, OrderlyAt
    <2> QED
      BY <1>2, <2>1, <2>3, <2>4, RenewedKeeps
  <1> QED
    BY <1>2, <1>3, GaveUpKeeps, ThrewKeeps DEF Refreshed

\* Asking the provider in a frame.
LEMMA LockKeeps ==
    ASSUME BrowserInv, NEW t \in Tab, AcquireLock(t) \/ StartRenewal(t)
    PROVE  BrowserInv'
  <1>1. BrowserTypeOK
    BY DEF BrowserInv
  <1>2. ASSUME AcquireLock(t) PROVE BrowserInv'
    <2> DEFINE n == [at |-> "still", who |-> None, with |-> Header]
    <2>1. n \in Conts /\ n.at = "still"
      BY <1>1, HeaderIs, PartsTyped DEF Conts
    <2>2. cont' = [cont EXCEPT ![t] = n] /\ KeepTokens /\ UNCHANGED <<shown, unreachable, job, calm>>
      BY <1>2 DEF AcquireLock, KeepTokens, storage
    <2>3. Around'
      BY <1>2, AroundStays DEF AcquireLock, storage
    <2> HIDE DEF n
    <2>4. cont'[t] = n
      BY <1>1, <2>2 DEF BrowserTypeOK
    <2>5. Advances(t)
      BY <1>2, <2>1, <2>4 DEF Advances, AcquireLock
    <2> QED
      BY <2>1, <2>2, <2>3, <2>5, GoesOnKeeps
  <1>3. ASSUME StartRenewal(t) PROVE BrowserInv'
    <2> DEFINE n == [cont[t] EXCEPT !.at = "out"]
    <2>1. n \in Conts /\ n.at = "out"
      BY <1>1 DEF Conts, BrowserTypeOK
    <2>2. cont' = [cont EXCEPT ![t] = n] /\ KeepTokens /\ UNCHANGED <<shown, unreachable, job, calm>>
      BY <1>3 DEF StartRenewal, KeepTokens, storage
    <2>3. Around'
      BY <1>3, AroundNow DEF StartRenewal, storage, marks, world, Around, Trip
    <2> HIDE DEF n
    <2>4. cont'[t] = n
      BY <1>1, <2>2 DEF BrowserTypeOK
    <2>5. Advances(t)
      BY <1>3, <2>1, <2>4 DEF Advances, StartRenewal
    <2> QED
      BY <2>1, <2>2, <2>3, <2>5, GoesOnKeeps
  <1> QED
    BY <1>2, <1>3

LEMMA StillSignedInKeeps ==
    ASSUME BrowserInv, NEW t \in Tab, StillSignedIn(t)
    PROVE  BrowserInv'
  <1>1. BrowserTypeOK
    BY DEF BrowserInv
  <1>2. Around' /\ UNCHANGED calm /\ cont[t].at = "still"
    BY AroundStays DEF StillSignedIn
  <1>3. ASSUME KeepTokens, UNCHANGED <<shown, unreachable>>, Ends(t),
               \A k \in Kind : access' # None => job'[t][k].as \in Held(t)
        PROVE  BrowserInv'
    <2>1. /\ shown' \in [Tab -> Somebody] /\ unreachable' \in [Tab -> BOOLEAN] /\ calm' \in BOOLEAN
      BY <1>1, <1>2, <1>3 DEF BrowserTypeOK
    <2>2. cont'[t].at = "idle"
      BY <1>3, PartsTyped DEF Ends
    <2>3. Turn(t)
      BY <1>2, <1>3, <2>1, <2>2 DEF Turn, Ends
    <2> QED
      BY <1>2, <2>3, TurnKeeps
  <1>4. ASSUME KeepTokens, access # None, Resume(t) PROVE BrowserInv'
    <2>1. access' \in Token /\ access' = access
      BY <1>1, <1>4 DEF BrowserTypeOK, KeepTokens
    <2>2. /\ Ends(t) /\ UNCHANGED <<shown, unreachable>>
          /\ \A k \in Kind : job'[t][k].as \in {None, access'.who, job[t][k].as}
      BY <1>1, <1>4, <2>1, ResumeEnds
    <2>3. \A k \in Kind : job'[t][k].as \in Held(t)
      BY <2>1, <2>2, HeldAre
    <2> QED
      BY <1>3, <1>4, <2>2, <2>3
  <1>5. ASSUME access = None, KeepTokens, UNCHANGED <<shown, unreachable>>,
               job' = [job EXCEPT ![t] = [k \in Kind |->
                       IF k \in Waiting(t) THEN [at |-> "again", as |-> None] ELSE @[k]]],
               cont' = [cont EXCEPT ![t] = Quiet]
        PROVE  BrowserInv'
    <2>1. Ends(t) /\ \A k \in Kind : job'[t][k].as \in {None, job[t][k].as}
      BY <1>1, <1>5, PartsTyped, AgainEnds
    <2>2. \A k \in Kind : job'[t][k].as \in Held(t)
      BY <2>1, HeldAre
    <2> QED
      BY <1>3, <1>5, <2>1, <2>2
  <1>6. ASSUME cont' = [cont EXCEPT ![t] = [at |-> "frame", who |-> None, with |-> None]],
               KeepTokens, UNCHANGED <<shown, unreachable, job>>
        PROVE  BrowserInv'
    <2> DEFINE n == [at |-> "frame", who |-> None, with |-> None]
    <2>1. n \in Conts /\ n.at = "frame" /\ cont' = [cont EXCEPT ![t] = n]
      BY <1>6, PartsTyped DEF Conts
    <2> HIDE DEF n
    <2>2. cont'[t] = n
      BY <1>1, <2>1 DEF BrowserTypeOK
    <2>3. Advances(t)
      BY <1>2, <2>1, <2>2 DEF Advances
    <2> QED
      BY <1>2, <1>6, <2>1, <2>3, GoesOnKeeps
  <1> QED
    BY <1>2, <1>4, <1>5, <1>6, ThrewKeeps DEF StillSignedIn

LEMMA RenewalKeeps ==
    ASSUME BrowserInv, NEW t \in Tab, CompleteRenewal(t) \/ RenewalFails(t)
    PROVE  BrowserInv'
  <1>1. BrowserTypeOK
    BY DEF BrowserInv
  <1>2. ASSUME CompleteRenewal(t) PROVE BrowserInv'
    <2>1. /\ cont[t].at = "out" /\ cookie' = None
          /\ UNCHANGED <<signedOut, reloaded, page, ticket, calm>> /\ UNCHANGED world
      BY <1>2 DEF CompleteRenewal
    <2>2. tried' \in [Tab -> BOOLEAN]
      BY <1>1, <1>2 DEF CompleteRenewal, MarkTried, BrowserTypeOK
    <2>3. Around'
      BY <2>1, <2>2, AroundNow DEF Around, world
    <2>4. ASSUME idp # None, KeepTokens, UNCHANGED <<shown, unreachable, job>>,
                 cont' = [cont EXCEPT ![t] = [at |-> "exchange", who |-> idp, with |-> ContinuedUser]]
          PROVE  BrowserInv'
      <3> DEFINE n == [at |-> "exchange", who |-> idp, with |-> ContinuedUser]
      <3>1. ContinuedUser \in Somebody /\ idp \in Somebody
        BY <1>1, TokenParts, PartsTyped DEF ContinuedUser, BrowserTypeOK
      <3>2. /\ n \in Conts /\ n.at = "exchange" /\ n.who = idp /\ n.with = ContinuedUser
            /\ cont' = [cont EXCEPT ![t] = n]
        BY <2>4, <3>1 DEF Conts
      <3> HIDE DEF n
      <3>3. cont'[t] = n
        BY <1>1, <3>2 DEF BrowserTypeOK
      <3>4. Advances(t)
        BY <2>1, <2>4, <3>2, <3>3 DEF Advances
      <3> QED
        BY <2>1, <2>3, <2>4, <3>2, <3>4, GoesOnKeeps
    <2> QED
      BY <1>2, <2>1, <2>3, <2>4, GaveUpKeeps DEF CompleteRenewal
  <1>3. ASSUME RenewalFails(t) PROVE BrowserInv'
    <2>1. Around' /\ UNCHANGED calm /\ GiveUp(t, FALSE)
      BY <1>3, AroundStays DEF RenewalFails
    <2> QED
      BY <2>1, GaveUpKeeps
  <1> QED
    BY <1>2, <1>3

LEMMA ExchangeKeeps ==
    ASSUME BrowserInv, NEW t \in Tab, ExchangeRenewal(t)
    PROVE  BrowserInv'
  <1>1. BrowserTypeOK /\ TicketsAndTokens
    BY DEF BrowserInv
  <1>2. cont[t].at = "exchange" /\ UNCHANGED <<reloaded, page, ticket, cookie, calm>> /\ UNCHANGED world
    BY DEF ExchangeRenewal
  <1>3. signedOut' \in BOOLEAN /\ tried' \in [Tab -> BOOLEAN]
    BY <1>1 DEF ExchangeRenewal, ClearMarks, BrowserTypeOK
  <1>4. Around'
    BY <1>2, <1>3, AroundNow DEF Around, world
  <1>5. ASSUME SamePerson(cont[t].who, cont[t].with), SetTokens(cont[t].who, TRUE), Resume(t)
        PROVE  BrowserInv'
    <2>1. cont[t].who \in Person
      BY <1>1, <1>2 DEF TicketsAndTokens, BrowserTypeOK, Somebody
    <2>2. access' \in Token /\ access'.who = cont[t].who
      BY <1>1, <1>5, <2>1, SetTokensTypes
    <2>3. Renewed(t, cont[t].who, TRUE)
      BY <1>1, <1>2, <1>5, <2>2, ResumeEnds DEF Renewed
    <2>4. ASSUME Orderly, calm, kept
          PROVE  access # None /\ access.sso = TRUE /\ access.who = cont[t].who
      <3>1. access # None /\ access.sso = TRUE /\ cont[t].with = access.who
        BY <1>2, <2>4 DEF Orderly, OrderlyAt
      <3>2. access.who # None
        BY <1>1, <3>1, TokenParts, PartsTyped
      <3> QED
        BY <1>5, <3>1, <3>2 DEF SamePerson
    <2> QED
      BY <1>4, <2>1, <2>3, <2>4, RenewedKeeps
  <1> QED
    BY <1>2, <1>4, <1>5, GaveUpKeeps, ThrewKeeps DEF ExchangeRenewal


\* Pages: leaving one and opening one.
LEMMA AnewKeeps ==
    ASSUME BrowserInv, NEW t \in Tab, NEW n \in Jobs, job' = [job EXCEPT ![t] = n],
           \A k \in Kind : n[k].as \in {None, Header},
           cont' = [cont EXCEPT ![t] = Quiet], shown' = [shown EXCEPT ![t] = None],
           unreachable' = [unreachable EXCEPT ![t] = FALSE],
           UNCHANGED <<access, refresh, kept, calm>>, Around'
    PROVE  BrowserInv'
  <1>1. BrowserTypeOK
    BY DEF BrowserInv
  <1>2. /\ job \in [Tab -> Jobs] /\ cont \in [Tab -> Conts] /\ shown \in [Tab -> Somebody]
        /\ unreachable \in [Tab -> BOOLEAN] /\ calm' \in BOOLEAN
    BY <1>1 DEF BrowserTypeOK, Jobs, Conts
  <1>3. /\ job' \in [Tab -> Jobs] /\ job'[t] = n /\ \A u \in Tab : u # t => job'[u] = job[u]
    BY <1>2
  <1>4. /\ cont' \in [Tab -> Conts] /\ cont'[t].at = "idle" /\ \A u \in Tab : u # t => cont'[u] = cont[u]
    BY <1>2, PartsTyped
  <1>5. /\ shown' \in [Tab -> Somebody] /\ shown'[t] = None /\ \A u \in Tab : u # t => shown'[u] = shown[u]
        /\ unreachable' \in [Tab -> BOOLEAN]
    BY <1>2, PartsTyped
  <1>6. access # None => Header \in {None, access.who}
    BY <1>1, HeaderIs
  <1>7. access' # None => \A k \in Kind : job'[t][k].as \in Held(t)
    BY <1>3, <1>6, HeldAre
  <1>8. shown'[t] \in {shown[t]} \cup Held(t)
    BY <1>5, HeldAre
  <1>9. KeepTokens
    BY DEF KeepTokens
  <1>10. Turn(t)
    BY <1>2, <1>3, <1>4, <1>5, <1>7, <1>8, <1>9 DEF Turn
  <1> QED
    BY <1>10, TurnKeeps

LEMMA LoadKeeps ==
    ASSUME BrowserInv, NEW t \in Tab, Load(t), UNCHANGED <<access, refresh, kept, calm>>, Around'
    PROVE  BrowserInv'
  <1> DEFINE sent == [at |-> "sent", as |-> Header]
             n == [k \in Kind |-> IF k = "load" /\ access # None THEN sent ELSE NoJob]
  <1>1. Header \in Somebody
    BY HeaderIs DEF BrowserInv
  <1>2. sent \in [at : {"idle", "sent", "joined", "again"}, as : Somebody] /\ sent.as = Header
    BY <1>1
  <1>3. job' = [job EXCEPT ![t] = n]
    BY DEF Load
  <1> HIDE DEF sent
  <1>4. n \in Jobs /\ \A k \in Kind : n[k].as \in {None, Header}
    BY <1>2, PartsTyped DEF Jobs
  <1> HIDE DEF n
  <1>5. /\ cont' = [cont EXCEPT ![t] = Quiet] /\ shown' = [shown EXCEPT ![t] = None]
        /\ unreachable' = [unreachable EXCEPT ![t] = FALSE]
    BY DEF Load
  <1> QED
    BY <1>3, <1>4, <1>5, AnewKeeps

LEMMA UnloadKeeps ==
    ASSUME BrowserInv, NEW t \in Tab, Unload(t), UNCHANGED <<access, refresh, kept, calm>>, Around'
    PROVE  BrowserInv'
  <1> DEFINE n == [k \in Kind |-> NoJob]
  <1>1. n \in Jobs /\ \A k \in Kind : n[k].as = None
    BY PartsTyped DEF Jobs
  <1>2. job' = [job EXCEPT ![t] = n]
    BY DEF Unload
  <1> HIDE DEF n
  <1>3. /\ cont' = [cont EXCEPT ![t] = Quiet] /\ shown' = [shown EXCEPT ![t] = None]
        /\ unreachable' = [unreachable EXCEPT ![t] = FALSE]
    BY DEF Unload
  <1> QED
    BY <1>1, <1>2, <1>3, AnewKeeps

\* Nothing of a tab changes but where it is.
LEMMA ElsewhereKeeps ==
    ASSUME BrowserInv, Around',
           UNCHANGED <<access, refresh, kept, shown, unreachable, job, cont, calm>>
    PROVE  BrowserInv'
  <1>1. BrowserTypeOK'
    BY DEF BrowserInv, BrowserTypeOK, Around
  <1>2. OneLock'
    BY DEF BrowserInv, OneLock, Renewing
  <1>3. TicketsAndTokens'
    BY DEF BrowserInv, TicketsAndTokens, Around
  <1>4. Orderly'
    BY DEF BrowserInv, Orderly, OrderlyAt
  <1> QED
    BY <1>1, <1>2, <1>3, <1>4 DEF BrowserInv

LEMMA PageKeeps ==
    ASSUME BrowserInv, NEW t \in Tab,
           \/ OpenLogin(t) \/ LeaveSilently(t) \/ PressButton(t) \/ ComeBack(t) \/ Reload(t)
    PROVE  BrowserInv'
  <1>1. BrowserTypeOK /\ Around
    BY AroundNow DEF BrowserInv
  <1> DEFINE Place == {"app", "trying", "login", "asking", "away", "landing"}
  <1>2. ASSUME OpenLogin(t) PROVE BrowserInv'
    <2>1. Around'
      BY <1>1, <1>2 DEF OpenLogin, Around, storage, marks, world
    <2> QED
      BY <1>2, <2>1, ElsewhereKeeps DEF OpenLogin, storage
  <1>3. ASSUME LeaveSilently(t) PROVE BrowserInv'
    <2>1. Around'
      BY <1>1, <1>3 DEF LeaveSilently, MarkTried, Unload, Around, storage, world, Trip
    <2> QED
      BY <1>3, <2>1, UnloadKeeps DEF LeaveSilently, storage
  <1>4. ASSUME PressButton(t) PROVE BrowserInv'
    <2>1. Around'
      BY <1>1, <1>4 DEF PressButton, Unload, Around, storage, world, Trip
    <2> QED
      BY <1>4, <2>1, UnloadKeeps DEF PressButton, storage
  <1>5. ASSUME ComeBack(t) PROVE BrowserInv'
    <2>1. idp' \in Somebody
      BY <1>1, <1>5, PartsTyped DEF ComeBack, Around
    <2>2. cookie' = None /\ UNCHANGED <<signedOut, tried, reloaded, up, outages>>
      BY <1>5 DEF ComeBack, storage, marks
    <2>3. /\ page' \in [Tab -> Place] /\ ticket' \in [Tab -> Somebody]
          /\ \A u \in Tab : page'[u] = "landing" => ticket'[u] # None
      <3>1. CASE cookie = <<"page", t>> /\ idp' # None
        BY <1>1, <1>5, <2>1, <3>1 DEF ComeBack, Around
      <3>2. CASE ~(cookie = <<"page", t>> /\ idp' # None)
        BY <1>1, <1>5, <3>2 DEF ComeBack, Around
      <3> QED
        BY <3>1, <3>2
    <2>4. Around'
      BY <1>1, <2>1, <2>2, <2>3 DEF Around
    <2> QED
      BY <1>5, <2>4, LoadKeeps DEF ComeBack, storage
  <1>6. ASSUME Reload(t) PROVE BrowserInv'
    <2>1. /\ page' \in [Tab -> Place]
          /\ \A u \in Tab : page'[u] = "landing" => page[u] = "landing"
      BY <1>1, <1>6 DEF Reload, Around
    <2>2. Around'
      BY <1>1, <1>6, <2>1 DEF Reload, Around, storage, world
    <2> QED
      BY <1>6, <2>2, LoadKeeps DEF Reload, storage
  <1> QED
    BY <1>2, <1>3, <1>4, <1>5, <1>6

\* People come and go.
LEMMA PeopleKeep ==
    ASSUME BrowserInv, NEW t \in Tab, Land(t) \/ Logout(t) \/ (\E p \in Person : SignIn(t, p))
    PROVE  BrowserInv'
  <1>1. BrowserTypeOK /\ TicketsAndTokens /\ Around
    BY AroundNow DEF BrowserInv
  <1>2. ASSUME Land(t) PROVE BrowserInv'
    <2>1. UNCHANGED <<reloaded, shown, unreachable, cont>> /\ UNCHANGED <<cookie, world>> /\ page[t] = "landing"
      BY <1>2 DEF Land
    <2>2. ASSUME Enter(t, ticket[t], TRUE) PROVE BrowserInv'
      <3>1. ticket[t] \in Person
        BY <1>1, <2>1 DEF Around, Somebody
      <3> QED
        BY <2>1, <2>2, <3>1, EnterKeeps
    <2>3. ASSUME page' = [page EXCEPT ![t] = "login"], ticket' = [ticket EXCEPT ![t] = None],
                 UNCHANGED <<storage, tried, job, calm>>
          PROVE  BrowserInv'
      <3>1. Around'
        BY <1>1, <2>1, <2>3, PartsTyped DEF Around, storage, world
      <3> QED
        BY <2>1, <2>3, <3>1, ElsewhereKeeps DEF storage
    <2> QED
      BY <1>2, <2>2, <2>3 DEF Land
  <1>3. ASSUME NEW p \in Person, SignIn(t, p) PROVE BrowserInv'
    BY <1>3, EnterKeeps DEF SignIn
  <1>4. ASSUME Logout(t) PROVE BrowserInv'
    <2>1. /\ ClearTokens(Tab) /\ signedOut' = TRUE /\ shown' = [shown EXCEPT ![t] = None]
          /\ calm' = (calm /\ (\A u \in Tab : ~Busy(u) /\ cont[u] = Quiet /\ (u # t => shown[u] = None)))
          /\ UNCHANGED <<marks, unreachable, page, ticket, job, cont, cookie, world>>
      BY <1>4 DEF Logout
    <2>2. Cleared(t)
      BY <1>1, <2>1, ClearedFor
    <2>3. calm' \in BOOLEAN /\ (calm' => calm)
      BY <1>1, <2>1 DEF BrowserTypeOK, Busy
    <2>4. /\ shown' \in [Tab -> Somebody] /\ \A u \in Tab : u # t => shown'[u] = shown[u]
      BY <1>1, <2>1, PartsTyped DEF BrowserTypeOK
    <2>5. /\ job' \in [Tab -> Jobs] /\ cont' \in [Tab -> Conts] /\ unreachable' \in [Tab -> BOOLEAN]
          /\ \A u \in Tab : job'[u] = job[u] /\ cont'[u] = cont[u]
      BY <1>1, <2>1 DEF BrowserTypeOK, Jobs, Conts
    <2>6. cont'[t].at = "idle" \/ ((KeepTokens \/ ~kept') /\ cont'[t] = cont[t])
      BY <2>1, PartsTyped DEF ClearTokens
    <2>7. access' = None
      BY <2>1 DEF ClearTokens
    <2>8. Turn(t)
      BY <2>2, <2>3, <2>4, <2>5, <2>6, <2>7 DEF Turn
    <2>9. Around'
      BY <1>1, <2>1 DEF Around, marks, world
    <2> QED
      BY <2>8, <2>9, TurnKeeps
  <1> QED
    BY <1>2, <1>3, <1>4

\* The world around: a token runs out, the provider and the server change.
LEMMA WorldKeeps ==
    ASSUME BrowserInv, TokenExpires \/ IdpChanges \/ GoDown \/ ComeUp
    PROVE  BrowserInv'
  <1>1. BrowserTypeOK /\ TicketsAndTokens /\ OneLock /\ Orderly /\ Around
    BY AroundNow DEF BrowserInv
  <1>2. ASSUME TokenExpires PROVE BrowserInv'
    <2>1. UNCHANGED <<refresh, signedOut, kept, marks, shown, unreachable, page, ticket, job, cont, cookie, calm>>
          /\ UNCHANGED world
      BY <1>2 DEF TokenExpires
    <2>2. access \in Token /\ access' = [access EXCEPT !.fresh = FALSE]
      BY <1>1, <1>2 DEF TokenExpires, BrowserTypeOK
    <2>3. access' \in Token /\ access'.who = access.who /\ access'.sso = access.sso
      BY <2>2 DEF Token
    <2>4. access' # None /\ access # None
      BY <2>2, <2>3, PartsTyped
    <2>5. BrowserTypeOK'
      BY <1>1, <2>1, <2>3 DEF BrowserTypeOK, marks, world
    <2>6. OneLock'
      BY <1>1, <2>1 DEF OneLock, Renewing
    <2>7. TicketsAndTokens'
      BY <1>1, <2>1, <2>3, <2>4 DEF TicketsAndTokens
    <2>8. Orderly'
      BY <1>1, <2>1, <2>3, <2>4 DEF Orderly, OrderlyAt
    <2> QED
      BY <2>5, <2>6, <2>7, <2>8 DEF BrowserInv
  <1>3. ASSUME IdpChanges \/ GoDown \/ ComeUp PROVE BrowserInv'
    <2>1. UNCHANGED <<storage, marks, shown, unreachable, page, ticket, job, cont, cookie, calm>>
      BY <1>3 DEF IdpChanges, GoDown, ComeUp
    <2>2. idp' \in Somebody /\ up' \in BOOLEAN
      BY <1>1, <1>3 DEF IdpChanges, GoDown, ComeUp, Around
    <2>3. outages' \in 0 .. MaxOutages
      BY <1>1, <1>3, BrowserAssumption DEF IdpChanges, GoDown, ComeUp, Around
    <2>4. Around'
      BY <1>1, <2>1, <2>2, <2>3 DEF Around, storage, marks
    <2> QED
      BY <2>1, <2>4, ElsewhereKeeps DEF storage
  <1> QED
    BY <1>2, <1>3

-----------------------------------------------------------------------------
(* The tabs together.                                                        *)

LEMMA BrowserStarts == BrowserInit => BrowserInv
  <1> SUFFICES ASSUME BrowserInit PROVE BrowserInv
    OBVIOUS
  <1>1. BrowserTypeOK
    <2>1. job \in [Tab -> Jobs]
      BY PartsTyped DEF BrowserInit, Jobs
    <2>2. cont \in [Tab -> Conts]
      BY PartsTyped DEF BrowserInit
    <2>3. /\ shown \in [Tab -> Somebody] /\ ticket \in [Tab -> Somebody]
          /\ access = None /\ refresh \in Somebody /\ cookie = None /\ idp \in Somebody
      BY PartsTyped DEF BrowserInit
    <2>4. tried \in [Tab -> BOOLEAN] /\ reloaded \in [Tab -> BOOLEAN] /\ unreachable \in [Tab -> BOOLEAN]
      BY DEF BrowserInit
    <2>5. page \in [Tab -> {"app", "trying", "login", "asking", "away", "landing"}]
      BY DEF BrowserInit
    <2>6. signedOut \in BOOLEAN /\ up \in BOOLEAN /\ calm \in BOOLEAN /\ kept \in BOOLEAN
      BY DEF BrowserInit
    <2>7. outages \in 0 .. MaxOutages
      BY BrowserAssumption DEF BrowserInit
    <2> QED
      BY <2>1, <2>2, <2>3, <2>4, <2>5, <2>6, <2>7 DEF BrowserTypeOK, Jobs, Conts
  <1>2. \A t \in Tab : cont[t].at = "idle"
    BY PartsTyped DEF BrowserInit
  <1>3. OneLock
    BY <1>2 DEF OneLock, Renewing
  <1>4. TicketsAndTokens
    BY <1>2 DEF TicketsAndTokens, BrowserInit
  <1>5. Orderly
    BY <1>2 DEF Orderly, OrderlyAt, BrowserInit
  <1> QED
    BY <1>1, <1>3, <1>4, <1>5 DEF BrowserInv

LEMMA BrowserStep == BrowserInv /\ [BrowserNext]_browser => BrowserInv'
  <1> SUFFICES ASSUME BrowserInv, [BrowserNext]_browser PROVE BrowserInv'
    OBVIOUS
  <1>1. ASSUME NEW t \in Tab,
               \/ View(t) \/ Reconnect(t) \/ Proceeds(t) \/ StartRenewal(t)
               \/ OpenLogin(t) \/ LeaveSilently(t) \/ PressButton(t) \/ ComeBack(t) \/ Land(t)
               \/ Logout(t) \/ Reload(t)
               \/ \E p \in Person : SignIn(t, p)
        PROVE  BrowserInv'
    <2>1. "view" \in Kind
      BY DEF Kind
    <2>2. CASE View(t) \/ Reconnect(t)
      BY <2>1, <2>2, RequestKeeps
    <2>3. CASE Proceeds(t)
      <3>1. CASE \E k \in Kind : Delivered(t, k) \/ Undelivered(t, k) \/ Expired(t, k) \/ RefusedAgain(t, k)
        BY <3>1, RequestKeeps
      <3> QED
        BY <2>3, <3>1, ContinueKeeps, RefreshedKeeps, LockKeeps, StillSignedInKeeps, RenewalKeeps,
           ExchangeKeeps DEF Proceeds
    <2>4. CASE StartRenewal(t)
      BY <2>4, LockKeeps
    <2>5. CASE \/ OpenLogin(t) \/ LeaveSilently(t) \/ PressButton(t) \/ ComeBack(t) \/ Reload(t)
      BY <2>5, PageKeeps
    <2>6. CASE Land(t) \/ Logout(t) \/ \E p \in Person : SignIn(t, p)
      BY <2>6, PeopleKeep
    <2> QED
      BY <1>1, <2>2, <2>3, <2>4, <2>5, <2>6
  <1>2. ASSUME UNCHANGED browser PROVE BrowserInv'
    <2>1. Around'
      BY <1>2, AroundStays DEF browser, storage
    <2> QED
      BY <1>2, <2>1, ElsewhereKeeps DEF browser, storage
  <1> QED
    BY <1>1, <1>2, WorldKeeps DEF BrowserNext

LEMMA BrowserInvariant == BrowserSpec => []BrowserInv
  <1>1. BrowserInit => BrowserInv
    BY BrowserStarts
  <1>2. BrowserInv /\ [BrowserNext]_browser => BrowserInv'
    BY BrowserStep
  <1> QED
    BY <1>1, <1>2, PTL DEF BrowserSpec

\* The types of the session's state hold, for any number of tabs and people
\* (store/AuthContext.tsx, services/api.ts).
THEOREM BrowserTypes == BrowserSpec => []BrowserTypeOK
  <1>1. BrowserInv => BrowserTypeOK
    BY DEF BrowserInv
  <1> QED
    BY <1>1, BrowserInvariant, PTL

\* As long as people come and go one after the other, and the tokens are not cleared under a
\* session that is being continued, no tab works with the tokens of somebody it does not show
\* (the lock, /still-signed-in and the exchange for the same person: silentRenewal.ts, renewal.py).
THEOREM TabsKeepTheirPerson == BrowserSpec => []ScreenKeepsItsPerson
  <1>1. ASSUME BrowserInv PROVE ScreenKeepsItsPerson
    <2> SUFFICES ASSUME calm, kept, NEW t \in Tab, shown[t] # None, access # None
                 PROVE  shown[t] = access.who
      BY DEF ScreenKeepsItsPerson, WorksForItsPerson
    <2>1. OrderlyAt(t)
      BY <1>1 DEF BrowserInv, Orderly
    <2> QED
      BY <2>1 DEF OrderlyAt
  <1>2. BrowserInv => ScreenKeepsItsPerson
    BY <1>1
  <1> QED
    BY <1>2, BrowserInvariant, PTL

\* The binding of a renewal that is out is lost to the page of a sign-in only: the lock keeps
\* the tabs from renewing over each other (navigator.locks in silentRenewal.ts).
THEOREM RenewalsTakeTurns == BrowserSpec => RenewalsDoNotClash
  <1>1. ASSUME BrowserInv, [BrowserNext]_browser, NEW t \in Tab,
               cont[t].at = "out", cont'[t].at = "out", cookie = <<"frame", t>>, cookie' # cookie
        PROVE  \E u \in Tab : page'[u] # page[u]
    <2>1. BrowserTypeOK /\ OneLock
      BY <1>1 DEF BrowserInv
    <2>2. cont \in [Tab -> Conts] /\ page \in [Tab -> {"app", "trying", "login", "asking", "away", "landing"}]
      BY <2>1 DEF BrowserTypeOK, Conts
    <2>3. ASSUME NEW u \in Tab, StartRenewal(u) PROVE u = t
      BY <1>1, <2>1, <2>3 DEF OneLock, Renewing, StartRenewal
    <2>4. ASSUME NEW u \in Tab, CompleteRenewal(u) PROVE FALSE
      <3>1. u = t
        BY <1>1, <2>1, <2>4 DEF OneLock, Renewing, CompleteRenewal
      <3>2. cont'[t].at # "out"
        BY <2>2, <2>4, <3>1, PartsTyped DEF CompleteRenewal, GiveUp, Drop
      <3> QED
        BY <1>1, <3>2
    <2>5. ASSUME NEW u \in Tab, StartRenewal(u) PROVE FALSE
      BY <1>1, <2>3, <2>5 DEF StartRenewal
    <2>6. ASSUME NEW u \in Tab, LeaveSilently(u) \/ PressButton(u) \/ ComeBack(u) PROVE page'[u] # page[u]
      BY <2>2, <2>6 DEF LeaveSilently, PressButton, ComeBack
    <2>7. \E u \in Tab : CompleteRenewal(u) \/ StartRenewal(u) \/ LeaveSilently(u) \/ PressButton(u)
                         \/ ComeBack(u)
      <3>1. ASSUME NEW u \in Tab,
                   \/ View(u) \/ Reconnect(u)
                   \/ \E k \in Kind : Delivered(u, k) \/ Undelivered(u, k) \/ Expired(u, k) \/ RefusedAgain(u, k)
                   \/ Continue(u) \/ Refreshed(u) \/ AcquireLock(u) \/ StillSignedIn(u)
                   \/ RenewalFails(u) \/ ExchangeRenewal(u)
            PROVE  cookie' = cookie
        BY <3>1 DEF View, Reconnect, Delivered, Undelivered, Expired, RefusedAgain, Continue, Refreshed,
           AcquireLock, StillSignedIn, RenewalFails, ExchangeRenewal
      <3>2. ASSUME NEW u \in Tab, OpenLogin(u) \/ Land(u) \/ Logout(u) \/ Reload(u) \/ (\E p \in Person : SignIn(u, p))
            PROVE  cookie' = cookie
        BY <3>2 DEF OpenLogin, Land, Logout, Reload, SignIn
      <3>3. ASSUME TokenExpires \/ IdpChanges \/ GoDown \/ ComeUp \/ UNCHANGED browser PROVE cookie' = cookie
        BY <3>3 DEF TokenExpires, IdpChanges, GoDown, ComeUp, browser
      <3> QED
        BY <1>1, <3>1, <3>2, <3>3 DEF BrowserNext, Proceeds
    <2> QED
      BY <2>4, <2>5, <2>6, <2>7
  <1>2. ASSUME BrowserInv, [BrowserNext]_browser
        PROVE  [\A t \in Tab :
                  cont[t].at = "out" /\ cont'[t].at = "out" /\ cookie = <<"frame", t>> /\ cookie' # cookie
                  => \E u \in Tab : page'[u] # page[u]]_browser
    BY <1>1, <1>2
  <1> QED
    BY <1>2, BrowserInvariant, PTL DEF BrowserSpec, RenewalsDoNotClash


-----------------------------------------------------------------------------
(* How often one tab is refused.                                             *)

\* A tab that is with the provider has nothing under way.
Gone(t) ==
    page[t] \in {"asking", "away"} =>
        /\ \A k \in Kind : job[t][k].at = "idle"
        /\ cont[t].at = "idle" /\ ~unreachable[t]
        /\ page[t] = "asking" => tried[t]

\* A session is continued for requests that wait.
KeptWaiting(t) == cont[t].at # "idle" => Waiting(t) # {}

Unanswered(t) == job[t]["view"].at \in {"sent", "joined"}

\* The tab shows somebody, or is finding out.
Looks(t) ==
    \/ shown[t] # None \/ unreachable[t]
    \/ job[t]["load"].at # "idle" \/ job[t]["me"].at # "idle"

\* A page is not left for the login page while one of its requests may still be refused.
Seen(t) ==
    /\ access # None /\ Unanswered(t) => Looks(t)
    /\ page[t] = "trying" /\ job[t]["view"].at # "idle" =>
          job[t]["load"].at = "idle" /\ job[t]["me"].at = "idle" /\ ~unreachable[t]
    /\ page[t] = "trying" /\ access # None => ~Unanswered(t)

Settled(t) == Gone(t) /\ KeptWaiting(t) /\ Seen(t)

InFrame(t) == cont[t].at \in {"wait", "still", "frame", "out"}
Leaving(t) == page[t] \in {"trying", "asking"}

\* A reloaded document asks as a page, or has asked, although the tab had tried.
Late(t) == again \/ (reloaded[t] /\ page[t] = "trying")

\* How often a tab that has been refused may be refused again before anything happens: as
\* a page, for a request of its screen, and for the question who is signed in, which ends
\* the tokens.
Left(t) ==
    IF access = None
    THEN (IF InFrame(t) THEN 1 ELSE 0) + (IF Leaving(t) THEN 1 ELSE 0)
    ELSE 1 + (IF Leaving(t) \/ Unanswered(t) THEN 1 ELSE 0)

AskInv ==
    /\ refusals \in Nat /\ again \in BOOLEAN
    /\ \A t \in Tab : Settled(t)
    /\ again => \A t \in Tab : ~reloaded[t]
    /\ refusals > 0 =>
          \A t \in Tab : tried[t] /\ refusals + Left(t) <= IF Late(t) THEN 3 ELSE 2

\* Nothing is left that was not before.
Quieter(t) ==
    /\ access' # None => access # None
    /\ InFrame(t)' /\ access' = None => InFrame(t) \/ access # None
    /\ Leaving(t)' => Leaving(t)
    /\ access' # None /\ Unanswered(t)' => Unanswered(t)

LEMMA QuieterLeaves ==
    ASSUME NEW t \in Tab, Quieter(t)
    PROVE  Left(t)' <= Left(t)
  BY DEF Quieter, Left

\* A reloaded document goes to the login page and will ask there.
AsksLate(t) ==
    /\ reloaded[t] /\ reloaded'[t] /\ page[t] = "app" /\ page'[t] = "trying"
    /\ Left(t)' <= Left(t) + 1

\* What a step of a tab does to the count.
Counted(t) ==
    /\ Settled(t)'
    /\ ~SomethingHappens /\ tried[t] => Quieter(t) \/ AsksLate(t)
    /\ ~SomethingHappens /\ IsRefused(t) => tried'[t] /\ Left(t)' <= 1 /\ (tried[t] => Left(t)' < Left(t))

LEMMA NotRefused ==
    ASSUME NEW t \in Tab, cookie' = cookie \/ cookie' # None
    PROVE  ~IsRefused(t)
  BY BrowserAssumption DEF IsRefused, Trip

\* The parts of a tab.
LEMMA TabParts ==
    ASSUME BrowserTypeOK, NEW t \in Tab
    PROVE  /\ job \in [Tab -> Jobs] /\ cont \in [Tab -> Conts]
           /\ \A k \in Kind : job[t][k] \in [at : {"idle", "sent", "joined", "again"}, as : Somebody]
           /\ shown \in [Tab -> Somebody] /\ unreachable \in [Tab -> BOOLEAN]
           /\ tried \in [Tab -> BOOLEAN] /\ reloaded \in [Tab -> BOOLEAN]
           /\ page \in [Tab -> {"app", "trying", "login", "asking", "away", "landing"}]
           /\ \A k \in Kind : k \in Waiting(t) <=> job[t][k].at = "joined"
           /\ Waiting(t) # {} => \/ job[t]["load"].at = "joined" \/ job[t]["me"].at = "joined"
                                 \/ job[t]["view"].at = "joined"
           /\ AskedWho(t) <=> (job[t]["load"].at = "joined" \/ job[t]["me"].at = "joined")
  BY DEF BrowserTypeOK, Jobs, Conts, Waiting, AskedWho, Kind

LEMMA DroppedParts ==
    ASSUME BrowserTypeOK, NEW t \in Tab, Drop(t)
    PROVE  /\ cont'[t].at = "idle"
           /\ \A k \in Kind : job'[t][k].at = IF job[t][k].at = "joined" THEN "idle" ELSE job[t][k].at
  <1> DEFINE n == [k \in Kind |-> IF k \in Waiting(t) THEN NoJob ELSE job[t][k]]
  <1>1. /\ job' = [job EXCEPT ![t] = n] /\ cont' = [cont EXCEPT ![t] = Quiet]
    BY DEF Drop
  <1>2. \A k \in Kind : n[k].at = IF job[t][k].at = "joined" THEN "idle" ELSE job[t][k].at
    BY TabParts, PartsTyped
  <1> HIDE DEF n
  <1> QED
    BY <1>1, <1>2, TabParts, PartsTyped

LEMMA AgainParts ==
    ASSUME BrowserTypeOK, NEW t \in Tab, NEW a,
           job' = [job EXCEPT ![t] = [k \in Kind |->
                     IF k \in Waiting(t) THEN [at |-> "again", as |-> a] ELSE @[k]]],
           cont' = [cont EXCEPT ![t] = Quiet]
    PROVE  /\ cont'[t].at = "idle"
           /\ \A k \in Kind : job'[t][k].at = IF job[t][k].at = "joined" THEN "again" ELSE job[t][k].at
  <1> DEFINE m == [at |-> "again", as |-> a]
             n == [k \in Kind |-> IF k \in Waiting(t) THEN m ELSE job[t][k]]
  <1>1. job' = [job EXCEPT ![t] = n]
    OBVIOUS
  <1>2. m.at = "again"
    OBVIOUS
  <1> HIDE DEF m
  <1>3. \A k \in Kind : n[k].at = IF job[t][k].at = "joined" THEN "again" ELSE job[t][k].at
    BY <1>2, TabParts
  <1> HIDE DEF n
  <1> QED
    BY <1>1, <1>3, TabParts, PartsTyped

\* Continued: the requests that waited are sent again.
LEMMA AgainSettles ==
    ASSUME BrowserTypeOK, NEW t \in Tab, Settled(t), cont[t].at # "idle",
           cont'[t].at = "idle", UNCHANGED <<page, shown, unreachable>>,
           \A k \in Kind : job'[t][k].at = IF job[t][k].at = "joined" THEN "again" ELSE job[t][k].at
    PROVE  Settled(t)' /\ ~InFrame(t)' /\ (Leaving(t)' => Leaving(t)) /\ (Unanswered(t)' => Unanswered(t))
  <1>1. "load" \in Kind /\ "me" \in Kind /\ "view" \in Kind
    BY DEF Kind
  <1>2. page[t] \notin {"asking", "away"}
    BY DEF Settled, Gone
  <1>3. \/ job[t]["load"].at = "joined" \/ job[t]["me"].at = "joined" \/ job[t]["view"].at = "joined"
    BY TabParts DEF Settled, KeptWaiting
  <1>4. Seen(t)'
    BY <1>1, <1>3 DEF Settled, Seen, Unanswered, Looks
  <1> QED
    BY <1>1, <1>2, <1>4 DEF Settled, Gone, KeptWaiting, Unanswered, InFrame, Leaving

\* Not continued: nothing of the tab waits any more.
LEMMA GaveUpSettles ==
    ASSUME BrowserTypeOK, NEW t \in Tab, NEW forget \in BOOLEAN, Settled(t), Waiting(t) # {},
           GiveUp(t, forget), UNCHANGED page
    PROVE  /\ Settled(t)' /\ Quieter(t) /\ ~InFrame(t)' /\ (Leaving(t)' <=> Leaving(t))
           /\ access' # None => access # None /\ Unanswered(t) /\ ~Unanswered(t)' /\ ~Leaving(t)
  <1>1. "load" \in Kind /\ "me" \in Kind /\ "view" \in Kind
    BY DEF Kind
  <1>2. /\ cont'[t].at = "idle"
        /\ \A k \in Kind : job'[t][k].at = IF job[t][k].at = "joined" THEN "idle" ELSE job[t][k].at
    BY DroppedParts DEF GiveUp
  <1>3. \/ job[t]["load"].at = "joined" \/ job[t]["me"].at = "joined" \/ job[t]["view"].at = "joined"
    BY TabParts
  <1>4. page[t] \notin {"asking", "away"}
    BY <1>1, <1>3 DEF Settled, Gone
  <1>5. access' # None => access' = access /\ ~AskedWho(t)
    BY DEF GiveUp, ClearTokens, KeepTokens
  <1>6. access' # None => access # None /\ Unanswered(t) /\ ~Unanswered(t)' /\ ~Leaving(t)
    <2>1. access' # None => job[t]["view"].at = "joined"
      BY <1>3, <1>5, TabParts
    <2> QED
      BY <1>1, <1>2, <1>4, <1>5, <2>1 DEF Unanswered, Leaving, Settled, Seen
  <1>7. page'[t] = page[t] /\ (unreachable'[t] => unreachable[t])
    BY TabParts DEF GiveUp
  <1>8. Seen(t)'
    BY <1>1, <1>2, <1>6, <1>7 DEF Settled, Seen, Leaving
  <1>9. Settled(t)'
    BY <1>2, <1>4, <1>7, <1>8 DEF Settled, Gone, KeptWaiting
  <1> QED
    BY <1>2, <1>6, <1>7, <1>9 DEF InFrame, Leaving, Quieter

LEMMA ThrewSettles ==
    ASSUME BrowserTypeOK, NEW t \in Tab, Settled(t), cont[t].at # "idle", Threw(t), UNCHANGED page
    PROVE  Settled(t)' /\ Quieter(t)
  <1>1. "load" \in Kind /\ "me" \in Kind /\ "view" \in Kind
    BY DEF Kind
  <1>2. /\ cont'[t].at = "idle"
        /\ \A k \in Kind : job'[t][k].at = IF job[t][k].at = "joined" THEN "idle" ELSE job[t][k].at
    BY DroppedParts DEF Threw
  <1>3. \/ job[t]["load"].at = "joined" \/ job[t]["me"].at = "joined" \/ job[t]["view"].at = "joined"
    BY TabParts DEF Settled, KeptWaiting
  <1>4. page[t] \notin {"asking", "away"}
    BY <1>1, <1>3 DEF Settled, Gone
  <1>5. /\ access' = access /\ page' = page /\ shown' = shown
        /\ unreachable'[t] <=> (unreachable[t] \/ job[t]["load"].at = "joined" \/ job[t]["me"].at = "joined")
    BY TabParts DEF Threw, KeepTokens
  <1>6. Seen(t)'
    BY <1>1, <1>2, <1>3, <1>5 DEF Settled, Seen, Unanswered, Looks
  <1> QED
    BY <1>1, <1>2, <1>4, <1>5, <1>6 DEF Settled, Gone, KeptWaiting, InFrame, Leaving, Quieter, Unanswered

\* One request of a tab changes.
LEMMA OneJobParts ==
    ASSUME BrowserTypeOK, NEW t \in Tab, NEW k \in Kind, NEW n, job' = [job EXCEPT ![t][k] = n]
    PROVE  job'[t][k] = n /\ \A j \in Kind : j # k => job'[t][j] = job[t][j]
  <1>1. job' = [job EXCEPT ![t] = [job[t] EXCEPT ![k] = n]]
    BY TabParts DEF Jobs
  <1> QED
    BY <1>1, TabParts DEF Jobs

\* A step with the same lock, page and tokens.
LEMMA RequestCounts ==
    ASSUME BrowserTypeOK, NEW t \in Tab, NEW k \in Kind, Settled(t),
           \/ View(t) \/ Reconnect(t) \/ Delivered(t, k) \/ Undelivered(t, k) \/ Expired(t, k)
           \/ RefusedAgain(t, k)
    PROVE  Counted(t)
  <1>1. "load" \in Kind /\ "me" \in Kind /\ "view" \in Kind /\ (k \in {"load", "me", "view"})
    BY DEF Kind
  <1>2. cookie' = cookie /\ page' = page /\ cont' = cont
    BY DEF View, Reconnect, Delivered, Undelivered, Expired, RefusedAgain
  <1>3. ~IsRefused(t)
    BY <1>2, NotRefused
  <1>4. job[t][k].at # "idle" => page[t] \notin {"asking", "away"}
    BY DEF Settled, Gone
  <1>5. NoJob.at = "idle"
    BY PartsTyped
  <1>6. ASSUME View(t) PROVE Counted(t)
    <2>1. SomethingHappens
      BY <1>6 DEF SomethingHappens
    <2> DEFINE n == [at |-> "sent", as |-> Header]
    <2>2. job' = [job EXCEPT ![t]["view"] = n] /\ n.at = "sent"
      BY <1>6 DEF View, Sent
    <2> HIDE DEF n
    <2>3. job'[t]["view"] = n /\ \A j \in Kind : j # "view" => job'[t][j] = job[t][j]
      BY <1>1, <2>2, OneJobParts
    <2>4. page[t] = "app" /\ shown[t] # None /\ job[t]["view"].at = "idle" /\ shown' = shown
      BY <1>5, <1>6 DEF View
    <2>5. KeptWaiting(t)'
      BY <1>2, <2>2, <2>3, <2>4, TabParts DEF Settled, KeptWaiting, Waiting
    <2> QED
      BY <1>2, <2>1, <2>4, <2>5 DEF Counted, Settled, Gone, Seen, Looks
  <1>7. ASSUME Reconnect(t) PROVE Counted(t)
    <2>1. unreachable[t] /\ unreachable' = unreachable /\ access' = access
      BY <1>7 DEF Reconnect, storage
    <2>2. page[t] \notin {"asking", "away"}
      BY <2>1 DEF Settled, Gone
    <2>3. \A j \in Kind : j # "me" => job'[t][j] = job[t][j]
      <3>1. CASE access = None
        BY <1>7, <3>1 DEF Reconnect
      <3>2. CASE access # None
        <4>1. job' = [job EXCEPT ![t]["me"] = [at |-> "sent", as |-> Header]]
          BY <1>7, <3>2 DEF Reconnect, Sent
        <4> QED
          BY <1>1, <4>1, OneJobParts
      <3> QED
        BY <3>1, <3>2
    <2>4. job[t]["me"].at = "idle"
      BY <1>5, <1>7 DEF Reconnect
    <2>5. KeptWaiting(t)'
      BY <1>2, <2>3, <2>4, TabParts DEF Settled, KeptWaiting, Waiting
    <2>6. Seen(t)' /\ (Unanswered(t)' => Unanswered(t))
      BY <1>1, <1>2, <2>1, <2>3 DEF Settled, Seen, Looks, Unanswered
    <2> QED
      BY <1>2, <1>3, <2>1, <2>2, <2>5, <2>6 DEF Counted, Settled, Gone, Quieter, InFrame, Leaving
  <1>8. ASSUME job' = [job EXCEPT ![t][k] = NoJob], job[t][k].at \in {"sent", "again"},
               access' # None => access' = access,
               k # "view" /\ access' # None => shown'[t] # None \/ unreachable'[t],
               k = "view" => UNCHANGED <<shown, unreachable>>
        PROVE  Counted(t)
    <2>0. job'[t][k] = NoJob /\ \A j \in Kind : j # k => job'[t][j] = job[t][j]
      BY <1>8, OneJobParts
    <2>1. job'[t][k].at = "idle" /\ \A j \in Kind : j # k => job'[t][j] = job[t][j]
      BY <1>5, <2>0
    <2>2. page[t] \notin {"asking", "away"}
      BY <1>4, <1>8
    <2>3. KeptWaiting(t)'
      BY <1>2, <1>8, <2>1, TabParts DEF Settled, KeptWaiting, Waiting
    <2>4. Seen(t)' /\ (Unanswered(t)' => Unanswered(t))
      BY <1>1, <1>2, <1>8, <2>1 DEF Settled, Seen, Looks, Unanswered
    <2> QED
      BY <1>2, <1>3, <1>8, <2>2, <2>3, <2>4 DEF Counted, Settled, Gone, Quieter, InFrame, Leaving
  <1>9. ASSUME Delivered(t, k) PROVE Counted(t)
    <2>1. k # "view" => shown'[t] # None
      BY <1>9, TabParts DEF Delivered
    <2> QED
      BY <1>8, <1>9, <2>1 DEF Delivered, storage
  <1>10. ASSUME Undelivered(t, k) PROVE Counted(t)
    <2>1. unreachable' = [unreachable EXCEPT ![t] = unreachable[t] \/ k # "view"] /\ shown' = shown
      BY <1>10 DEF Undelivered
    <2>2. k # "view" => unreachable'[t]
      BY <2>1, TabParts
    <2>3. k = "view" => unreachable' = unreachable
      BY <2>1, TabParts
    <2> QED
      BY <1>8, <1>10, <2>2, <2>3 DEF Undelivered, storage
  <1>11. ASSUME RefusedAgain(t, k) PROVE Counted(t)
    BY <1>8, <1>11 DEF RefusedAgain, KeepTokens, ClearTokens
  <1>12. ASSUME Expired(t, k) PROVE Counted(t)
    <2> DEFINE n == [job[t][k] EXCEPT !.at = "joined"]
    <2>1. job' = [job EXCEPT ![t][k] = n] /\ n.at = "joined" /\ job[t][k].at = "sent"
      BY <1>12, TabParts DEF Expired, Jobs
    <2> HIDE DEF n
    <2>2. job'[t][k].at = "joined" /\ \A j \in Kind : j # k => job'[t][j] = job[t][j]
      BY <2>1, OneJobParts
    <2>3. page[t] \notin {"asking", "away"} /\ UNCHANGED <<access, shown, unreachable>>
      BY <1>4, <1>12, <2>1 DEF Expired, storage
    <2>4. KeptWaiting(t)'
      BY <2>2 DEF KeptWaiting, Waiting
    <2>5. Seen(t)' /\ (Unanswered(t)' => Unanswered(t))
      BY <1>1, <1>2, <2>1, <2>2, <2>3 DEF Settled, Seen, Looks, Unanswered
    <2> QED
      BY <1>2, <1>3, <2>3, <2>4, <2>5 DEF Counted, Settled, Gone, Quieter, InFrame, Leaving
  <1> QED
    BY <1>6, <1>7, <1>9, <1>10, <1>11, <1>12

\* How far the tab is with continuing changes, and nothing else.
LEMMA GoesOnCounts ==
    ASSUME BrowserTypeOK, NEW t \in Tab, NEW n, Settled(t), Waiting(t) # {}, cont' = [cont EXCEPT ![t] = n],
           UNCHANGED <<access, shown, unreachable, job, page>>, ~IsRefused(t),
           n.at \in {"wait", "still", "frame", "out"} => InFrame(t) \/ access # None
    PROVE  Counted(t)
  <1>1. cont'[t] = n
    BY TabParts
  <1>2. page[t] \notin {"asking", "away"}
    BY TabParts DEF Settled, Gone, Kind
  <1>3. KeptWaiting(t)'
    BY DEF KeptWaiting, Waiting
  <1>4. Seen(t)' /\ (Unanswered(t)' <=> Unanswered(t))
    BY DEF Settled, Seen, Looks, Unanswered
  <1> QED
    BY <1>1, <1>2, <1>3, <1>4 DEF Counted, Settled, Gone, Quieter, InFrame, Leaving

\* Tokens are set for the session that was continued, and its requests are sent again.
LEMMA ResumeCounts ==
    ASSUME BrowserTypeOK, NEW t \in Tab, Settled(t), cont[t].at # "idle", Resume(t), UNCHANGED page,
           ~IsRefused(t), access' # None /\ access = None => SomethingHappens
    PROVE  Counted(t)
  <1> DEFINE a == IF access'.fresh THEN access'.who ELSE None
  <1>1. /\ job' = [job EXCEPT ![t] = [k \in Kind |->
                     IF k \in Waiting(t) THEN [at |-> "again", as |-> a] ELSE @[k]]]
        /\ cont' = [cont EXCEPT ![t] = Quiet]
        /\ UNCHANGED <<shown, unreachable>>
    BY DEF Resume
  <1> HIDE DEF a
  <1>2. /\ cont'[t].at = "idle"
        /\ \A k \in Kind : job'[t][k].at = IF job[t][k].at = "joined" THEN "again" ELSE job[t][k].at
    BY <1>1, AgainParts
  <1>3. Settled(t)' /\ ~InFrame(t)' /\ (Leaving(t)' => Leaving(t)) /\ (Unanswered(t)' => Unanswered(t))
    BY <1>1, <1>2, AgainSettles
  <1> QED
    BY <1>3 DEF Counted, Quieter

LEMMA ContinueCounts ==
    ASSUME BrowserTypeOK, NEW t \in Tab, Settled(t), Continue(t) \/ Refreshed(t)
    PROVE  Counted(t)
  <1>1. ~IsRefused(t) /\ page' = page
    BY NotRefused DEF Continue, Refreshed
  <1>2. Waiting(t) # {}
    BY DEF Continue, Refreshed, Settled, KeptWaiting
  <1>3. ASSUME NEW forget \in BOOLEAN, GiveUp(t, forget) PROVE Counted(t)
    BY <1>1, <1>2, <1>3, GaveUpSettles DEF Counted
  <1>4. ASSUME Continue(t) PROVE Counted(t)
    <2>1. CASE refresh # None
      <3> DEFINE n == [at |-> "refresh", who |-> refresh, with |-> None]
      <3>1. n.at = "refresh" /\ cont' = [cont EXCEPT ![t] = n] /\ UNCHANGED <<access, shown, unreachable, job>>
        BY <1>4, <2>1 DEF Continue, KeepTokens
      <3> HIDE DEF n
      <3> QED
        BY <1>1, <1>2, <3>1, GoesOnCounts
    <2>2. CASE refresh = None /\ (access = None \/ signedOut)
      BY <1>3, <1>4, <2>2 DEF Continue
    <2>3. CASE refresh = None /\ ~(access = None \/ signedOut)
      <3> DEFINE n == [cont[t] EXCEPT !.at = "wait"]
      <3>1. cont' = [cont EXCEPT ![t] = n] /\ UNCHANGED <<access, shown, unreachable, job>>
        BY <1>4, <2>3, TabParts DEF Continue, KeepTokens, Conts
      <3> HIDE DEF n
      <3> QED
        BY <1>1, <1>2, <2>3, <3>1, GoesOnCounts
    <2> QED
      BY <2>1, <2>2, <2>3
  <1>5. ASSUME Refreshed(t) PROVE Counted(t)
    <2>1. cont[t].at = "refresh"
      BY <1>5 DEF Refreshed
    <2>2. ASSUME SetTokens(cont[t].who, FALSE), Resume(t) PROVE Counted(t)
      <3>1. access' = [who |-> cont[t].who, sso |-> FALSE, fresh |-> TRUE]
        BY <2>2 DEF SetTokens
      <3>2. access' # None /\ access = None => SomethingHappens
        BY <3>1 DEF SomethingHappens
      <3> QED
        BY <1>1, <2>1, <2>2, <3>2, ResumeCounts
    <2>3. ASSUME Threw(t) PROVE Counted(t)
      BY <1>1, <2>1, <2>3, ThrewSettles DEF Counted
    <2> QED
      BY <1>3, <1>5, <2>2, <2>3 DEF Refreshed
  <1> QED
    BY <1>4, <1>5

\* Asking the provider in a frame.
LEMMA FrameCounts ==
    ASSUME BrowserTypeOK, NEW t \in Tab, Settled(t),
           \/ AcquireLock(t) \/ StillSignedIn(t) \/ StartRenewal(t) \/ CompleteRenewal(t)
           \/ RenewalFails(t) \/ ExchangeRenewal(t)
    PROVE  Counted(t)
  <1>1. page' = page /\ cont[t].at # "idle" /\ Waiting(t) # {}
    BY DEF AcquireLock, StillSignedIn, StartRenewal, CompleteRenewal, RenewalFails, ExchangeRenewal,
       Settled, KeptWaiting
  <1>2. ASSUME AcquireLock(t) PROVE Counted(t)
    <2> DEFINE n == [at |-> "still", who |-> None, with |-> Header]
    <2>1. cont' = [cont EXCEPT ![t] = n] /\ UNCHANGED <<access, shown, unreachable, job>> /\ InFrame(t)
      BY <1>2 DEF AcquireLock, storage, InFrame
    <2> HIDE DEF n
    <2> QED
      BY <1>1, <1>2, <2>1, NotRefused, GoesOnCounts DEF AcquireLock
  <1>3. ASSUME StartRenewal(t) PROVE Counted(t)
    <2> DEFINE n == [cont[t] EXCEPT !.at = "out"]
    <2>1. cont' = [cont EXCEPT ![t] = n] /\ UNCHANGED <<access, shown, unreachable, job>> /\ InFrame(t)
      BY <1>3, TabParts DEF StartRenewal, storage, InFrame, Conts
    <2>2. cookie' # None
      BY <1>3, BrowserAssumption DEF StartRenewal, Trip
    <2> HIDE DEF n
    <2> QED
      BY <1>1, <2>1, <2>2, NotRefused, GoesOnCounts
  <1>4. ASSUME StillSignedIn(t) PROVE Counted(t)
    <2>1. ~IsRefused(t) /\ access' = access /\ cont[t].at = "still"
      BY <1>4, NotRefused DEF StillSignedIn, Threw, KeepTokens
    <2>2. ASSUME job' = [job EXCEPT ![t] = [k \in Kind |->
                       IF k \in Waiting(t) THEN [at |-> "again", as |-> None] ELSE @[k]]],
                 cont' = [cont EXCEPT ![t] = Quiet], UNCHANGED <<shown, unreachable>>
          PROVE  Counted(t)
      <3>1. /\ cont'[t].at = "idle"
            /\ \A k \in Kind : job'[t][k].at = IF job[t][k].at = "joined" THEN "again" ELSE job[t][k].at
        BY <2>2, AgainParts
      <3>2. Settled(t)' /\ ~InFrame(t)' /\ (Leaving(t)' => Leaving(t)) /\ (Unanswered(t)' => Unanswered(t))
        BY <1>1, <2>2, <3>1, AgainSettles
      <3> QED
        BY <2>1, <3>2 DEF Counted, Quieter
    <2>3. ASSUME cont' = [cont EXCEPT ![t] = [at |-> "frame", who |-> None, with |-> None]],
                 UNCHANGED <<shown, unreachable, job>>
          PROVE  Counted(t)
      <3> DEFINE n == [at |-> "frame", who |-> None, with |-> None]
      <3>1. cont' = [cont EXCEPT ![t] = n] /\ InFrame(t)
        BY <2>1, <2>3 DEF InFrame
      <3> HIDE DEF n
      <3> QED
        BY <1>1, <2>1, <2>3, <3>1, GoesOnCounts
    <2>4. ASSUME Resume(t) PROVE Counted(t)
      BY <1>1, <2>1, <2>4, ResumeCounts
    <2>5. ASSUME Threw(t) PROVE Counted(t)
      BY <1>1, <2>1, <2>5, ThrewSettles DEF Counted
    <2> QED
      BY <1>4, <2>2, <2>3, <2>4, <2>5 DEF StillSignedIn
  <1>5. ASSUME CompleteRenewal(t) PROVE Counted(t)
    <2>1. cont[t].at = "out" /\ InFrame(t)
      BY <1>5 DEF CompleteRenewal, InFrame
    <2>2. ASSUME cookie = <<"frame", t>>, idp # None, UNCHANGED <<shown, unreachable, job>>, KeepTokens,
                 cont' = [cont EXCEPT ![t] = [at |-> "exchange", who |-> idp, with |-> ContinuedUser]]
          PROVE  Counted(t)
      <3> DEFINE n == [at |-> "exchange", who |-> idp, with |-> ContinuedUser]
      <3>1. cont' = [cont EXCEPT ![t] = n] /\ access' = access /\ ~IsRefused(t)
        BY <2>2 DEF KeepTokens, IsRefused
      <3> HIDE DEF n
      <3> QED
        BY <1>1, <2>1, <2>2, <3>1, GoesOnCounts
    <2>3. ASSUME MarkTried(t), GiveUp(t, FALSE) PROVE Counted(t)
      <3>1. /\ Settled(t)' /\ Quieter(t) /\ ~InFrame(t)' /\ (Leaving(t)' <=> Leaving(t))
            /\ access' # None => access # None /\ Unanswered(t) /\ ~Unanswered(t)' /\ ~Leaving(t)
        BY <1>1, <2>3, GaveUpSettles
      <3>2. tried'[t]
        BY <2>3, TabParts DEF MarkTried
      <3>3. Left(t)' <= 1 /\ Left(t)' < Left(t)
        BY <2>1, <3>1 DEF Left
      <3> QED
        BY <3>1, <3>2, <3>3 DEF Counted
    <2>4. ASSUME cookie # <<"frame", t>>, GiveUp(t, FALSE) PROVE Counted(t)
      BY <1>1, <2>4, GaveUpSettles DEF Counted, IsRefused
    <2> QED
      BY <1>5, <2>2, <2>3, <2>4 DEF CompleteRenewal
  <1>6. ASSUME RenewalFails(t) PROVE Counted(t)
    BY <1>1, <1>6, NotRefused, GaveUpSettles DEF RenewalFails, Counted
  <1>7. ASSUME ExchangeRenewal(t) PROVE Counted(t)
    <2>1. ~IsRefused(t)
      BY <1>7, NotRefused DEF ExchangeRenewal
    <2>2. ASSUME SetTokens(cont[t].who, TRUE), Resume(t) PROVE Counted(t)
      <3>1. access' = [who |-> cont[t].who, sso |-> TRUE, fresh |-> TRUE]
        BY <2>2 DEF SetTokens
      <3>2. access' # None /\ access = None => SomethingHappens
        BY <3>1 DEF SomethingHappens
      <3> QED
        BY <1>1, <2>1, <2>2, <3>2, ResumeCounts
    <2>3. ASSUME GiveUp(t, FALSE) PROVE Counted(t)
      BY <1>1, <2>1, <2>3, GaveUpSettles DEF Counted
    <2>4. ASSUME Threw(t) PROVE Counted(t)
      BY <1>1, <2>1, <2>4, ThrewSettles DEF Counted
    <2> QED
      BY <1>7, <2>2, <2>3, <2>4 DEF ExchangeRenewal
  <1> QED
    BY <1>2, <1>3, <1>4, <1>5, <1>6, <1>7

\* A page that opens has at most one request under way, the question who is signed in.
LEMMA LoadParts ==
    ASSUME BrowserTypeOK, NEW t \in Tab, Load(t) \/ Unload(t)
    PROVE  /\ cont'[t].at = "idle" /\ ~unreachable'[t]
           /\ \A k \in Kind : k # "load" => job'[t][k].at = "idle"
           /\ Unload(t) => job'[t]["load"].at = "idle"
  <1> DEFINE m == [at |-> "sent", as |-> Header]
             n == [k \in Kind |-> IF k = "load" /\ access # None THEN m ELSE NoJob]
             e == [k \in Kind |-> NoJob]
  <1>1. /\ \A k \in Kind : k # "load" => n[k] = NoJob
        /\ \A k \in Kind : e[k] = NoJob
    OBVIOUS
  <1>2. /\ Load(t) => job' = [job EXCEPT ![t] = n]
        /\ Unload(t) => job' = [job EXCEPT ![t] = e]
    BY DEF Load, Unload
  <1> HIDE DEF m, n, e
  <1>3. cont' = [cont EXCEPT ![t] = Quiet] /\ unreachable' = [unreachable EXCEPT ![t] = FALSE]
    BY DEF Load, Unload
  <1> QED
    BY <1>1, <1>2, <1>3, TabParts, PartsTyped DEF Kind

LEMMA PageCounts ==
    ASSUME BrowserTypeOK, NEW t \in Tab, Settled(t),
           \/ OpenLogin(t) \/ LeaveSilently(t) \/ PressButton(t) \/ ComeBack(t) \/ Reload(t)
    PROVE  Counted(t)
  <1>1. "load" \in Kind /\ "me" \in Kind /\ "view" \in Kind
    BY DEF Kind
  <1>2. ASSUME OpenLogin(t) PROVE Counted(t)
    <2>1. /\ shown[t] = None /\ ~unreachable[t] /\ job[t]["load"].at = "idle" /\ job[t]["me"].at = "idle"
          /\ UNCHANGED <<marks, shown, unreachable, job, cont>> /\ access' = access /\ ~IsRefused(t)
      BY <1>2, NotRefused, PartsTyped DEF OpenLogin, storage
    <2>2. page[t] = "app" /\ page'[t] = IF MaySilentSso(t) THEN "trying" ELSE "login"
      BY <1>2, TabParts DEF OpenLogin
    <2>3. access # None => ~Unanswered(t)
      BY <2>1 DEF Settled, Seen, Looks
    <2>4. Gone(t)' /\ KeptWaiting(t)' /\ (Unanswered(t)' <=> Unanswered(t))
      BY <2>1, <2>2 DEF Settled, Gone, KeptWaiting, Waiting, Unanswered
    <2>5. Seen(t)'
      BY <2>1, <2>3, <2>4 DEF Seen
    <2>6. tried[t] /\ ~reloaded[t] => Quieter(t)
      BY <2>1, <2>2, <2>4 DEF Quieter, InFrame, Leaving, MaySilentSso
    <2>7. page'[t] = "login" => Quieter(t)
      BY <2>1, <2>4 DEF Quieter, InFrame, Leaving
    <2>8. ~Leaving(t) /\ (InFrame(t)' <=> InFrame(t))
      BY <2>1, <2>2 DEF Leaving, InFrame
    <2>9. Left(t)' <= Left(t) + 1
      BY <2>1, <2>3, <2>4, <2>8 DEF Left
    <2>10. reloaded[t] /\ page'[t] = "trying" => AsksLate(t)
      BY <2>1, <2>2, <2>9 DEF AsksLate, marks
    <2> QED
      BY <2>1, <2>2, <2>4, <2>5, <2>6, <2>7, <2>10 DEF Counted, Settled
  <1>3. ASSUME LeaveSilently(t) PROVE Counted(t)
    <2>1. cont'[t].at = "idle" /\ ~unreachable'[t] /\ \A k \in Kind : job'[t][k].at = "idle"
      BY <1>3, LoadParts DEF LeaveSilently
    <2>2. page'[t] = "asking" /\ page[t] = "trying" /\ tried'[t] /\ access' = access
      BY <1>3, TabParts DEF LeaveSilently, MarkTried, storage
    <2>3. ~IsRefused(t)
      BY <1>3, BrowserAssumption, NotRefused DEF LeaveSilently, Trip
    <2>4. Settled(t)'
      BY <1>1, <2>1, <2>2 DEF Settled, Gone, KeptWaiting, Seen, Unanswered
    <2> QED
      BY <1>1, <2>1, <2>2, <2>3, <2>4 DEF Counted, Quieter, InFrame, Leaving, Unanswered
  <1>4. ASSUME PressButton(t) \/ Reload(t) PROVE Counted(t)
    <2>1. /\ cont'[t].at = "idle" /\ ~unreachable'[t]
          /\ \A k \in Kind : k # "load" => job'[t][k].at = "idle"
          /\ PressButton(t) => job'[t]["load"].at = "idle"
      BY <1>4, LoadParts DEF PressButton, Reload
    <2>2. /\ PressButton(t) => page'[t] = "away"
          /\ Reload(t) => page'[t] \in {"app", "trying", "login"}
      BY <1>4, TabParts DEF PressButton, Reload
    <2>3. SomethingHappens
      BY <1>4 DEF SomethingHappens
    <2>4. Gone(t)'
      BY <1>4, <2>1, <2>2 DEF Gone
    <2>5. KeptWaiting(t)' /\ ~Unanswered(t)' /\ job'[t]["view"].at = "idle"
      BY <1>1, <2>1 DEF KeptWaiting, Unanswered
    <2> QED
      BY <2>3, <2>4, <2>5 DEF Counted, Settled, Seen
  <1>5. ASSUME ComeBack(t) PROVE Counted(t)
    <2>1. /\ cont'[t].at = "idle" /\ ~unreachable'[t]
          /\ \A k \in Kind : k # "load" => job'[t][k].at = "idle"
      BY <1>5, LoadParts DEF ComeBack
    <2>2. /\ page'[t] \in {"landing", "login"} /\ page[t] \in {"asking", "away"}
          /\ access' = access /\ tried' = tried
      BY <1>5, TabParts DEF ComeBack, storage, marks
    <2>3. Settled(t)' /\ ~InFrame(t)' /\ ~Leaving(t)' /\ ~Unanswered(t)'
      BY <1>1, <2>1, <2>2 DEF Settled, Gone, KeptWaiting, Seen, Unanswered, InFrame, Leaving
    <2>4. Quieter(t)
      BY <2>2, <2>3 DEF Quieter
    <2>5. ASSUME IsRefused(t) PROVE page[t] = "asking" /\ tried[t]
      <3>1. cont[t].at = "idle"
        BY <2>2 DEF Settled, Gone
      <3>2. page[t] = "asking"
        BY <2>5, <3>1 DEF IsRefused
      <3> QED
        BY <3>2 DEF Settled, Gone
    <2>6. ASSUME IsRefused(t) PROVE Left(t)' <= 1 /\ Left(t)' < Left(t)
      <3>1. Leaving(t)
        BY <2>5, <2>6 DEF Leaving
      <3> QED
        BY <2>2, <2>3, <3>1 DEF Left
    <2> QED
      BY <2>2, <2>3, <2>4, <2>5, <2>6 DEF Counted
  <1> QED
    BY <1>2, <1>3, <1>4, <1>5

LEMMA PeopleCount ==
    ASSUME BrowserTypeOK, NEW t \in Tab, Settled(t), Land(t) \/ Logout(t) \/ (\E p \in Person : SignIn(t, p))
    PROVE  Counted(t)
  <1>1. "load" \in Kind /\ "me" \in Kind /\ "view" \in Kind
    BY DEF Kind
  <1>2. ~IsRefused(t)
    BY NotRefused DEF Land, Logout, SignIn
  <1>3. ASSUME NEW p \in Person, NEW sso \in BOOLEAN, Enter(t, p, sso), job[t]["me"] = NoJob,
               UNCHANGED <<shown, unreachable, cont>>
        PROVE  Settled(t)' /\ page'[t] = "app" /\ (tried[t] => SomethingHappens)
    <2> DEFINE n == [at |-> "sent", as |-> p]
    <2>1. job' = [job EXCEPT ![t]["me"] = n] /\ n.at = "sent"
      BY <1>3 DEF Enter
    <2> HIDE DEF n
    <2>2. job'[t]["me"] = n /\ \A k \in Kind : k # "me" => job'[t][k] = job[t][k]
      BY <1>1, <2>1, OneJobParts
    <2>3. page'[t] = "app" /\ ~tried'[t]
      BY <1>3, TabParts DEF Enter, ClearMarks
    <2>4. KeptWaiting(t)'
      BY <1>3, <2>2, TabParts, PartsTyped DEF Settled, KeptWaiting, Waiting
    <2>5. Looks(t)'
      BY <2>1, <2>2 DEF Looks
    <2> QED
      BY <2>3, <2>4, <2>5 DEF Settled, Gone, Seen, SomethingHappens
  <1>4. ASSUME Land(t) PROVE Counted(t)
    <2>1. UNCHANGED <<shown, unreachable, cont>> /\ page[t] = "landing"
      BY <1>4 DEF Land
    <2>2. ASSUME Enter(t, ticket[t], TRUE), job[t]["me"] = NoJob PROVE Counted(t)
      <3> DEFINE n == [at |-> "sent", as |-> ticket[t]]
      <3>1. job' = [job EXCEPT ![t]["me"] = n] /\ n.at = "sent"
        BY <2>2 DEF Enter
      <3> HIDE DEF n
      <3>2. job'[t]["me"] = n /\ \A k \in Kind : k # "me" => job'[t][k] = job[t][k]
        BY <1>1, <3>1, OneJobParts
      <3>3. page'[t] = "app"
        BY <2>2, TabParts DEF Enter
      <3>4. SomethingHappens
        BY <2>1, <3>3 DEF SomethingHappens
      <3>5. KeptWaiting(t)'
        BY <2>1, <2>2, <3>2, TabParts, PartsTyped DEF Settled, KeptWaiting, Waiting
      <3>6. Looks(t)'
        BY <3>1, <3>2 DEF Looks
      <3> QED
        BY <3>3, <3>4, <3>5, <3>6 DEF Counted, Settled, Gone, Seen
    <2>3. ASSUME page' = [page EXCEPT ![t] = "login"], UNCHANGED <<storage, tried, job, calm>>
          PROVE  Counted(t)
      <3>1. page'[t] = "login" /\ access' = access /\ job' = job
        BY <2>3, TabParts DEF storage
      <3>2. Settled(t)' /\ (Unanswered(t)' <=> Unanswered(t))
        BY <2>1, <3>1 DEF Settled, Gone, KeptWaiting, Waiting, Seen, Looks, Unanswered
      <3> QED
        BY <1>2, <2>1, <3>1, <3>2 DEF Counted, Quieter, InFrame, Leaving
    <2> QED
      BY <1>4, <2>2, <2>3 DEF Land
  <1>5. ASSUME NEW p \in Person, SignIn(t, p) PROVE Counted(t)
    <2>1. Settled(t)' /\ (tried[t] => SomethingHappens)
      BY <1>3, <1>5 DEF SignIn
    <2> QED
      BY <1>2, <2>1 DEF Counted
  <1>6. ASSUME Logout(t) PROVE Counted(t)
    <2>1. page[t] = "app" /\ page' = page /\ access' = None /\ UNCHANGED <<unreachable, job, cont>>
      BY <1>6 DEF Logout, ClearTokens
    <2>2. access # None \/ (InFrame(t)' => InFrame(t))
      BY <2>1 DEF InFrame
    <2>3. Settled(t)'
      BY <2>1 DEF Settled, Gone, KeptWaiting, Waiting, Seen
    <2> QED
      BY <1>2, <2>1, <2>2, <2>3 DEF Counted, Quieter, Leaving
  <1> QED
    BY <1>4, <1>5, <1>6

LEMMA WorldCounts ==
    ASSUME BrowserTypeOK, NEW t \in Tab, Settled(t), TokenExpires \/ IdpChanges \/ GoDown \/ ComeUp
    PROVE  Counted(t)
  <1>1. UNCHANGED <<marks, shown, unreachable, page, job, cont, cookie>> /\ (access' # None => access # None)
        /\ (access # None => access' # None)
    <2>1. CASE TokenExpires
      <3>1. access \in Token /\ access' = [access EXCEPT !.fresh = FALSE]
        BY <2>1 DEF TokenExpires, BrowserTypeOK
      <3>2. access' \in Token
        BY <3>1 DEF Token
      <3> QED
        BY <2>1, <3>1, <3>2, PartsTyped DEF TokenExpires
    <2>2. CASE IdpChanges \/ GoDown \/ ComeUp
      BY <2>2 DEF IdpChanges, GoDown, ComeUp, storage
    <2> QED
      BY <2>1, <2>2
  <1>2. ~IsRefused(t)
    BY <1>1, NotRefused
  <1>3. Settled(t)' /\ (Unanswered(t)' <=> Unanswered(t))
    BY <1>1 DEF Settled, Gone, KeptWaiting, Waiting, Seen, Looks, Unanswered, marks
  <1> QED
    BY <1>1, <1>2, <1>3 DEF Counted, Quieter, InFrame, Leaving, marks

-----------------------------------------------------------------------------
(* Refusals are taken.                                                       *)

LEMMA AskStarts ==
    ASSUME BrowserInit, refusals = 0, again = FALSE
    PROVE  AskInv
  <1>1. \A t \in Tab : page[t] = "app" /\ cont[t].at = "idle" /\ \A k \in Kind : job[t][k].at = "idle"
    BY PartsTyped DEF BrowserInit
  <1>2. \A t \in Tab : Settled(t)
    BY <1>1 DEF Settled, Gone, KeptWaiting, Seen, Unanswered, Kind
  <1>3. again \in BOOLEAN /\ ~again
    OBVIOUS
  <1>4. refusals \in Nat /\ ~(refusals > 0)
    OBVIOUS
  <1> QED
    BY <1>2, <1>3, <1>4 DEF AskInv

\* A document that a reload has opened stays, or leaves for the provider.
LEMMA ReloadsStay ==
    ASSUME NEW t \in Tab, Tab = {t}, BrowserTypeOK, BrowserNext, ~SomethingHappens
    PROVE  /\ reloaded'[t] => reloaded[t]
           /\ AsksAgain => ~reloaded'[t]
           /\ reloaded[t] /\ page[t] = "trying" =>
                 (reloaded'[t] /\ page'[t] = "trying") \/ AsksAgain
  <1>1. CASE LeaveSilently(t)
    <2>1. page[t] = "trying" /\ page'[t] = "asking" /\ ~reloaded'[t]
      BY <1>1, TabParts DEF LeaveSilently, Unload
    <2> QED
      BY <2>1 DEF AsksAgain
  <1>2. ~Reload(t) /\ ~PressButton(t) /\ ~View(t)
    BY DEF SomethingHappens
  <1>3. ASSUME reloaded' = reloaded, page' = page \/ page[t] # "trying"
        PROVE  /\ reloaded'[t] => reloaded[t]
               /\ AsksAgain => ~reloaded'[t]
               /\ reloaded[t] /\ page[t] = "trying" =>
                     (reloaded'[t] /\ page'[t] = "trying") \/ AsksAgain
    BY <1>3 DEF AsksAgain
  <1>4. CASE Reconnect(t) \/ Proceeds(t) \/ StartRenewal(t) \/ Logout(t)
    <2>1. reloaded' = reloaded /\ page' = page
      BY <1>4 DEF Reconnect, Proceeds, StartRenewal, Logout, Delivered, Undelivered, Expired,
         RefusedAgain, Continue, Refreshed, AcquireLock, StillSignedIn, CompleteRenewal,
         RenewalFails, ExchangeRenewal, marks
    <2> QED
      BY <1>3, <2>1
  <1>5. CASE OpenLogin(t) \/ ComeBack(t) \/ Land(t) \/ \E p \in Person : SignIn(t, p)
    <2>1. reloaded' = reloaded /\ page[t] # "trying"
      BY <1>5 DEF OpenLogin, ComeBack, Land, SignIn, marks
    <2> QED
      BY <1>3, <2>1
  <1>6. CASE TokenExpires \/ IdpChanges \/ GoDown \/ ComeUp
    <2>1. reloaded' = reloaded /\ page' = page
      BY <1>6 DEF TokenExpires, IdpChanges, GoDown, ComeUp, marks
    <2> QED
      BY <1>3, <2>1
  <1>7. \A u \in Tab : u = t
    OBVIOUS
  <1> QED
    BY <1>1, <1>2, <1>4, <1>5, <1>6, <1>7 DEF BrowserNext

\* With one tab, every step is its own or the world's.
LEMMA AskStep ==
    ASSUME NEW t \in Tab, Tab = {t}, BrowserTypeOK, AskInv,
           [BrowserNext /\ CountRefusals]_<<browser, refusals, again>>
    PROVE  AskInv'
  <1>1. /\ Settled(t) /\ refusals \in Nat /\ again \in BOOLEAN /\ (again => ~reloaded[t])
        /\ refusals > 0 => tried[t] /\ refusals + Left(t) <= IF Late(t) THEN 3 ELSE 2
    BY DEF AskInv
  <1>2. ASSUME BrowserNext, CountRefusals PROVE AskInv'
    <2>1. Counted(t)
      <3>1. ASSUME NEW u \in Tab,
                   \/ View(u) \/ Reconnect(u) \/ Proceeds(u) \/ StartRenewal(u)
                   \/ OpenLogin(u) \/ LeaveSilently(u) \/ PressButton(u) \/ ComeBack(u) \/ Land(u)
                   \/ Logout(u) \/ Reload(u)
                   \/ \E p \in Person : SignIn(u, p)
            PROVE  Counted(t)
        <4>1. u = t /\ "view" \in Kind
          BY DEF Kind
        <4>2. CASE View(t) \/ Reconnect(t)
          BY <1>1, <4>1, <4>2, RequestCounts
        <4>3. CASE Proceeds(t)
          <5>1. CASE \E k \in Kind : Delivered(t, k) \/ Undelivered(t, k) \/ Expired(t, k) \/ RefusedAgain(t, k)
            BY <1>1, <5>1, RequestCounts
          <5> QED
            BY <1>1, <4>3, <5>1, ContinueCounts, FrameCounts DEF Proceeds
        <4>4. CASE StartRenewal(t)
          BY <1>1, <4>4, FrameCounts
        <4>5. CASE \/ OpenLogin(t) \/ LeaveSilently(t) \/ PressButton(t) \/ ComeBack(t) \/ Reload(t)
          BY <1>1, <4>5, PageCounts
        <4>6. CASE Land(t) \/ Logout(t) \/ (\E p \in Person : SignIn(t, p))
          BY <1>1, <4>6, PeopleCount
        <4> QED
          BY <3>1, <4>1, <4>2, <4>3, <4>4, <4>5, <4>6
      <3> QED
        BY <1>1, <1>2, <3>1, WorldCounts DEF BrowserNext
    <2>2. (\E u \in Tab : IsRefused(u)) <=> IsRefused(t)
      OBVIOUS
    <2>3. refusals' = IF SomethingHappens THEN 0 ELSE IF IsRefused(t) THEN refusals + 1 ELSE refusals
      BY <1>2, <2>2 DEF CountRefusals
    <2>4. Left(t) \in 0 .. 2 /\ Left(t)' \in 0 .. 2
      BY DEF Left
    <2>5. tried[t] /\ ~SomethingHappens => tried'[t]
      BY DEF SomethingHappens
    <2>6. tried[t] /\ ~SomethingHappens => Left(t)' <= Left(t) \/ AsksLate(t)
      BY <2>1, QuieterLeaves DEF Counted
    <2>7. again' = (~SomethingHappens /\ (again \/ AsksAgain))
      BY <1>2 DEF CountRefusals
    <2>8. ~SomethingHappens => (again' => ~reloaded'[t]) /\ (Late(t) => Late(t)')
      BY <1>1, <1>2, <2>7, ReloadsStay DEF Late
    <2>9. AsksLate(t) => Late(t)' /\ ~Late(t) /\ Left(t)' <= Left(t) + 1
      BY <1>1 DEF AsksLate, Late
    <2>10. /\ refusals' \in Nat
           /\ refusals' > 0 => tried'[t] /\ refusals' + Left(t)' <= IF Late(t)' THEN 3 ELSE 2
      <3>1. CASE SomethingHappens
        BY <2>3, <3>1
      <3>2. CASE ~SomethingHappens /\ IsRefused(t)
        <4>1. refusals' = refusals + 1 /\ tried'[t] /\ Left(t)' <= 1 /\ (tried[t] => Left(t)' < Left(t))
          BY <2>1, <2>3, <3>2 DEF Counted
        <4>2. CASE refusals = 0
          BY <2>4, <4>1, <4>2
        <4>3. CASE refusals > 0
          BY <1>1, <2>4, <2>8, <3>2, <4>1, <4>3
        <4> QED
          BY <1>1, <4>2, <4>3
      <3>3. CASE ~SomethingHappens /\ ~IsRefused(t)
        <4>1. refusals' = refusals /\ (refusals > 0 => tried[t] /\ tried'[t])
          BY <1>1, <2>3, <2>5, <3>3
        <4>2. CASE AsksLate(t)
          BY <1>1, <2>4, <2>9, <4>1, <4>2
        <4>3. CASE ~AsksLate(t)
          BY <1>1, <2>4, <2>6, <2>8, <3>3, <4>1, <4>3
        <4> QED
          BY <4>2, <4>3
      <3> QED
        BY <3>1, <3>2, <3>3
    <2>11. Settled(t)'
      BY <2>1 DEF Counted
    <2> QED
      BY <2>10, <2>11, <2>7, <2>8 DEF AskInv
  <1>3. ASSUME UNCHANGED <<browser, refusals, again>> PROVE AskInv'
    BY <1>3 DEF browser, storage, marks, AskInv, Late, Settled, Gone, KeptWaiting, Waiting, Seen,
       Looks, Unanswered, Left, InFrame, Leaving
  <1> QED
    BY <1>2, <1>3

\* A browser with one tab does not go round in circles between the login page, the provider
\* and the frames, for any number of people and outages: refused twice, or three times if a
\* document that somebody has reloaded asked as a page, it waits for somebody to do something
\* (silentSso.ts, LoginPage.tsx, api.ts: continueSession).
THEOREM NoRoundInCircles ==
    ASSUME NEW t \in Tab, Tab = {t}
    PROVE  CountingSpec => []RefusalsAreTaken
  <1>1. CountingSpec => BrowserSpec
    <2>1. [BrowserNext /\ CountRefusals]_<<browser, refusals, again>> => [BrowserNext]_browser
      OBVIOUS
    <2> QED
      BY <2>1, PTL DEF CountingSpec, BrowserSpec
  <1>2. CountingSpec => []BrowserTypeOK
    BY <1>1, BrowserTypes, PTL
  <1>3. BrowserInit /\ refusals = 0 /\ again = FALSE => AskInv
    BY AskStarts
  <1>4. BrowserTypeOK /\ AskInv /\ [BrowserNext /\ CountRefusals]_<<browser, refusals, again>> => AskInv'
    BY AskStep
  <1>5. AskInv => RefusalsAreTaken
    <2>1. Left(t) \in 0 .. 2 /\ (page[t] = "trying" => Left(t) >= 1)
      BY DEF Left, Leaving
    <2> QED
      BY <2>1 DEF AskInv, Late, RefusalsAreTaken
  <1> QED
    BY <1>2, <1>3, <1>4, <1>5, PTL DEF CountingSpec
=============================================================================
