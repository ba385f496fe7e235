# Reward points: a TLA+ verification project

`rewardpointsweb` is a family web application: parents run a family, children
hold point ledgers, parents record points, promise a daily bonus and put
stickers on reward cards. The server is Python (FastAPI, SQLAlchemy, MariaDB)
and runs several worker processes, each with a pool of request threads and one
background thread. This directory holds TLA+ models of the parts of that server
where concurrency, failure and time decide what is right, the TLC
configurations that check them on small instances, and theorems about them that
TLAPS checks for every value of the constants.

Paths below are relative to the repository (`src/` in `PROJECT.json`);
`reward_points/` stands for `bounded_contexts/reward_points/`.

## 1. How the server executes, and what the models take from it

Every model rests on the same reading of the infrastructure.

* **A request is one transaction.** `shared/kernel/database/session.py` (`get_db`)
  opens a session, commits when the handler returns and rolls back when it
  raises. Nothing in between commits, except where a repository opens a session
  of its own (login throttle, log handler, WebAuthn challenges).
* **The isolation level is MariaDB's default, REPEATABLE READ.**
  `shared/kernel/database/db.py:21-32` sets none and `db/Dockerfile` builds on
  MariaDB 10.11, where `innodb_snapshot_isolation` is off. So a plain `SELECT`
  reads the snapshot taken by the first read of the transaction, while `INSERT`,
  `UPDATE`, `DELETE`, unique keys and foreign keys act on what is committed. The
  code never uses `SELECT ... FOR UPDATE`.
* **Therefore a request is two steps in the models**: a *Begin* action evaluates
  all guards of the handler on the current tables (they become its snapshot) and
  fixes what it will write; a *Commit* action writes that to the tables as they
  are by then, under the constraints. Any other request may run in between. This
  is the coarsest grain that keeps every outcome of the real execution: the
  reads of one request all see one snapshot, and its writes become visible
  together.
* **ORM writes and bulk writes differ.** An ORM `UPDATE` of a row that another
  transaction deleted raises `StaleDataError` (the request is rolled back); a
  bulk `DELETE` of a missing row is silent. `autoflush` is off.
* **Requests of one process do run in parallel**: ADR-0057 makes the database
  routes synchronous, so FastAPI runs them in its thread pool; several worker
  processes run at the same time anyhow.
* **A rollback can always happen** (lock wait timeout, deadlock victim, lost
  connection, dead worker). The models have an action for it.

Not in the models: recent FastAPI versions send the response before the exit
code of a dependency (the commit) runs, so a reported success may be followed by
a failing commit. The answer is taken to follow the commit; the hazard is listed.

## 2. Inventory

| Component | State it keeps | Operations | Modelled in |
|---|---|---|---|
| Point ledger (`reward_points/.../sql_point_*_repository.py`, `record_/reverse_/correct_point_transaction.py`) | `point_ledgers`, `point_transactions` (append-only; UNIQUE key per ledger, UNIQUE `reversal_of_id`, UNIQUE `corrects_id`) | record, reverse, correct; deleted with the participant | `PointLedger`, `AbstractLedger` |
| Reward event cards (`manage_reward_events.py`, `reward_event.py`) | `reward_events`, `reward_event_stickers` | create, stick, peel, change deadline, delete; the last sticker pays the award into the ledger | `RewardEvents` |
| Daily bonus (`configure_daily_bonus.py`, `grant_due_daily_bonuses.py`, `daily_bonus.py`, `periodic_runner.py`) | `daily_bonuses` (one row per ledger, `granted_through`) | configure, stop, a round of grants by every worker | `DailyBonus` |
| Statement and history (`ledger_statement.py`, `view_point_ledger.py`, `balanceSeries.ts`) | none (reads) | balance, lines, balance over time | operators of `FamilyArchive` |
| Family archive (`export_family.py`, `import_family.py`, `family_archive_*.py`) | none of its own | export to, import from a file | `FamilyArchive` |
| Families, memberships, invitations (`create_family.py`, `leave_family.py`, `remove_membership.py`, `dissolve_family.py`, `*_independence.py`, `*_invitation.py`, `invitation_binder.py`) | `families`, `family_memberships`, `family_invitations` | create, leave with succession, remove, independence, dissolve; issue, accept, redeem, revoke a code | `FamilyMembership` |
| Access (`family_access_policy.py`, `family_access_resolver.py`, `presentation/router.py`, the pages) | none | asked by every operation | `FamilyAccess` |
| Display devices (`display_devices/`, `manage_displays.py`, `DisplayPage.tsx`) | pairing codes, credentials, display accounts | start, approve, claim, open session, detach | `DisplayPairing` |
| Ways into an account (`account_security/`, `routers/auth.py`, `password_reset_service.py`, `token_service.py`) | passwords, TOTP secrets, passkeys, challenges, login attempts, reset links | sign in, change, reset, enrol, confirm, remove, throttle | `AccountSecurity` |
| Identity federation (`identity_federation/`) | round trips, tickets, links, revocations | sign in, link, unlink, renew, reconcile | `IdentityFederation` |
| Session of a browser (`frontend/src/services/api.ts`, `silentRenewal.ts`, `silentSso.ts`, `AuthContext.tsx`) | tokens in localStorage, marks in sessionStorage, the binding cookie | continue, renew in a frame, ask silently, sign out | `BrowserSession` |
| Settings and restart (`shared/kernel/settings/`, `shared/kernel/restart/`) | stored settings, a cache per worker, the restart request, a baseline per worker | save, refresh, request, poll, end | `RuntimeSettings` |
| Users and roles (`routers/admin/users.py`, `roles.py`, `master_data_seeder.py`) | `users`, `roles`, `user_roles`, `role_permissions` | create, change, stop, delete, grant, seed | `Administration` |
| Back-channel logout, HTTP caches of the provider, routing, schemas, log queue, e-mail, migrations, containers | - | I/O and conversions | not modelled |

How they interact. Every write to a ledger, by a parent's request, by the last
sticker of a card or by a bonus round, goes through one function,
`SqlPointTransactionRepository.append`, which is idempotent per key: it looks
the key up, inserts, and on a conflict looks it up again. Removing a participant
or making a child independent deletes the ledger with its rows, cards and bonus
(foreign keys with ON DELETE CASCADE). The workers share nothing but the
database. A session ends in an access token of five minutes that is checked
without the database, so whatever stops an account reaches its holder only when
the token is continued: the refresh token, the silent renewal and the display's
secret are the three ways to continue it.

What is hard, and what must be true:

* *Ledger.* The guards (not yet reversed, not itself a reversal, key unused) are
  evaluated on a snapshot; only the unique constraints see the other request.
  A reversal must cancel exactly one row; the two rows of a correction must be
  there together; a success that is answered must be true; an archive taken at
  any moment must restore the same history.
* *Cards.* The next square is computed from a count in the snapshot. The award
  must be paid exactly once and only for a full card; a completed card must rest;
  the squares must have no gap, since the count is what later presses go by.
* *Daily bonus.* All workers grant at the same time, a conflict anywhere rolls
  back the whole round, parents stop and configure again while a round is under
  way, and servers are down for days. No day twice, none lost silently by a worker
  that lives to log it, none
  after a stop, and what is due must arrive.
* *Families.* A family must have an owner who can sign in, a code must work once,
  and nobody may be swept away with a family they just joined, while guards are
  read from a snapshot; what a screen offers must be served.
* *Displays, accounts, federation.* Codes, challenges, trips and tickets work
  once; a lost answer, a second answer or an old roster must not leave a screen
  with a dead secret, an account without an entrance or a session for somebody
  who is gone.
* *Browser.* Tabs share tokens and a cookie; a server that is being replaced must
  not sign anybody out, and refusals must not be asked for in circles.
* *Settings and restart.* A save must arrive at every worker within the life of
  the cache; every restart that was asked for happens, and no more.
* *Administration.* Somebody must remain who can manage users.

`PROJECT.json` lists every hazard at its line, with the properties that cover it.

## 3. Modules

| Module | What it is |
|---|---|
| `AbstractLedger` | the promise of a ledger: entries that count until undone, once; no keys, rows, requests |
| `PointLedger`, `LedgerClients`, `MCPointLedger`, `PointLedgerProofs` | requests on rows at REPEATABLE READ; refines `AbstractLedger`; its clients and their keys |
| `RewardEvents`, `CardOverlaps`, `MCRewardEvents`, `RewardEventsProofs` | the cards, and the memory of who worked on one at the same time |
| `DailyBonus`, `BonusArchive`, `DailyBonusProofs` | the promise, the rounds, the threads; an archive of them |
| `FamilyArchive` | export, import and the statement as pure operators, evaluated on the states of `MCPointLedger` and `BonusArchive` |
| `FamilyMembership`, `FamilyCalm`, `MCFamilyMembership`, `FamilyMembershipProofs` | families, participants, invitation codes, accounts, and the memory of requests that overlapped |
| `FamilyAccess` | scopes, policy and screens over the families of `FamilyMembership` |
| `DisplayPairing`, `MCDisplayPairing`, `ClientProofs` | the pairing of screens; the proofs are also about `BrowserSession` |
| `AccountSecurity`, `MCAccountSecurity`, `AccountSecurityProofs` | the ways into one account |
| `IdentityFederation`, `MCIdentityFederation`, `IdentityFederationProofs` | the round trip, the links, the rounds |
| `BrowserSession`, `MCBrowserSession`, `MCSilentAsks`, `ClientProofs` | tabs of one browser and the server they talk to |
| `RuntimeSettings`, `MCRuntimeSettings` | settings, caches, watchers |
| `Administration`, `MCAdministration`, `AdministrationProofs` | users and roles; `MCAdministration` and the proofs are also about `RuntimeSettings` |

Modules that compose: `FamilyAccess` extends `FamilyMembership`, so that screens
and guards are asked about families that overlapping requests made;
`MCPointLedger` and `BonusArchive` put every reachable ledger and bonus through
`FamilyArchive`; `MCAdministration` holds two specifications that share no table and
whose behaviours follow one of them (`part`).

### PointLedger

State: `ledgers` and `rows` are the committed tables; `nextId` the
auto-increment counter; `slot[r]` a request being served: idle, open (its
snapshot is taken and `drafts`, the rows it will insert, are fixed) or done with
an answer. A stored key is the pair of the client's key and the step it was
derived for (`<key>:reversal`, `<key>:correction` in the code; clients' keys
never contain the separator).

`BeginRecord`, `BeginReverse`, `BeginCorrect`, `BeginRemove` follow the use cases
in the order of their refusals. `AppendOne` is the lookup with which `append`
starts. `CommitAppend` inserts when `Admissible` (the constraints of
`point_transactions`) holds for every draft; `CommitConflict` is the other case:
`append` catches `IntegrityError` and looks the key up again, but in the same
snapshot, finds nothing and raises. `CommitRemove` deletes the ledger and the
rows in it by then. `Rollback` is any failure of the database.

`LedgerClients` adds the habit of the clients: what they send, and so whether a
key is drawn for each operation (`KeysApart`, as `newIdempotencyKey` does) or
used for several, which only another caller of the API could do.

Abstracted: reasons, dates, authorship and the access policy (every modelled
request comes from a guardian); amounts are small signed integers.

### RewardEvents

State: `live` cards with their `stickers`, `completed`, `deadline`; `awards[e]`
counts ledger rows under the award key of card `e`; `today` is the family's day;
`open` whether the ledger exists. A request that is refused or has nothing to do
writes nothing and is no step. `CommitStick` is the whole of
`StickRewardEventStickerUseCase`: sticker, and with the last one the award and
`completed_at`. `StickLost` is `stick()` returning `False` on a conflict.
`CommitDelete` keeps the award; `CommitClose` deletes everything with the ledger.
`CardOverlaps` adds `smooth`: no two different operations on one card have
overlapped so far.

### DailyBonus

State: `bonus[l]` the row of `daily_bonuses` or `None`; `granted[<<l, d>>]` how many
rows carry the grant key of day `d`; `round[w]` the round of worker `w` with its
plan; `telling[w]` the days beyond the catch-up limit that worker `w` has left out
in a committed round and has still to log, `reported` those that were logged,
`cutOff` those whose worker died in between (a history variable: the system keeps
nothing of them), and `skipped` the three together; `promised` is
a history variable for the properties: the days on which a promise was in force;
`overtaken` is another: ledgers of which a bonus was committed after days on or
after its start had been granted.
One round is one transaction for all ledgers, so `CommitRound` is all or
nothing, and `FailRound` is the exception that rolls all of it back; `run_once`
logs and goes on. `Report` is the log line, which comes after the commit
(`daily_bonus_grants.py:52` and `:58`). `CrashRound` is a worker that dies or loses
its connection in its round, `CrashReport` one that dies after the commit and
before the log: its skipped days are behind `granted_through` and are lost without
a trace, which `SettledDays` therefore excepts, and nothing else.

### FamilyMembership and FamilyAccess

State: `families` and `founded` (identifiers are used once), `member[m]` the row
of `family_memberships` with identifier `m` or `Nobody`, `nextId` its
auto-increment counter, `code[c]` the row of `family_invitations`, `accounts[a]`
the user with the role that decides which endpoints answer it ("member" has
`family:manage`, "child" only `family:view`), `slot[r]` a request with its plan.

Each use case is a pair: `BeginX` evaluates its refusals on the snapshot and
fixes in the plan what it decided (the heir, the account to delete or promote,
what the code said), `CommitX` writes that plan to the tables as they are by
then. The difference between the ways of writing matters and is kept: an
`UPDATE` through the ORM of a row that is gone fails (`StaleDataError`, hence the
guards `Exists(...)` in `CommitLeave`, `CommitPropose`, `Participate`, and the
only outcome left is `Rollback`); a bulk `DELETE` of a row that is gone is silent
(`CommitRevoke`, the participation in `CommitLeave`, `CommitRemove`,
`CommitDissolve`); `consume` is one conditional `UPDATE` and sees the committed
row. `FamilyCalm` adds `calm`: no two requests have been open at once. `MembersWithout` and `CodesWithout` are the foreign keys: SET NULL for
accounts, CASCADE for families, participants and codes. `Participate` holds
UNIQUE (family, account).

`FamilyAccess` writes the guards down three times, as the code does: the
scopes of an entrance (`*Entrance`), the policy (`Can*`), and what the pages
offer from the flags of the overview (`*Panel`, `*Page`). `OfferedIsServed` says
that an offer made on a fresh screen is not refused; the refusals that the code
does have are `KnownRefusal` (section 4).

Abstracted: names, display order, family rules, user names and passwords;
`created_at` of participants is the order of their identifiers; parents may sign
up with a code (`adults_sign_in_through_idp` off, the more permissive setting).
Families that an import creates have parents without accounts, which no action
here makes.

### FamilyArchive

`WriteLedger` writes the rows of a ledger as entries that name each other by refs
(`family_archive_writer.py`), `Importable` are the rules
(`family_archive_rules.py`), `Import` the rows that are inserted again;
`Lines`, `Balance` and `BalanceSeries` are what a parent reads. In
`MCPointLedger`, `ExportsComeBack` demands of every reachable ledger that its
archive is importable and that the restored ledger shows the same lines and
balances; in
`BonusArchive`, `RestoreRepeatsNothing` that a restored bonus grants no day again.

### DisplayPairing

State: the tables `pairing` and `credential` (the hash of a secret is the number of
the secret), the display accounts, what the browser of each screen keeps, the
answer that travels back, two requests. `BeginClaim` and `CommitClaim` are one
poll that finds its code approved; the answer may be lost (`Lose`, at most
`MaxLost`). `CommitExpire` is the idle limit, which acts only when the secret is
presented. Access tokens live on for `TokenLife` whatever happens to the account.

### AccountSecurity

One account: its row (`user`, with whose the password is), the second factor, a
passkey, challenges, reset links, the row of `login_attempts`, tokens of devices.
A commit writes the columns that differ from what its request read (`Written`),
as the ORM does. The throttle has short transactions of its own
(`LoadAttempts`, `SaveAttempts`). History variables: `since`, `verified`, `calm`
(no two requests have been served at once), `wrong`, `logins`, `resets`.

### IdentityFederation

State: the rows of round trips (`trip`), tickets, `links`, accounts, sessions, the
cookie of each browser, requests and the rounds of the workers. `BeginCallback`
decides on its snapshot, `Consumed` is the conditional DELETE of the trip's row
which exactly one request wins, `Link`, `Welcome` and `Enter` insert under
UNIQUE(issuer, subject). A login refused for an inactive account has touched the
identity's row all the same (`Refuse`: the refusal is caught and the transaction
commits), and an uncaught failure rolls everything back and keeps the cookie
(`Spoilt`), although the docstring of `complete_callback` has it dropped on success and failure
alike. A round reads the links, asks the roster
(`RosterAnswers`, also with a wrong tenant or not at all) and commits with
`Raced` for what changed meanwhile. `EveryoneIsUnknown` is the refusal to unlink
everybody at once. `excused` remembers the accounts that may be without an
entrance: whose owner deleted the passkey, whom a round unlinked, and whose link a
late request of another account removed.

The run keeps three cases apart, because all of them together are too large: a
second request, a second worker, or a second round trip (without calendar and
rounds, from nobody linked). Without the second trip no identity could come back
to an account of its own while a request of its former account is under way.

### BrowserSession

State: what the tabs share (access and refresh token, the lock, the cookie of the
round trip, whether somebody signed out), each tab's screen and its one request,
and who is signed in at the identity provider. `MCSilentAsks` counts how often
the provider refuses one tab since something happened (somebody acted, new tokens
were stored, the server went or came back) and adds fairness of answers. `reloaded`
says that the document was opened by a reload: such a page may ask silently even if
the tab has tried (`MaySilentSso`, ADR-0054), so that one that still has an expired
token can be refused by a frame, as a page, and by the frame of the request it makes
when it is back. `again` tells that this departure has happened; without it the bound
is two refusals, with it three.

### RuntimeSettings and Administration

`stored` is the payload in the database with its version, `cache[w]` what a
worker keeps for TTL. A read of the settings has three steps: `BeginRefresh` reads
what is committed, `StorePayload` assigns the payload (settings.py:78) and
`EndRefresh` the deadline (:85). A save has four: `BeginSave`, then after the flush
`DropPayload` and `DropExpiry`, the two assignments of `invalidate` (:56-58, which
takes no lock), then `CommitSave`. They interleave, so a save may empty the payload
between the two assignments of a read; the empty payload is then good until the
deadline the read sets. `emptied[w]` is when that happened. Neither a read nor
`invalidate` lasts until the next tick. `Poll` is the watcher of a worker, `StartAgain` the container's restart policy. `Administration` has
users, roles and grants as tables and tokens that are older than them; `Wanted`
is the whole role set a page sends, computed from the list it loaded.

## 4. Runs

"pass" means that TLC explored every state of the instance. Bounds are
constants of the configurations.

| Run | Instance | What it shows |
|---|---|---|
| `ledger` | 3 requests, 2 ledgers, keys fresh or shared | `SuccessesHold`, `CorrectionsArePaired`, `ReversalsCancel`, `ExportsComeBack`; the rows implement `AbstractLedger` |
| `cards` | 3 requests on one card of 3 squares, over midnight | award exactly with completion, once; only an overlap of different operations makes gaps or disturbs a completed card |
| `bonus` | 2 ledgers, 2 workers, 4 days, catch-up limit 2, 1 crash, fairness | no day twice, none lost silently unless the worker died before it could log it, none after a stop, none again after a restore; what is due arrives |
| `families` | 2 requests, 2 families, 3 accounts, 3 participants, 2 codes | nothing dangles, codes work once; only overlaps lose owners or sweep anybody away; what is offered is served |
| `screens` | 1 screen, 1 code, 2 requests, 1 lost answer, fairness | a screen keeps the only valid secret, tokens end soon, removed screens return to pairing |
| `accounts` | 2 requests, 1 device, 1 challenge, 1 link, 6 turns | challenges and links work once, temporary passwords reach devices, guesses are bounded, nobody is shut out |
| `federation` | 2 identities; 2 requests, and 2 trips or 2 workers; fairness | one session per trip, only linked identities, stops arrive, an entrance remains, the gone are unlinked |
| `browser_tabs` | 2 tabs, 2 persons, 1 outage | no tab works with somebody else's tokens, renewals do not clash |
| `browser_alone` | 1 tab, 2 persons, 1 outage, fairness | at most two refusals with nobody acting, three if a reloaded document asked as a page; a tab reaches the server again |
| `administrators` | 2 workers, 2 saves, 2 restart requests, 1 fault; or 2 users, 2 roles, 2 requests | saves arrive, fit, restarts are counted and reach; only a stale hand closes the installation |
| `ledger_removal_race` (violation) | as `ledger` | a record committed after the count is deleted with the ledger |
| `settings_shadowed` (violation) | the environment names both settings | a broken pair is accepted and takes effect |

Why the bounds are enough. Every race in this code is between a snapshot and
one committed write, so two overlapping requests produce it; the third request
(and the third square, the fourth day) is there so that what the race leaves
behind is met by a later, regular request. `MaxId` lets every intent of an
instance commit at least once with room for a repetition; identifiers wasted by
a rolled back insert are left out, since only their order matters. Two ledgers
are needed for keys and targets of another ledger, and for a bonus round that
one ledger fails for all. `MaxCatchUp = 2` with four days makes a day fall
behind the limit; `MaxEdits = 2` makes a bonus be stopped and configured again.
Lives of tokens, tickets and caches are one or two ticks of a clock that runs
past them: what matters is before, at and after each deadline. Where time is
counted, requests are short against it. The theorems remove the bounds for the
properties they state.

CHECK_DEADLOCK is FALSE where a bounded calendar or count makes the model stop:
when all days are over and nothing is due, nothing is left to do. Symmetry is
used for requests, workers, tabs and parents, which no definition tells apart,
and never in a run with a liveness property.

### The violations

* `ledger_removal_race`: `remove_membership.py` counts the rows of a child's
  ledger and refuses when there are any; the count is read from a snapshot with
  no constraint behind it.
* `settings_shadowed`: validation lets the environment win over a stored value,
  the running application lets the stored value win.

### Disagreements that "only" properties contain

Some statements of the repository are true only while requests do not overlap.
The properties say exactly that (`calm => ...`, `smooth => ...`), so that the
overlap is shown to be the only way:

* Owner and successor leave at once: the family is left with nobody
  (`leave_family.py:5`, ADR-0013). `OnlyOverlapLosesOwners`.
* Somebody joins while the owner dissolves; an account joins two families, which
  ADR-0013 accepts. `OnlyOverlapSweepsAway`, `OnlyOverlapLosesOwners`.
* A peel and a press that overlap leave a gap and the card is stuck
  (`reward_event.py:10`); a peel or a change of deadline that read an open card is
  committed after completion. `OnlyCrossingMakesGaps`, `OnlyCrossingBreaksCards`.
* A chosen password keeps the deadline of a temporary one
  (`password_reset_service.py:182`), and a second factor becomes active whose code
  nobody showed (`manage_totp.py:3`), when requests meet. `NobodyIsShutOut`.
* `unlink_federated_identity.py:3` promises that nobody is unlinked who cannot
  enter any other way. `unlink` deletes the row by issuer and subject, whoever it
  belongs to by then: if a request to unlink is sent twice, and the identity signs
  in to an account of its own between the two commits, the second takes the only
  entrance of that account. `KeepsAnEntrance` excuses exactly the account that lost
  its link to a request of another account (`CommitUnlink`).
* The second of two concurrent requests with one key is answered with an error
  although `sql_point_transaction_repository.py:5` says the existing row is
  returned (`CommitConflict`); the same for the first bonus of a ledger
  (`ConflictConfigure`).
* `import_family.py:156` says that the bonus of an archive carries how far it was
  granted, so that a restored family repeats no day. `_next_day`
  (`configure_daily_bonus.py:58`) is read when the request begins: of two requests
  that overlap over midnight, the first may be committed, granted and stopped
  before the second is committed, with a start on the day that is granted.
  `RestoreRepeatsNothing` excuses exactly the ledgers on which that happened
  (`overtaken`). The run has one parent, to whom it cannot happen; with two parents
  and one ledger TLC finds it in eight steps if the excuse is left out, and the
  theorem holds for any number of parents.

`KnownRefusal` in `FamilyAccess` names offers the server refuses: a parent who is
not the owner is shown a button to revoke a parent's code (against
`FamilyPage.tsx:10`); and a guardian whose account was made a child's by a code
that did not fit its participant, which only the API can do.

### Read in the code, without a property

* Two overlapping approvals of one code make two display accounts, one of which
  nobody claims; a lost answer to a claim leaves one as well; an approved code
  that is never claimed is swept and leaves its account. A secret whose
  membership is gone answers 404 and the screen does not return to pairing.
* Linking the identity twice fails with an error 500 on the primary key; two
  round trips can link two identities to one account. Deleting the last passkey
  never asks whether another entrance is left, so `KeepsAnEntrance` excuses who
  deleted it (`excused`).
* `users.py:156` says that seeding reopens an installation nobody can manage; the
  seeder never gives an existing administrator role or activity back.
* `settings.py:40-41` says that a save is effective at once. A save empties the cache
  before it commits, so that another thread may keep the old values for one more
  TTL; and if it empties the cache between the two assignments of a read, the worker
  goes without any stored setting, by the environment and the defaults, until the
  deadline that the read sets. `SavesArriveInTime` bounds both by one TTL, the first
  from the commit and the second from the save that emptied the cache.
* The page of a ledger takes an answer that arrives late for the child shown
  before (`LedgerPage.tsx:70`), against ADR-0021, decision 5; the same in
  `RewardEventsPage.tsx:69`.
* The archive leaves reward cards out although `export_family.py:3` says it holds
  all of the family; an imported bonus is protected against repeated grants by
  its start and `granted_through` only, since the rows lose their keys.
* A temporary password set by an administrator (`users.py:211`) keeps `must_change`.
* Signing out while a refresh is under way brings the tokens back (`api.ts:218`).

### Fairness

Fairness is stated action by action and only where the code schedules the step.

* `bonus`: `BeginRound(w)` and `EndRound(w)` of every worker: `PeriodicRunner._run`
  calls `run_once` in a loop, an exception is logged and the loop goes on. Nothing
  is assumed of parents, midnight or crashes, which are bounded by `MaxCrashes`.
  `FailRound` needs no bound: a round fails only because another transaction
  committed, and each such commit is progress or an edit.
* `screens`: the polling of the screen and the end of requests already begun.
* `federation`: the rounds of the workers, which are a `PeriodicRunner`, and a
  roster that answers again and again.
* `browser_alone`: answers to requests already sent, the timers of the frame and
  the return of the server.
* `administrators`: boot, watch and poll of every worker, the restart policy of
  the container and the return of the database.

## 5. Proofs

All theorems hold for every value of the constants, under the assumptions named
in the modules (types of inputs that the request schemas enforce, bounds that
are natural numbers, null values that are no values).

| Module | Theorems |
|---|---|
| `PointLedgerProofs` | `TypeCorrect`, `ReversalsAlwaysCancel`, `CorrectionsAlwaysPaired`, `HistoryLasts`, `SuccessesAlwaysHold`, `LedgerImplementsAbstract`, `LedgersAlwaysComeBack` |
| `RewardEventsProofs` | `EventTypesCorrect`, `AwardedExactlyOnce`, `AwardsStay`, `GapsComeFromCrossing`, `OnlyCrossingDisturbs` |
| `DailyBonusProofs` | `BonusTypesCorrect`, `NeverTwice`, `NeverLost`, `OnlyWhatWasPromised`, `RestoredRepeatNothing`, `StopIsFinal` |
| `FamilyMembershipProofs` | `FamilyTypesCorrect`, `ReferencesHold`, `CodesAdmitOnce`, `OwnersAreKept`, `NobodyIsSweptAway` |
| `IdentityFederationProofs` | `FederationTypesCorrect`, `OneSession`, `OnlyLinkedEnter`, `EntrancesAreKept`, `StopsComeThrough` |
| `AdministrationProofs` | `AdministrationTypesCorrect`, `TheHandStays`; `SettingsTypesCorrect`, `RestartsStayCounted`, `SavedSettingsAlwaysFit`, `SavesAlwaysArrive` |
| `AccountSecurityProofs` | `AccountTypesCorrect`, `UsedOnlyOnce`, `TemporaryAlwaysReaches`, `NobodyEverShutOut`, `GuessesStayBounded` |
| `ClientProofs` | `PairingTypes`, `ScreensStayPaired`, `DetachedScreensGoDark`; `BrowserTypes`, `TabsKeepTheirPerson`, `RenewalsTakeTurns`, `NoRoundInCircles` |
The type invariants are proved and therefore not spent on the runs.

The arguments.

*Ledger.* `ReversalsCancel` is not inductive: a request may have planned a
reversal of a row long ago. `LedgerInv` adds what every open request still
knows: each planned reversal or correction, if its constraints still admit it
(its target exists, the target is unreversed, the key is free), cancels a row of
its own ledger that is no reversal (`PlansStandUp`), and
identifiers are below `nextId` and unique (`RowsWellFormed`). Rows never change,
so what a plan knew of its target holds until the target goes with its ledger,
and then the foreign key refuses the plan. The refinement maps a row that is not
a reversal to an entry, and whether an entry counts to whether no reversal of it
is committed: a committed record is `Add`, a reversal `Undo`, a correction
`Restate`, a removal `Close`; everything else stutters.

*Archive of a ledger.* `LedgersAlwaysComeBack`: the archive of any reachable ledger
is one the import accepts (`WritableHistory`), and the rows it is written back as,
from whatever identifier on, meet no constraint of the table, read the same line by
line and give the same archive again (`ComesBackAs`, the part of `ExportsComeBack`
without sums). It needs one invariant more than the ledger's own, `RowsReferBack`:
nothing refers forward, and the reversal of a corrected row is written before the
correction. An entry names its target by a place, so the lemmas on the way say that
the rows ordered by identifier take the places 1 to their number, each one once
(`PlacesAreTaken`: an injection between sets of one size), that a row's ref is its
place (`RefsArePlaces`), and that rows written back in turn keep those places
(`RowsInTurn`).

*Cards.* `EventInv` adds to `AwardedWhenFull` that no sticker has a number outside
the card, that a card not yet born has no award, and, for open requests (`Fits`),
that a planned sticker lies on its card and a planned peel is of a square that
was not the last one. The last part is why a peel that comes too late can take
a sticker off a completed card but never the last one, and so never unpay it.
`OverlapInv` adds what holds until different operations cross (`Agrees`): the number
of a press is the next one or stuck already, that of a peel the last one or gone,
only a press may find its card completed, and a press is in time.

*Families.* `NothingDangles` alone is not inductive: what a commit links, adds or
promotes was chosen long before. `FamilyInv` adds that identifiers are never
used again (`IdsAhead`) and what plans still know (`Sound`): their identifiers are
old, an heir is not the one who leaves, the target of an invitation, if it is
there, is in the family of the plan, and a plan for a code tells what the code
tells while it is there. `Forward` says of every step that nothing that is gone
comes back and nothing that stays moves to another family, so `Sound` survives
it (`SoundStays`). Commits then fall into three kinds with a lemma each: they
delete (`DeletionKeeps`), add a participant (`AddingKeeps`) or link one
(`LinkingKeeps`). `CodesAdmitOnce` follows step by step from the same invariant.
`OwnersAreKept` is not inductive either: an owner who leaves must still have the
heir it named. `CalmInv` adds that until requests overlap a plan finds the tables
as its snapshot showed them (`Fresh`): an heir is of the family and has an
account, whoever is removed, becomes independent or loses the account owns
nothing, the owner of a family that is dissolved is alone in it, and an account
that joins is in no family. The bound of the run on codes is no part of it.

*Bonus.* `BonusInv` needs ten parts. The core: a plan made for a bonus that is
still the same bonus (`IdsAreOld`: identifiers are never reused) is a plan made
within its promise (`PlansArePromised`), it settles every day up to its last one
(`PlansSettle`), and a day granted since is visible in `granted_through` or blocks
the plan (`SettledDays`, `OnePerDay`). `PromiseCovers` and `DueFromStart` tie
`promised` to the start of the bonus. `RestoreRepeatsNothing` needs a second
invariant (`RepeatInv`): a plan grants the very day it was made on
(`PlansGrantTheirDay`), so a second round of the same bonus that commits later
finds that day granted and fails, and `granted_through` never moves back. A new
bonus starts after every day that is granted (`NothingDueAgain`), because days are
granted when they have come (`GrantedByToday`) and a bonus starts the day after it
was asked for, unless the request was overtaken.

*Federation.* Only the request that removes the row of a trip goes on, so a trip
that is not used has no ticket and no session, and a ticket still open has given
none (`TripInv`). Whoever holds a decision, a ticket or a session was linked at
the time, which the history of links remembers (`LinkInv`). `EntranceInv`: an
account without a link has another entrance or an excuse, links and plans to unlink
are of accounts that exist, and such a plan has seen another entrance, which goes
only with an excuse. `StopInv` bounds each of trip, ticket and token by the time
the provider last let the subject in (`LastAllowed`): an answer finds the trip
begun no more than `TripTTL` ago, a ticket is issued before the trip ends and a
token before the ticket ends, which is where the three ticks of `StopsArrive` come
from.

*Settings.* Three invariants, one per property. Every watcher that is up has paid
for the restart it may cause: the restarts so far are covered by its baseline and
the blind starts, or one more is covered by the request (`RestartInv`). What is
stored, and what every planned save would store, fits where the environment is
empty (`FitInv`). What a worker is about to store was not replaced before now, and what it
has stored was neither replaced nor emptied before now when it gets its deadline
(`JustRead`, `Current`); hence what it keeps was replaced, or emptied by a save of
its own, no earlier than its deadline less TTL (`InTime`, `ArrivalInv`).

*Administration.* `AdminInv`: every account that is active has its roles among
those that exist, and a request in progress keeps the asker in charge or has an
excuse. A manager stays one while the account is active and one role keeps
granting, so each commit leaves the asker as it was or is excused.

*Answers.* `SuccessesAlwaysHold` is about the clients of the ledger
(`LedgerClients`), who keep to one habit of drawing keys. `ClientInv` says of every
row which intent it was written for (`WrittenFor`) and of every success that what
it said is so while the ledger exists (`Told`); it stays so because rows stay
(`EffectLasts`). A request answered from a row that was found under its key
(`FoundRow`) was answered truly because, with keys apart, that row was written
for this intent (`FoundIsOwn`); a correction is never answered that way.

*Accounts.* A challenge that is not gone has given nothing, and a link that is not
used has set no password while requests are alone (`ChallengeInv`, `LinkInv`).
Tokens that live past a temporary password were made by requests that read the
row before it (`TokenInv`): such a token ends within `TokenLife`. While `calm`
holds, at most one request is open (`Alone`), so what it read is still the row,
and the marks on the password are what `MarksInv` says of its owner.
`GuessesStayBounded` needs a measure (`GuessInv`): a request stands at the
`Level` from which it will count, two of them have `Room` for so many more
guesses, and guesses made and left are together never more than at the start.
A count that is saved moves its request one up; the other, if it has read
already, stays behind and will set the count back (`RoomAhead`), otherwise it
finds the new one (`RoomBoth`, `RoomLast`). The bound is
quadratic because one request may run up to the lock again and again, while the
other sets the count back each time to one more than the time before.

*Screens.* Secrets are numbered as they are drawn (`Numbered`), so a new one is
nobody's; a secret is of one account, whether a request, a row or a screen holds
it (`Agree`). A claim that is being served inserts the first secret of an account
whose only code it read (`Calls`, `Rows`), hence the secret on its way is the
account's as long as that exists (`Valid`), also when the answer is lost and the
screen starts again. A session that is being opened is no later than the last
moment its account was on the roster (`Sessions`), which bounds the tokens.

*Tabs.* While it is `calm` and `kept`, whatever a tab shows, asks or continues is for
the person the tokens name (`Orderly`): a session that is continued by the provider
began with a token of the provider and is exchanged for its person only
(`SamePerson`); with `OneLock` no other tab is between the frame and the exchange.
A step of a tab either leaves the tokens (`Turn`), renews them for the same person
(`Renewed`) or is somebody who enters while nobody is there (`EnterKeeps`).
`NoRoundInCircles` needs a measure (`Left`): a tab that was refused and has done
nothing since can be refused as a page that is leaving already or for a request of
the screen it shows, not both (`Seen`), and once more for the question who is
signed in, which ends the tokens; each refusal lowers it (`Counted`). A document that
was opened by a reload may leave as a page although the tab has been refused before
(`AsksLate`): that raises the measure by one, and only once, since the page that
comes back from the provider is not a reload (`Late`, `ReloadsStay`). Hence the bound
of two, and of three after such a departure.

Only model-checked, and why:

* Liveness (`BonusArrives`, `RemovedScreensReturn`, `GoneAreUnlinked`,
  `RestartReaches`, `ReachesAgain`) and `OfferedIsServed`, which uses ENABLED, are
  out of the prover's reach.
* Of `ExportsComeBack`, the balance and its course before and after: folds over sets
  and sequences, whose induction the installed provers cannot instantiate. Its other
  parts are `LedgersAlwaysComeBack`; the caps on a family's size are constants.
* `RefusalsAreTaken` is proved for one tab, which is the instance of its run; with
  more tabs each has refusals of its own and the bound is another.

## 6. Plan

Not modelled, and what it would take: back-channel logout (a second way to a stop
that `StopsArrive` already bounds), the order in which answers reach a screen,
the HTTP caches of the provider's documents, the log queue. HTTP schemas, token
signing, cryptography, mail and migrations are conversions and I/O; their
correctness is not a matter of states and interleavings.

Next for the proofs: from the archive of one ledger to that of the family (the
members, their roles and the caps), and the balances, once a prover can instantiate
an induction over finite sets.

## 7. Running

    tlc -workers 2 -config MCPointLedger_keys.cfg MCPointLedger.tla
    tlapm PointLedgerProofs.tla

Each row of `PROJECT.json` "runs" names a module and its configuration. The
definitions named in "mutants" (marked `Mutant` in the modules) are plausible
bugs of the code; replacing the definition by its mutant makes TLC report the
property named there.
