--------------------------- MODULE RuntimeSettings ---------------------------
(***************************************************************************)
(* The settings an administrator saves while the application runs          *)
(* (shared/kernel/settings, presentation/fastapi/services/                 *)
(* system_setting_service.py) and the restart that those need which are    *)
(* read once at start (shared/kernel/restart).                             *)
(*                                                                         *)
(* One container runs the worker processes of Gunicorn.  A worker serves   *)
(* requests with several threads; it keeps the stored settings for TTL and *)
(* then reads them again.  Its watcher compares the restart request in the *)
(* database with the one it found at start, and ends the whole container.  *)
(***************************************************************************)
EXTENDS Integers

CONSTANTS
    Worker,
    Domain,         \* names a relying party identifier or the host of an origin may have
    Below,          \* the pairs of them whose first lies below the second
    Env,            \* what the environment says of the two, or None
    Form,           \* what an administrator may send: values for some of the keys
    None,
    TTL,
    MaxTime, MaxSaves, MaxRequests, MaxFaults   \* bounds

\* WEBAUTHN_RP_ID and WEBAUTHN_ORIGIN, the settings that have to fit each other.
Key == {"rp", "origin"}

Empty == [k \in Key |-> None]
Settled == [payload |-> Empty, version |-> None]   \* nothing is left to store

ASSUME SettingsAssumption ==
    /\ None \notin Domain \cup (0 .. MaxSaves) \cup (0 .. MaxTime)
    /\ None # Settled
    /\ Domain # {} /\ Below \subseteq Domain \X Domain
    /\ Env \in [Key -> Domain \cup {None}]
    /\ Form \subseteq UNION {[keys -> Domain \cup {None}] : keys \in SUBSET Key}
    /\ TTL \in Nat \ {0}
    /\ {MaxTime, MaxSaves, MaxRequests, MaxFaults} \subseteq Nat

VARIABLES
    now,
    stored,     \* "app.config": the value of each key, and how often it was saved
    replaced,   \* history: when each version of it was replaced
    request,    \* "app.restart_request": the newest token, 0 for none
    asked,      \* history: the version that each restart was asked for
    worker,     \* how far each worker is with starting
    boot,       \* the version its boot-time settings come from, None when it could not read
    baseline,   \* the token its watcher found at start
    cache,      \* _DatabaseOverrides of each worker
    loading,    \* what the thread that holds the lock has read
    emptied,    \* history: when a save emptied the payload it has, None if it did not
    save,       \* a save that a worker serves
    up, outages, deaths,    \* of the database; of workers
    restarts, blind         \* history: how often the container was ended; watchers begun blindly

database == <<stored, replaced, request, asked>>
process == <<worker, boot, baseline>>
kept == <<cache, loading, emptied>>
faults == <<up, outages, deaths>>
counts == <<restarts, blind>>
vars == <<now, database, process, kept, save, faults, counts>>

Payload == [Key -> Domain \cup {None}]
Version == 0 .. MaxSaves
Token == 0 .. MaxRequests
NoCache == [payload |-> Empty, version |-> None, until |-> 0]
NoSave == [at |-> "idle"]

Cached == [payload : Payload, version : Version \cup {None}, until : 0 .. MaxTime + TTL]
Read == [payload : Payload, version : Version]
Saving == [at : {"read", "dropping", "flushed"}, payload : Payload, form : Form]

TypeOK ==
    /\ now \in 0 .. MaxTime
    /\ stored \in Read
    /\ replaced \in [Version -> 0 .. MaxTime \cup {None}]
    /\ request \in Token /\ asked \in [Token -> Version]
    /\ worker \in [Worker -> {"down", "booting", "booted", "up"}]
    /\ boot \in [Worker -> Version \cup {None}] /\ baseline \in [Worker -> Token]
    /\ cache \in [Worker -> Cached]
    /\ loading \in [Worker -> Read \cup {None, Settled}]
    /\ emptied \in [Worker -> 0 .. MaxTime \cup {None}]
    /\ save \in [Worker -> Saving \cup {NoSave}]
    /\ up \in BOOLEAN /\ outages \in 0 .. MaxFaults /\ deaths \in 0 .. MaxFaults
    /\ restarts \in Nat /\ blind \in Nat

Init ==
    /\ now = 0
    /\ stored = [payload |-> Empty, version |-> 0]
    /\ replaced = [v \in Version |-> None]
    /\ request = 0 /\ asked = [t \in Token |-> 0]
    /\ worker = [w \in Worker |-> "booting"]
    /\ boot = [w \in Worker |-> None] /\ baseline = [w \in Worker |-> 0]
    /\ cache = [w \in Worker |-> NoCache] /\ loading = [w \in Worker |-> None]
    /\ emptied = [w \in Worker |-> None] /\ save = [w \in Worker |-> NoSave]
    /\ up = TRUE /\ outages = 0 /\ deaths = 0 /\ restarts = 0 /\ blind = 0

-----------------------------------------------------------------------------
(* What a setting is.                                                      *)

Default == CHOOSE d \in Domain : TRUE

\* ApplicationSettings._get: the screen wins over the environment.
Resolved(payload) ==
    [k \in Key |-> IF payload[k] # None THEN payload[k]
                   ELSE IF Env[k] # None THEN Env[k] ELSE Default]

\* _effective_after_save: what a save is checked against.
EffectiveAfterSave(payload) ==
    [k \in Key |-> IF Env[k] # None THEN Env[k]
                   ELSE IF payload[k] # None THEN payload[k] ELSE Default]

\* validate_relying_party_configuration, of well-formed names: the host is the relying
\* party or lies below it.
Fits(effective) ==
    \/ effective["origin"] = effective["rp"]
    \/ <<effective["origin"], effective["rp"]>> \in Below

-----------------------------------------------------------------------------
(* Reading the settings.                                                   *)

\* Mutant: what was read is kept until a save on this worker drops it.
ExpiredMutant(w) == cache[w].until = 0

Expired(w) == now >= cache[w].until

\* One thread at a time reads what is committed, on a connection of its own; what cannot
\* be read leaves the values there are.
BeginRefresh(w) ==
    /\ worker[w] = "up" /\ loading[w] = None /\ Expired(w)
    /\ loading' = [loading EXCEPT ![w] = IF up THEN stored ELSE Settled]
    /\ UNCHANGED <<now, database, process, cache, emptied, save, faults, counts>>

StorePayload(w) ==
    /\ loading[w] \notin {None, Settled}
    /\ cache' = [cache EXCEPT ![w].payload = loading[w].payload, ![w].version = loading[w].version]
    /\ loading' = [loading EXCEPT ![w] = Settled]
    /\ emptied' = [emptied EXCEPT ![w] = None]
    /\ UNCHANGED <<now, database, process, save, faults, counts>>

\* Whatever payload there is by now is good for another TTL.
EndRefresh(w) ==
    /\ loading[w] = Settled
    /\ cache' = [cache EXCEPT ![w].until = now + TTL]
    /\ loading' = [loading EXCEPT ![w] = None]
    /\ UNCHANGED <<now, database, process, emptied, save, faults, counts>>

-----------------------------------------------------------------------------
(* Saving them.                                                            *)

\* A save takes the keys it names, None taking a key away, and leaves the others.
Over(form, payload) ==
    [k \in Key |-> IF k \in DOMAIN form THEN form[k] ELSE payload[k]]

BeginSave(w, form) ==
    LET payload == Over(form, stored.payload) IN
    /\ worker[w] = "up" /\ save[w] = NoSave /\ up /\ stored.version < MaxSaves
    /\ Fits(EffectiveAfterSave(payload))
    /\ save' = [save EXCEPT ![w] = [at |-> "read", payload |-> payload, form |-> form]]
    /\ UNCHANGED <<now, database, process, kept, faults, counts>>

\* The row is written, not yet committed, and what this worker keeps is dropped, in two
\* statements and without the lock of those who read (invalidate).
DropPayload(w) ==
    /\ save[w].at = "read" /\ up
    /\ save' = [save EXCEPT ![w].at = "dropping"]
    /\ cache' = [cache EXCEPT ![w].payload = Empty, ![w].version = None]
    /\ emptied' = [emptied EXCEPT ![w] = now]
    /\ UNCHANGED <<now, database, process, loading, faults, counts>>

DropExpiry(w) ==
    /\ save[w].at = "dropping"
    /\ save' = [save EXCEPT ![w].at = "flushed"]
    /\ cache' = [cache EXCEPT ![w].until = 0]
    /\ UNCHANGED <<now, database, process, loading, emptied, faults, counts>>

\* Mutant: only the keys that were named are written.
SavedMutant(s) == Over(s.form, stored.payload)

\* All the keys are one column.
Saved(s) == s.payload

CommitSave(w) ==
    /\ save[w].at = "flushed" /\ up /\ stored.version < MaxSaves
    /\ stored' = [payload |-> Saved(save[w]), version |-> stored.version + 1]
    /\ replaced' = [replaced EXCEPT ![stored.version] = now]
    /\ save' = [save EXCEPT ![w] = NoSave]
    /\ UNCHANGED <<now, request, asked, process, kept, faults, counts>>

RollBack(w) ==
    /\ save[w].at \in {"read", "flushed"}
    /\ save' = [save EXCEPT ![w] = NoSave]
    /\ UNCHANGED <<now, database, process, kept, faults, counts>>

-----------------------------------------------------------------------------
(* Starting.                                                               *)

\* create_app reads log level, log target and origins once.
Boot(w) ==
    /\ worker[w] = "booting"
    /\ worker' = [worker EXCEPT ![w] = "booted"]
    /\ boot' = [boot EXCEPT ![w] = IF up THEN stored.version ELSE None]
    /\ cache' = [cache EXCEPT ![w] =
                   IF up THEN [payload |-> stored.payload, version |-> stored.version,
                               until |-> now + TTL]
                   ELSE [NoCache EXCEPT !.until = now + TTL]]
    /\ emptied' = [emptied EXCEPT ![w] = None]
    /\ UNCHANGED <<now, database, baseline, loading, save, faults, counts>>

\* RestartWatcher.start; a request that cannot be read counts as none.
Watch(w) ==
    /\ worker[w] = "booted"
    /\ worker' = [worker EXCEPT ![w] = "up"]
    /\ baseline' = [baseline EXCEPT ![w] = IF up THEN request ELSE 0]
    /\ blind' = IF up THEN blind ELSE blind + 1
    /\ UNCHANGED <<now, database, boot, kept, save, faults, restarts>>

-----------------------------------------------------------------------------
(* Restarting.                                                             *)

RequestRestart(w) ==
    /\ worker[w] = "up" /\ up /\ request < MaxRequests
    /\ request' = request + 1
    /\ asked' = [asked EXCEPT ![request + 1] = stored.version]
    /\ UNCHANGED <<now, stored, replaced, process, kept, save, faults, counts>>

\* Mutant: the worker ends itself only.
EndedMutant(w) == {w}

\* The parent of the worker is told to end, and all the workers with it.
Ended(w) == Worker

\* Mutant: whatever request is there is a reason.
ShouldRestartMutant(w) == request # 0

\* A request other than the one that was there at the start.
ShouldRestart(w) == request # 0 /\ request # baseline[w]

Stop(ended, state) ==
    /\ worker' = [w \in Worker |-> IF w \in ended THEN state ELSE worker[w]]
    /\ boot' = [w \in Worker |-> IF w \in ended THEN None ELSE boot[w]]
    /\ baseline' = [w \in Worker |-> IF w \in ended THEN 0 ELSE baseline[w]]
    /\ cache' = [w \in Worker |-> IF w \in ended THEN NoCache ELSE cache[w]]
    /\ loading' = [w \in Worker |-> IF w \in ended THEN None ELSE loading[w]]
    /\ emptied' = [w \in Worker |-> IF w \in ended THEN None ELSE emptied[w]]
    /\ save' = [w \in Worker |-> IF w \in ended THEN NoSave ELSE save[w]]

\* check_once, every ten seconds.
Poll(w) ==
    /\ worker[w] = "up" /\ up /\ ShouldRestart(w)
    /\ Stop(Ended(w), "down")
    /\ restarts' = restarts + 1
    /\ UNCHANGED <<now, database, faults, blind>>

\* Docker starts the container again.
StartAgain ==
    /\ \E w \in Worker : worker[w] = "down"
    /\ worker' = [w \in Worker |-> IF worker[w] = "down" THEN "booting" ELSE worker[w]]
    /\ UNCHANGED <<now, database, boot, baseline, kept, save, faults, counts>>

-----------------------------------------------------------------------------
(* The world.                                                              *)

\* Gunicorn starts a worker that died again.
WorkerDies(w) ==
    /\ worker[w] # "down" /\ outages + deaths < MaxFaults
    /\ deaths' = deaths + 1
    /\ Stop({w}, "booting")
    /\ UNCHANGED <<now, database, up, outages, counts>>

GoDown ==
    /\ up /\ outages + deaths < MaxFaults
    /\ up' = FALSE /\ outages' = outages + 1
    /\ UNCHANGED <<now, database, process, kept, save, deaths, counts>>

ComeUp ==
    /\ ~up /\ up' = TRUE
    /\ UNCHANGED <<now, database, process, kept, save, outages, deaths, counts>>

\* A read of the settings, and the two statements that drop them, are short against the TTL.
Tick ==
    /\ now < MaxTime /\ \A w \in Worker : loading[w] = None /\ save[w].at # "dropping"
    /\ now' = now + 1
    /\ UNCHANGED <<database, process, kept, save, faults, counts>>

Next ==
    \/ \E w \in Worker :
         \/ BeginRefresh(w) \/ StorePayload(w) \/ EndRefresh(w)
         \/ \E form \in Form : BeginSave(w, form)
         \/ DropPayload(w) \/ DropExpiry(w) \/ CommitSave(w) \/ RollBack(w)
         \/ Boot(w) \/ Watch(w) \/ RequestRestart(w) \/ Poll(w) \/ WorkerDies(w)
    \/ StartAgain \/ GoDown \/ ComeUp \/ Tick

Spec == Init /\ [][Next]_vars

\* Watchers poll, workers start, Docker restarts, and an outage ends.
Fairness ==
    /\ WF_vars(StartAgain) /\ WF_vars(ComeUp)
    /\ \A w \in Worker : WF_vars(Boot(w)) /\ WF_vars(Watch(w)) /\ WF_vars(Poll(w))

FairSpec == Spec /\ Fairness

-----------------------------------------------------------------------------
(* Properties.                                                             *)

Recent(since) == since # None => now - since < TTL

\* Every worker follows a save within TTL, as long as it can read the database: settings
\* that were replaced are not in use for longer, whichever worker took the save.  A worker
\* whose own save met a read of its settings may have none of them (_DatabaseOverrides:
\* invalidate between the two assignments of _refresh), only since that save and for less
\* than TTL.
SavesArriveInTime ==
    \A w \in Worker : ~Expired(w) /\ outages = 0 =>
        IF cache[w].version # None THEN Recent(replaced[cache[w].version])
        ELSE emptied[w] # None /\ Recent(emptied[w])

\* Whatever saves overlap, the two settings that have to fit each other do, where the
\* environment names neither.
SavedSettingsFit == Env = Empty => Fits(Resolved(stored.payload))

\* The container is ended once for every request, and once more at most for every watcher
\* that could not read the request it began with.
RestartsAreCounted == restarts <= request + blind

\* A restart that was asked for reaches every worker, with settings at least as new as when
\* it was asked for, even one that was starting just then; as long as no worker dies and
\* the database is there.
RestartReaches ==
    \A t \in Token :
        request >= t /\ t # 0 ~>
            \/ deaths > 0 \/ outages > 0
            \/ \A w \in Worker : worker[w] = "up" /\ boot[w] >= asked[t]

\* What is written of a save (system_settings_validation.py): a combination that is broken
\* once the save has taken effect is not stored.
BrokenIsNotSaved == Fits(Resolved(stored.payload))
=============================================================================
