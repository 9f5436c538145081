--------------------------------- MODULE Telemetry ---------------------------------
(***************************************************************************)
(* The sidecar registry and the telemetry decisions are made on.  The        *)
(* scheduler of the API process probes every lane, replaces its cache and       *)
(* publishes the rows in Redis, where each process reads them through a cache     *)
(* of its own; a job leases a lane from a snapshot taken before its transaction.     *)
(* Clocks are modelled by the age of what they have stamped; every age is capped      *)
(* where it stops mattering.                                                          *)
(***************************************************************************)
EXTENDS Integers, FiniteSets

CONSTANTS None, Lanes, Api,
          Workers,
          Configs,     \* the operator's files: sets of [lane, enabled]
          LocalTTL,    \* local_telemetry_cache_ttl_seconds
          Stale,       \* STALE_TELEMETRY_SECONDS
          RedisTTL,    \* telemetry_redis_ttl_seconds
          MaxChanges,  \* bound on the times the lanes start or stop serving
          MaxRestarts

Procs == {Api} \cup Workers

VARIABLES
    serving,     \* does the lane answer a probe with a model?
    silent,      \* ticks since it last did
    registry,    \* the sidecars table: None, or the row's enabled flag
    redis,       \* the shared row: None, or [ok, age, left]
    cache,       \* of each process and lane: None, or [ok, age, loaded]
    sweep,       \* the scheduler: None, or [todo, at, fresh, publish]
    thread,      \* of each process: None, or [todo, since, held, snap]
    lease,       \* the lane each process has leased, or None
    changes, restarts

vars == <<serving, silent, registry, redis, cache, sweep, thread, lease, changes, restarts>>

Enabled == {l \in Lanes : registry[l] = TRUE}
Older(n, cap) == IF n < cap THEN n + 1 ELSE cap
AgeRow(r) == IF r = None THEN None ELSE [r EXCEPT !.age = Older(r.age, Stale + 1)]

---------------------------------------------------------------------------------
(* The environment: time and the lanes *)

Tick ==
    /\ silent' = [l \in Lanes |-> IF serving[l] THEN 0 ELSE Older(silent[l], Stale + 1)]
    /\ redis' = [l \in Lanes |->
                    IF redis[l] = None \/ redis[l].left = 1 THEN None
                    ELSE [AgeRow(redis[l]) EXCEPT !.left = redis[l].left - 1]]
    /\ cache' = [p \in Procs |-> [l \in Lanes |->
                    IF cache[p][l] = None THEN None
                    ELSE [AgeRow(cache[p][l]) EXCEPT !.loaded = Older(cache[p][l].loaded, LocalTTL)]]]
    /\ sweep' = IF sweep = None THEN None
                ELSE [sweep EXCEPT !.fresh = [l \in Lanes |-> AgeRow(sweep.fresh[l])]]
    /\ thread' = [p \in Procs |->
                    IF thread[p] = None THEN None
                    ELSE [thread[p] EXCEPT !.held = AgeRow(thread[p].held),
                                           !.snap = [l \in Lanes |-> AgeRow(thread[p].snap[l])],
                                           !.since = Older(thread[p].since, LocalTTL)]]
    /\ UNCHANGED <<serving, registry, lease, changes, restarts>>

LaneChanges(l) ==
    /\ changes < MaxChanges
    /\ serving' = [serving EXCEPT ![l] = ~serving[l]]
    /\ silent' = [silent EXCEPT ![l] = 0]
    /\ changes' = changes + 1
    /\ UNCHANGED <<registry, redis, cache, sweep, thread, lease, restarts>>

---------------------------------------------------------------------------------
(* The scheduler of the API process *)

\* The rows are read and the transaction is closed before the first probe.
BeginSweep ==
    /\ sweep = None
    /\ sweep' = [todo |-> Enabled, at |-> None, fresh |-> [l \in Lanes |-> None], publish |-> {}]
    /\ UNCHANGED <<serving, silent, registry, redis, cache, thread, lease, changes, restarts>>

\* The row is stamped when it is built, before the lane is asked.
Probe(l) ==
    /\ sweep # None /\ sweep.at = None /\ l \in sweep.todo
    /\ sweep' = [sweep EXCEPT !.at = l, !.fresh[l] = [ok |-> FALSE, age |-> 0]]
    /\ UNCHANGED <<serving, silent, registry, redis, cache, thread, lease, changes, restarts>>

Answer ==
    /\ sweep # None /\ sweep.at # None
    /\ sweep' = [sweep EXCEPT !.at = None, !.todo = @ \ {sweep.at},
                              !.fresh[sweep.at].ok = serving[sweep.at]]
    /\ UNCHANGED <<serving, silent, registry, redis, cache, thread, lease, changes, restarts>>

\* The API's cache becomes what this sweep has seen, and nothing else.
ReplaceCache ==
    /\ sweep # None /\ sweep.todo = {} /\ sweep.publish = {}
    /\ cache' = [cache EXCEPT ![Api] = [l \in Lanes |->
                    IF sweep.fresh[l] = None THEN None
                    ELSE [ok |-> sweep.fresh[l].ok, age |-> sweep.fresh[l].age, loaded |-> 0]]]
    /\ LET seen == {l \in Lanes : sweep.fresh[l] # None}
       IN  sweep' = IF seen = {} THEN None ELSE [sweep EXCEPT !.publish = seen]
    /\ UNCHANGED <<serving, silent, registry, redis, thread, lease, changes, restarts>>

\* _publish_telemetry: a failure is logged and the row kept there stays.
Publish(l) ==
    /\ sweep # None /\ l \in sweep.publish
    /\ \/ redis' = [redis EXCEPT ![l] = [ok |-> sweep.fresh[l].ok, age |-> sweep.fresh[l].age,
                                         left |-> RedisTTL]]
       \/ UNCHANGED redis
    /\ sweep' = IF sweep.publish = {l} THEN None ELSE [sweep EXCEPT !.publish = @ \ {l}]
    /\ UNCHANGED <<serving, silent, registry, cache, thread, lease, changes, restarts>>

---------------------------------------------------------------------------------
(* Readers: prefetch_sidecar_telemetry, and cached_sidecar_telemetry for the     *)
(* inventory, which reads the same way and leases nothing                         *)

Prefetch(p) ==
    /\ thread[p] = None /\ lease[p] = None
    /\ thread' = [thread EXCEPT ![p] = [todo |-> Enabled, since |-> 0, held |-> None,
                                        snap |-> [l \in Lanes |-> None]]]
    /\ UNCHANGED <<serving, silent, registry, redis, cache, sweep, lease, changes, restarts>>

Idle(p) == thread[p] # None /\ thread[p].held = None

\* Against the clock as it was read when the prefetch began.
FreshLocal(p, l) ==
    cache[p][l] # None /\ cache[p][l].loaded - thread[p].since < LocalTTL

Seen(p, l, row) == [thread[p] EXCEPT !.todo = @ \ {l}, !.held = None, !.snap[l] = row]

TakeLocal(p, l) ==
    /\ Idle(p) /\ l \in thread[p].todo /\ FreshLocal(p, l)
    /\ thread' = [thread EXCEPT ![p] = Seen(p, l, [ok |-> cache[p][l].ok, age |-> cache[p][l].age])]
    /\ UNCHANGED <<serving, silent, registry, redis, cache, sweep, lease, changes, restarts>>

\* Mutant: what is read counts as observed when it is read.
RowStampedOnRead(l) == [ok |-> redis[l].ok, age |-> 0]

\* The age of a row is that of its observation, wherever it is read.
Row(l) == [ok |-> redis[l].ok, age |-> redis[l].age]

\* The row is read from Redis; the cache is written later, and whatever another
\* thread has put there meanwhile is replaced.
ReadShared(p, l) ==
    /\ Idle(p) /\ l \in thread[p].todo /\ ~FreshLocal(p, l)
    /\ redis[l] # None
    /\ thread' = [thread EXCEPT ![p].held = [lane |-> l, ok |-> Row(l).ok, age |-> Row(l).age]]
    /\ UNCHANGED <<serving, silent, registry, redis, cache, sweep, lease, changes, restarts>>

StoreLocal(p) ==
    /\ thread[p] # None /\ thread[p].held # None
    /\ LET row == thread[p].held
       IN  /\ cache' = [cache EXCEPT ![p][row.lane] = [ok |-> row.ok, age |-> row.age, loaded |-> 0]]
           /\ thread' = [thread EXCEPT ![p] = Seen(p, row.lane, [ok |-> row.ok, age |-> row.age])]
    /\ UNCHANGED <<serving, silent, registry, redis, sweep, lease, changes, restarts>>

\* Absent, refused by _telemetry_from_dict, or Redis did not answer.
Miss(p, l) ==
    /\ Idle(p) /\ l \in thread[p].todo /\ ~FreshLocal(p, l)
    /\ cache' = [cache EXCEPT ![p][l] = None]
    /\ thread' = [thread EXCEPT ![p] = Seen(p, l, None)]
    /\ UNCHANGED <<serving, silent, registry, redis, sweep, lease, changes, restarts>>

\* _eligible in acquire_slot, and again in _resolve_provider_for_slot.
Eligible(p, l) ==
    /\ registry[l] = TRUE
    /\ thread[p].snap[l] # None
    /\ thread[p].snap[l].ok
    /\ thread[p].snap[l].age <= Stale

Lease(p, l) ==
    /\ p \in Workers /\ Idle(p) /\ thread[p].todo = {}
    /\ Eligible(p, l)
    /\ lease' = [lease EXCEPT ![p] = l]
    /\ thread' = [thread EXCEPT ![p] = None]
    /\ UNCHANGED <<serving, silent, registry, redis, cache, sweep, changes, restarts>>

\* No lane, or the reader only wanted the rows.
GoOn(p) ==
    /\ Idle(p) /\ thread[p].todo = {}
    /\ thread' = [thread EXCEPT ![p] = None]
    /\ UNCHANGED <<serving, silent, registry, redis, cache, sweep, lease, changes, restarts>>

Release(p) ==
    /\ lease[p] # None
    /\ lease' = [lease EXCEPT ![p] = None]
    /\ UNCHANGED <<serving, silent, registry, redis, cache, sweep, thread, changes, restarts>>

---------------------------------------------------------------------------------
(* Processes come and go *)

\* seed_sidecars creates and updates the rows of the file; a lane that is no
\* longer in it keeps its row.
Seeded(config) ==
    [l \in Lanes |->
        IF \E c \in config : c.lane = l THEN (CHOOSE c \in config : c.lane = l).enabled
        ELSE registry[l]]

RestartApi(config) ==
    /\ restarts < MaxRestarts
    /\ restarts' = restarts + 1
    /\ registry' = Seeded(config)
    /\ cache' = [cache EXCEPT ![Api] = [l \in Lanes |-> None]]
    /\ thread' = [thread EXCEPT ![Api] = None]
    /\ sweep' = None
    /\ UNCHANGED <<serving, silent, redis, lease, changes>>

RestartWorker(p) ==
    /\ restarts < MaxRestarts
    /\ restarts' = restarts + 1
    /\ cache' = [cache EXCEPT ![p] = [l \in Lanes |-> None]]
    /\ thread' = [thread EXCEPT ![p] = None]
    /\ lease' = [lease EXCEPT ![p] = None]
    /\ UNCHANGED <<serving, silent, registry, redis, sweep, changes>>

Init ==
    /\ serving \in [Lanes -> BOOLEAN]
    /\ silent = [l \in Lanes |-> IF serving[l] THEN 0 ELSE Stale + 1]
    /\ \E config \in Configs :
         registry = [l \in Lanes |-> IF \E c \in config : c.lane = l
                                     THEN (CHOOSE c \in config : c.lane = l).enabled ELSE None]
    /\ redis = [l \in Lanes |-> None]
    /\ cache = [p \in Procs |-> [l \in Lanes |-> None]]
    /\ sweep = None
    /\ thread = [p \in Procs |-> None]
    /\ lease = [p \in Procs |-> None]
    /\ changes = 0 /\ restarts = 0

Next ==
    \/ Tick
    \/ \E l \in Lanes : LaneChanges(l) \/ Probe(l) \/ Publish(l)
    \/ BeginSweep \/ Answer \/ ReplaceCache
    \/ \E p \in Procs, l \in Lanes : TakeLocal(p, l) \/ ReadShared(p, l) \/ Miss(p, l) \/ Lease(p, l)
    \/ \E p \in Procs : Prefetch(p) \/ StoreLocal(p) \/ GoOn(p) \/ Release(p)
    \/ \E config \in Configs : RestartApi(config)
    \/ \E p \in Workers : RestartWorker(p)

Spec == Init /\ [][Next]_vars

---------------------------------------------------------------------------------
(* Properties *)

\* However a row has travelled - sweep, Redis, cache, snapshot - a lane is leased
\* only while it is registered as enabled and if it has answered with a model
\* within the last Stale ticks.
LeasesServed ==
    \A p \in Procs, l \in Lanes :
        (lease[p] = None /\ lease'[p] = l) => registry[l] = TRUE /\ silent[l] <= Stale

DeadLaneRefused == [][LeasesServed]_vars
=================================================================================
