------------------------------ MODULE TelemetryProofs ------------------------------
(***************************************************************************)
(* No lane is leased that has been silent for longer than Stale, for any set  *)
(* of lanes and processes and any ages.  The argument: what a row says of a      *)
(* lane that answered is never younger than the lane's silence, wherever the       *)
(* row has got to.                                                                 *)
(***************************************************************************)
EXTENDS Telemetry, TLAPS

Observed    == [ok : BOOLEAN, age : Nat]

\* What the theorem asks of the constants; None is no lane and no row.
Legal == /\ None \notin Lanes /\ None \notin Observed
         /\ Stale \in Nat /\ LocalTTL \in Int /\ RedisTTL \in Int

Shared   == [ok : BOOLEAN, age : Nat, left : Int]
Cached   == [ok : BOOLEAN, age : Nat, loaded : Int]
Held     == [lane : Lanes, ok : BOOLEAN, age : Nat]
Sweep    == [todo : SUBSET Lanes, at : Lanes \cup {None},
             fresh : [Lanes -> Observed \cup {None}], publish : SUBSET Lanes]
Thread   == [todo : SUBSET Lanes, since : Int, held : Held \cup {None},
             snap : [Lanes -> Observed \cup {None}]]

LaneTypes  == serving \in [Lanes -> BOOLEAN] /\ silent \in [Lanes -> Nat]
RedisType  == redis \in [Lanes -> Shared \cup {None}]
CacheType  == cache \in [Procs -> [Lanes -> Cached \cup {None}]]
SweepType  ==
    sweep # None =>
        /\ sweep \in Sweep
        /\ sweep.at # None => sweep.fresh[sweep.at] \in Observed
        /\ \A l \in sweep.publish : sweep.fresh[l] \in Observed
ThreadType == thread \in [Procs -> Thread \cup {None}]
LeaseType  == lease \in [Procs -> Lanes \cup {None}]

Types == LaneTypes /\ RedisType /\ CacheType /\ SweepType /\ ThreadType /\ LeaseType

\* A row that says a lane has answered is as old as the lane's silence at least.
Honest(l, row) == (row # None /\ row.ok) => silent[l] <= row.age

ServingSpeaks == \A l \in Lanes : serving[l] => silent[l] = 0
RedisHonest   == \A l \in Lanes : Honest(l, redis[l])
CacheHonest   == \A p \in Procs, l \in Lanes : Honest(l, cache[p][l])
SweepHonest   == sweep # None => \A l \in Lanes : Honest(l, sweep.fresh[l])
HeldHonest    == \A p \in Procs : (thread[p] # None /\ thread[p].held # None) =>
                     Honest(thread[p].held.lane, thread[p].held)
SnapHonest    == \A p \in Procs : thread[p] # None => \A l \in Lanes : Honest(l, thread[p].snap[l])

AllHonest == ServingSpeaks /\ RedisHonest /\ CacheHonest /\ SweepHonest /\ HeldHonest /\ SnapHonest

---------------------------------------------------------------------------------
\* Counting up to a cap keeps the order and the type.
LEMMA OlderIsNat == \A n, cap \in Nat : Older(n, cap) \in Nat
BY DEF Older

\* The same of an integer, such as the age at which a cache was loaded.
LEMMA OlderIsInt == \A n, cap \in Int : Older(n, cap) \in Int
BY DEF Older

\* Of two ages the older stays the older, although both are capped.
LEMMA OlderKeepsOrder == \A n, m, cap \in Nat : n <= m => Older(n, cap) <= Older(m, cap)
BY DEF Older

\* One tick of a row: its record stays what it is and its age goes on.
LEMMA AgedSeen ==
    ASSUME Stale \in Nat, NEW r \in Observed \cup {None}
    PROVE  /\ AgeRow(r) \in Observed \cup {None}
           /\ AgeRow(r) # None => /\ r # None
                                  /\ AgeRow(r).ok = r.ok
                                  /\ AgeRow(r).age = Older(r.age, Stale + 1)
<1>1. CASE r = None
  BY <1>1 DEF AgeRow
<1>2. CASE r # None
  <2>1. r \in Observed
    BY <1>2
  <2>2. Older(r.age, Stale + 1) \in Nat
    BY <2>1 DEF Observed, Older
  <2> QED
    BY <1>2, <2>1, <2>2 DEF AgeRow, Observed
<1> QED
  BY <1>1, <1>2

\* The same of a row in hand, whose lane stays the same too.
LEMMA AgedHeld ==
    ASSUME Stale \in Nat, NEW r \in Held \cup {None}
    PROVE  /\ AgeRow(r) \in Held \cup {None}
           /\ AgeRow(r) # None => /\ r # None
                                  /\ AgeRow(r).ok = r.ok
                                  /\ AgeRow(r).lane = r.lane
                                  /\ AgeRow(r).age = Older(r.age, Stale + 1)
<1>1. CASE r = None
  BY <1>1 DEF AgeRow
<1>2. CASE r # None
  <2>1. r \in Held
    BY <1>2
  <2>2. Older(r.age, Stale + 1) \in Nat
    BY <2>1 DEF Held, Older
  <2> QED
    BY <1>2, <2>1, <2>2 DEF AgeRow, Held
<1> QED
  BY <1>1, <1>2

---------------------------------------------------------------------------------
\* Every step keeps the types; one lemma per group of variables.
LEMMA LaneTypesKept == Legal /\ Types /\ [Next]_vars => LaneTypes'
<1> SUFFICES ASSUME Legal, Types, [Next]_vars PROVE LaneTypes'
  OBVIOUS
<1> USE DEF Legal, Types, LaneTypes
<1>1. CASE Tick
  <2>1. serving' = serving /\ silent' = [l \in Lanes |-> IF serving[l] THEN 0 ELSE Older(silent[l], Stale + 1)]
    BY <1>1 DEF Tick
  <2>2. \A l \in Lanes : Older(silent[l], Stale + 1) \in Nat
    BY DEF Older
  <2> QED
    BY <2>1, <2>2
<1>2. ASSUME NEW l \in Lanes, LaneChanges(l) PROVE LaneTypes'
  BY <1>2 DEF LaneChanges
<1>3. CASE UNCHANGED <<serving, silent>>
  BY <1>3
<1> QED
  BY <1>1, <1>2, <1>3
     DEF Next, vars, Probe, Publish, BeginSweep, Answer, ReplaceCache, TakeLocal, ReadShared, Miss, Lease,
         Prefetch, StoreLocal, GoOn, Release, RestartApi, RestartWorker

\* A shared row is published or dropped whole, and a tick changes its age and what is left of it.
LEMMA RedisTypeKept == Legal /\ Types /\ [Next]_vars => RedisType'
<1> SUFFICES ASSUME Legal, Types, [Next]_vars PROVE RedisType'
  OBVIOUS
<1> USE DEF Legal, Types, RedisType
<1>1. CASE Tick
  <2> SUFFICES ASSUME NEW l \in Lanes PROVE redis'[l] \in Shared \cup {None}
    BY <1>1 DEF Tick
  <2>1. redis'[l] = IF redis[l] = None \/ redis[l].left = 1 THEN None
                    ELSE [AgeRow(redis[l]) EXCEPT !.left = redis[l].left - 1]
    BY <1>1 DEF Tick
  <2>2. CASE redis[l] = None \/ redis[l].left = 1
    BY <2>1, <2>2
  <2>3. CASE ~(redis[l] = None \/ redis[l].left = 1)
    <3>1. redis[l] \in Shared
      BY <2>3
    <3>2. Older(redis[l].age, Stale + 1) \in Nat
      BY <3>1 DEF Older, Shared
    <3> QED
      BY <2>1, <2>3, <3>1, <3>2 DEF AgeRow, Shared
  <2> QED
    BY <2>2, <2>3
<1>2. ASSUME NEW l \in Lanes, Publish(l) PROVE RedisType'
  <2>1. CASE UNCHANGED redis
    BY <2>1
  <2>2. CASE redis' = [redis EXCEPT ![l] = [ok |-> sweep.fresh[l].ok, age |-> sweep.fresh[l].age, left |-> RedisTTL]]
    <3>1. sweep.fresh[l] \in Observed
      BY <1>2 DEF Publish, SweepType
    <3> QED
      BY <2>2, <3>1 DEF Observed, Shared
  <2> QED
    BY <1>2, <2>1, <2>2 DEF Publish
<1>3. CASE UNCHANGED redis
  BY <1>3
<1> QED
  BY <1>1, <1>2, <1>3
     DEF Next, vars, LaneChanges, Probe, BeginSweep, Answer, ReplaceCache, TakeLocal, ReadShared, Miss, Lease,
         Prefetch, StoreLocal, GoOn, Release, RestartApi, RestartWorker

\* A cached row is replaced whole, by a sweep or by a read.
LEMMA CacheTypeKept == Legal /\ Types /\ [Next]_vars => CacheType'
<1> SUFFICES ASSUME Legal, Types, [Next]_vars PROVE CacheType'
  OBVIOUS
<1> USE DEF Legal, Types, CacheType
<1>1. CASE Tick
  <2> SUFFICES ASSUME NEW p \in Procs, NEW l \in Lanes PROVE cache'[p][l] \in Cached \cup {None}
    BY <1>1 DEF Tick
  <2>1. cache'[p][l] = IF cache[p][l] = None THEN None
                       ELSE [AgeRow(cache[p][l]) EXCEPT !.loaded = Older(cache[p][l].loaded, LocalTTL)]
    BY <1>1 DEF Tick
  <2>2. CASE cache[p][l] = None
    BY <2>1, <2>2
  <2>3. CASE cache[p][l] # None
    <3>1. cache[p][l] \in Cached
      BY <2>3
    <3>2. Older(cache[p][l].age, Stale + 1) \in Nat /\ Older(cache[p][l].loaded, LocalTTL) \in Int
      BY <3>1 DEF Older, Cached
    <3> QED
      BY <2>1, <2>3, <3>1, <3>2 DEF AgeRow, Cached
  <2> QED
    BY <2>2, <2>3
<1>2. CASE ReplaceCache
  <2>1. sweep \in Sweep
    BY <1>2 DEF ReplaceCache, SweepType
  <2>2. \A l \in Lanes : sweep.fresh[l] # None => sweep.fresh[l] \in Observed
    BY <2>1 DEF Sweep
  <2> DEFINE row(l) == IF sweep.fresh[l] = None THEN None
                       ELSE [ok |-> sweep.fresh[l].ok, age |-> sweep.fresh[l].age, loaded |-> 0]
  <2>3. \A l \in Lanes : row(l) \in Cached \cup {None}
    BY <2>2 DEF Observed, Cached
  <2>4. cache' = [cache EXCEPT ![Api] = [l \in Lanes |-> row(l)]]
    BY <1>2 DEF ReplaceCache
  <2> HIDE DEF row
  <2>5. [l \in Lanes |-> row(l)] \in [Lanes -> Cached \cup {None}]
    BY <2>3
  <2> QED
    BY <2>4, <2>5
<1>3. ASSUME NEW p \in Procs, StoreLocal(p) PROVE CacheType'
  <2>1. thread[p].held \in Held
    BY <1>3 DEF StoreLocal, ThreadType, Thread
  <2> DEFINE row == [ok |-> thread[p].held.ok, age |-> thread[p].held.age, loaded |-> 0]
  <2>2. row \in Cached /\ thread[p].held.lane \in Lanes
    BY <2>1 DEF Held, Cached
  <2>3. cache' = [cache EXCEPT ![p][thread[p].held.lane] = row]
    BY <1>3 DEF StoreLocal
  <2> HIDE DEF row
  <2> QED
    BY <2>2, <2>3
<1>4. ASSUME NEW p \in Procs, NEW l \in Lanes, Miss(p, l) PROVE CacheType'
  BY <1>4 DEF Miss
<1>5. ASSUME NEW p \in Procs, cache' = [cache EXCEPT ![p] = [l \in Lanes |-> None]] PROVE CacheType'
  BY <1>5
<1>6. CASE UNCHANGED cache
  BY <1>6
<1> QED
  BY <1>1, <1>2, <1>3, <1>4, <1>5, <1>6
     DEF Next, vars, LaneChanges, Probe, Publish, BeginSweep, Answer, TakeLocal, ReadShared, Lease,
         Prefetch, GoOn, Release, RestartApi, RestartWorker, Procs

\* Only lanes the sweep has begun to probe are asked about or published.
LEMMA SweepTypeKept == Legal /\ Types /\ [Next]_vars => SweepType'
<1> SUFFICES ASSUME Legal, Types, [Next]_vars PROVE SweepType'
  OBVIOUS
<1> USE DEF Legal, Types, SweepType
<1>1. CASE Tick
  <2> SUFFICES ASSUME sweep # None
               PROVE  /\ sweep' \in Sweep
                      /\ sweep'.at # None => sweep'.fresh[sweep'.at] \in Observed
                      /\ \A l \in sweep'.publish : sweep'.fresh[l] \in Observed
    BY <1>1 DEF Tick
  <2> DEFINE aged == [l \in Lanes |-> AgeRow(sweep.fresh[l])]
  <2>1. \A l \in Lanes : sweep.fresh[l] \in Observed \cup {None}
    BY DEF Sweep
  <2>2. \A l \in Lanes : AgeRow(sweep.fresh[l]) \in Observed \cup {None}
    BY <2>1, AgedSeen
  <2>3. aged \in [Lanes -> Observed \cup {None}]
    BY <2>2
  <2>4. \A l \in Lanes : sweep.fresh[l] \in Observed /\ sweep.fresh[l] # None => aged[l] \in Observed
    BY DEF AgeRow, Observed, Older
  <2>5. \A l \in Lanes : sweep.fresh[l] \in Observed => aged[l] \in Observed
    BY <2>4 DEF AgeRow
  <2>6. sweep' = [sweep EXCEPT !.fresh = aged]
    BY <1>1 DEF Tick
  <2> HIDE DEF aged
  <2> QED
    BY <2>3, <2>5, <2>6 DEF Sweep
<1>2. CASE BeginSweep
  BY <1>2 DEF BeginSweep, Sweep, Enabled
<1>3. ASSUME NEW l \in Lanes, Probe(l) PROVE SweepType'
  <2> DEFINE row == [ok |-> FALSE, age |-> 0]
  <2>1. row \in Observed
    BY DEF Observed
  <2>2. sweep # None /\ sweep' = [sweep EXCEPT !.at = l, !.fresh[l] = row]
    BY <1>3 DEF Probe
  <2> HIDE DEF row
  <2> QED
    BY <2>1, <2>2 DEF Sweep
<1>4. CASE Answer
  <2>1. sweep \in Sweep /\ sweep.at \in Lanes /\ sweep.fresh[sweep.at] \in Observed
    BY <1>4 DEF Answer, Sweep
  <2> DEFINE row == [sweep.fresh[sweep.at] EXCEPT !.ok = serving[sweep.at]]
  <2>2. row \in Observed
    BY <2>1 DEF Observed, LaneTypes
  <2>3. /\ sweep'.at = None
        /\ sweep' \in [todo : SUBSET Lanes, at : Lanes \cup {None}, fresh : [Lanes -> Observed \cup {None}], publish : SUBSET Lanes]
        /\ sweep'.publish = sweep.publish
        /\ sweep'.fresh = [sweep.fresh EXCEPT ![sweep.at] = row]
    BY <1>4, <2>1, <2>2 DEF Answer, Sweep
  <2> HIDE DEF row
  <2> QED
    BY <1>4, <2>1, <2>2, <2>3 DEF Sweep, Answer
<1>5. CASE ReplaceCache
  <2>1. sweep # None /\ sweep \in Sweep
    BY <1>5 DEF ReplaceCache
  <2> DEFINE seen == {l \in Lanes : sweep.fresh[l] # None}
  <2>2. \A l \in seen : sweep.fresh[l] \in Observed
    BY <2>1 DEF Sweep
  <2>3. sweep' = None \/ sweep' = [sweep EXCEPT !.publish = seen]
    BY <1>5 DEF ReplaceCache
  <2> QED
    BY <2>1, <2>2, <2>3 DEF Sweep
<1>6. ASSUME NEW l \in Lanes, Publish(l) PROVE SweepType'
  <2>1. sweep # None /\ (sweep' = None \/ sweep' = [sweep EXCEPT !.publish = @ \ {l}])
    BY <1>6 DEF Publish
  <2> QED
    BY <2>1 DEF Sweep
<1>7. CASE sweep' = None
  BY <1>7
<1>8. CASE UNCHANGED sweep
  BY <1>8
<1> QED
  BY <1>1, <1>2, <1>3, <1>4, <1>5, <1>6, <1>7, <1>8
     DEF Next, vars, LaneChanges, TakeLocal, ReadShared, Miss, Lease,
         Prefetch, StoreLocal, GoOn, Release, RestartApi, RestartWorker

\* A snapshot gets its rows from the cache of the process or from a row in hand.
LEMMA ThreadTypeKept == Legal /\ Types /\ [Next]_vars => ThreadType'
<1> SUFFICES ASSUME Legal, Types, [Next]_vars PROVE ThreadType'
  OBVIOUS
<1> USE DEF Legal, Types, ThreadType
<1>1. CASE Tick
  <2> SUFFICES ASSUME NEW p \in Procs PROVE thread'[p] \in Thread \cup {None}
    BY <1>1 DEF Tick
  <2>1. thread'[p] = IF thread[p] = None THEN None
                     ELSE [thread[p] EXCEPT !.held = AgeRow(thread[p].held),
                                            !.snap = [l \in Lanes |-> AgeRow(thread[p].snap[l])],
                                            !.since = Older(thread[p].since, LocalTTL)]
    BY <1>1 DEF Tick
  <2>2. CASE thread[p] # None
    <3>1. thread[p] \in Thread
      BY <2>2
    <3>2. Older(thread[p].since, LocalTTL) \in Int
      BY <3>1 DEF Older, Thread
    <3>3. AgeRow(thread[p].held) \in Held \cup {None}
      BY <3>1, AgedHeld DEF Thread
    <3>4. \A l \in Lanes : AgeRow(thread[p].snap[l]) \in Observed \cup {None}
      BY <3>1, AgedSeen DEF Thread
    <3> DEFINE aged == [l \in Lanes |-> AgeRow(thread[p].snap[l])]
    <3>5. aged \in [Lanes -> Observed \cup {None}]
      BY <3>4
    <3>6. thread'[p] = [thread[p] EXCEPT !.held = AgeRow(thread[p].held), !.snap = aged,
                                         !.since = Older(thread[p].since, LocalTTL)]
      BY <2>1, <2>2
    <3> HIDE DEF aged
    <3> QED
      BY <3>1, <3>2, <3>3, <3>5, <3>6 DEF Thread
  <2> QED
    BY <2>1, <2>2
<1>2. ASSUME NEW p \in Procs, Prefetch(p) PROVE ThreadType'
  <2> DEFINE new == [todo |-> Enabled, since |-> 0, held |-> None, snap |-> [l \in Lanes |-> None]]
  <2>1. new \in Thread
    BY DEF Thread, Enabled
  <2>2. thread' = [thread EXCEPT ![p] = new]
    BY <1>2 DEF Prefetch
  <2> HIDE DEF new
  <2> QED
    BY <2>1, <2>2
<1>3. ASSUME NEW p \in Procs, NEW l \in Lanes, NEW row \in Observed \cup {None},
             thread[p] # None, thread' = [thread EXCEPT ![p] = Seen(p, l, row)]
      PROVE  ThreadType'
  <2>1. Seen(p, l, row) \in Thread
    BY <1>3 DEF Seen, Thread
  <2> QED
    BY <1>3, <2>1
<1>4. ASSUME NEW p \in Procs, NEW l \in Lanes, TakeLocal(p, l) PROVE ThreadType'
  <2>1. cache[p][l] \in Cached
    BY <1>4 DEF TakeLocal, FreshLocal, CacheType
  <2>2. [ok |-> cache[p][l].ok, age |-> cache[p][l].age] \in Observed
    BY <2>1 DEF Cached, Observed
  <2> QED
    BY <1>3, <1>4, <2>2 DEF TakeLocal, Idle
<1>5. ASSUME NEW p \in Procs, NEW l \in Lanes, ReadShared(p, l) PROVE ThreadType'
  <2>1. redis[l] \in Shared /\ thread[p] \in Thread
    BY <1>5 DEF ReadShared, RedisType, Idle
  <2> DEFINE row == [lane |-> l, ok |-> Row(l).ok, age |-> Row(l).age]
  <2>2. row \in Held
    BY <2>1 DEF Shared, Held, Row
  <2>3. thread' = [thread EXCEPT ![p].held = row]
    BY <1>5 DEF ReadShared
  <2> HIDE DEF row
  <2> QED
    BY <2>1, <2>2, <2>3 DEF Thread
<1>6. ASSUME NEW p \in Procs, StoreLocal(p) PROVE ThreadType'
  <2>1. thread[p] # None /\ thread[p].held \in Held
    BY <1>6 DEF StoreLocal, Thread
  <2>2. thread[p].held.lane \in Lanes /\ [ok |-> thread[p].held.ok, age |-> thread[p].held.age] \in Observed
    BY <2>1 DEF Held, Observed
  <2> QED
    BY <1>3, <1>6, <2>1, <2>2 DEF StoreLocal
<1>7. ASSUME NEW p \in Procs, NEW l \in Lanes, Miss(p, l) PROVE ThreadType'
  BY <1>3, <1>7 DEF Miss, Idle
<1>8. ASSUME NEW p \in Procs, thread' = [thread EXCEPT ![p] = None] PROVE ThreadType'
  BY <1>8
<1>9. CASE UNCHANGED thread
  BY <1>9
<1> QED
  BY <1>1, <1>2, <1>4, <1>5, <1>6, <1>7, <1>8, <1>9
     DEF Next, vars, LaneChanges, Probe, Publish, BeginSweep, Answer, ReplaceCache, Lease,
         GoOn, Release, RestartApi, RestartWorker, Procs

\* A lease is a lane of the system.
LEMMA LeaseTypeKept == Legal /\ Types /\ [Next]_vars => LeaseType'
<1> SUFFICES ASSUME Legal, Types, [Next]_vars PROVE LeaseType'
  OBVIOUS
<1> USE DEF Legal, Types, LeaseType
<1>1. ASSUME NEW p \in Procs, NEW l \in Lanes \cup {None}, lease' = [lease EXCEPT ![p] = l] PROVE LeaseType'
  BY <1>1
<1>2. CASE UNCHANGED lease
  BY <1>2
<1> QED
  BY <1>1, <1>2
     DEF Next, vars, Tick, LaneChanges, Probe, Publish, BeginSweep, Answer, ReplaceCache, TakeLocal,
         ReadShared, Miss, Lease, Prefetch, StoreLocal, GoOn, Release, RestartApi, RestartWorker, Procs

---------------------------------------------------------------------------------
\* Every step keeps the rows honest.  A tick ages rows and silence alike.
LEMMA HonestTick ==
    ASSUME Legal, Types, AllHonest, Tick
    PROVE  AllHonest'
<1> USE DEF Legal, Types, AllHonest
<1>1. \A l \in Lanes : silent[l] \in Nat /\ silent'[l] \in Nat /\ silent'[l] <= Older(silent[l], Stale + 1)
  <2> SUFFICES ASSUME NEW l \in Lanes
               PROVE  silent[l] \in Nat /\ silent'[l] \in Nat /\ silent'[l] <= Older(silent[l], Stale + 1)
    OBVIOUS
  <2>1. silent'[l] = IF serving[l] THEN 0 ELSE Older(silent[l], Stale + 1)
    BY DEF Tick
  <2> QED
    BY <2>1 DEF LaneTypes, Older
<1>2. ASSUME NEW l \in Lanes, NEW n \in Nat, silent[l] <= n
      PROVE  silent'[l] <= Older(n, Stale + 1)
  BY <1>1, <1>2 DEF Older
<1>3. ServingSpeaks'
  <2>1. \A l \in Lanes : serving'[l] = serving[l] /\ silent'[l] = IF serving[l] THEN 0 ELSE Older(silent[l], Stale + 1)
    BY DEF Tick
  <2> QED
    BY <2>1 DEF ServingSpeaks
<1>4. RedisHonest'
  <2> SUFFICES ASSUME NEW l \in Lanes, redis'[l] # None, redis'[l].ok PROVE silent'[l] <= redis'[l].age
    BY DEF RedisHonest, Honest
  <2>1. redis'[l] = IF redis[l] = None \/ redis[l].left = 1 THEN None
                    ELSE [AgeRow(redis[l]) EXCEPT !.left = redis[l].left - 1]
    BY DEF Tick
  <2>2. redis[l] # None /\ redis[l] \in Shared
    BY <2>1 DEF RedisType
  <2>3. redis'[l].ok = redis[l].ok /\ redis'[l].age = Older(redis[l].age, Stale + 1)
    BY <2>1, <2>2 DEF AgeRow, Shared
  <2>4. redis[l].age \in Nat /\ silent[l] <= redis[l].age
    BY <2>2, <2>3 DEF RedisHonest, Honest, Shared
  <2> QED
    BY <1>2, <2>3, <2>4
<1>5. CacheHonest'
  <2> SUFFICES ASSUME NEW p \in Procs, NEW l \in Lanes, cache'[p][l] # None, cache'[p][l].ok
               PROVE  silent'[l] <= cache'[p][l].age
    BY DEF CacheHonest, Honest
  <2>1. cache'[p][l] = IF cache[p][l] = None THEN None
                       ELSE [AgeRow(cache[p][l]) EXCEPT !.loaded = Older(cache[p][l].loaded, LocalTTL)]
    BY DEF Tick
  <2>2. cache[p][l] # None /\ cache[p][l] \in Cached
    BY <2>1 DEF CacheType
  <2>3. cache'[p][l].ok = cache[p][l].ok /\ cache'[p][l].age = Older(cache[p][l].age, Stale + 1)
    BY <2>1, <2>2 DEF AgeRow, Cached
  <2>4. cache[p][l].age \in Nat /\ silent[l] <= cache[p][l].age
    BY <2>2, <2>3 DEF CacheHonest, Honest, Cached
  <2> QED
    BY <1>2, <2>3, <2>4
<1>6. SweepHonest'
  <2> SUFFICES ASSUME sweep' # None, NEW l \in Lanes, sweep'.fresh[l] # None, sweep'.fresh[l].ok
               PROVE  silent'[l] <= sweep'.fresh[l].age
    BY DEF SweepHonest, Honest
  <2>1. sweep # None /\ sweep \in Sweep
    BY DEF Tick, SweepType
  <2>2. sweep' = [sweep EXCEPT !.fresh = [k \in Lanes |-> AgeRow(sweep.fresh[k])]]
    BY <2>1 DEF Tick
  <2>3. sweep'.fresh[l] = AgeRow(sweep.fresh[l]) /\ sweep.fresh[l] \in Observed \cup {None}
    BY <2>1, <2>2 DEF Sweep
  <2>4. /\ sweep.fresh[l] # None /\ sweep.fresh[l].ok
        /\ sweep'.fresh[l].age = Older(sweep.fresh[l].age, Stale + 1)
    BY <2>3, AgedSeen
  <2>5. sweep.fresh[l].age \in Nat /\ silent[l] <= sweep.fresh[l].age
    BY <2>1, <2>3, <2>4 DEF SweepHonest, Honest, Observed
  <2> QED
    BY <1>2, <2>4, <2>5
<1>7. ASSUME NEW p \in Procs, thread'[p] # None
      PROVE  /\ thread[p] # None /\ thread[p] \in Thread
             /\ thread'[p].held = AgeRow(thread[p].held)
             /\ thread'[p].snap = [l \in Lanes |-> AgeRow(thread[p].snap[l])]
  <2>1. thread'[p] = IF thread[p] = None THEN None
                     ELSE [thread[p] EXCEPT !.held = AgeRow(thread[p].held),
                                            !.snap = [l \in Lanes |-> AgeRow(thread[p].snap[l])],
                                            !.since = Older(thread[p].since, LocalTTL)]
    BY DEF Tick
  <2>2. thread[p] # None /\ thread[p] \in Thread
    BY <1>7, <2>1 DEF ThreadType
  <2> QED
    BY <2>1, <2>2 DEF Thread
<1>8. HeldHonest'
  <2> SUFFICES ASSUME NEW p \in Procs, thread'[p] # None, thread'[p].held # None, thread'[p].held.ok
               PROVE  silent'[thread'[p].held.lane] <= thread'[p].held.age
    BY DEF HeldHonest, Honest
  <2>1. thread[p] # None /\ thread[p].held \in Held \cup {None} /\ thread'[p].held = AgeRow(thread[p].held)
    BY <1>7 DEF Thread
  <2>2. /\ thread[p].held # None /\ thread[p].held.ok
        /\ thread'[p].held.lane = thread[p].held.lane
        /\ thread'[p].held.age = Older(thread[p].held.age, Stale + 1)
    BY <2>1, AgedHeld
  <2>3. /\ thread[p].held.lane \in Lanes /\ thread[p].held.age \in Nat
        /\ silent[thread[p].held.lane] <= thread[p].held.age
    BY <2>1, <2>2 DEF HeldHonest, Honest, Held
  <2> QED
    BY <1>2, <2>2, <2>3
<1>9. SnapHonest'
  <2> SUFFICES ASSUME NEW p \in Procs, thread'[p] # None,
                      NEW l \in Lanes, thread'[p].snap[l] # None, thread'[p].snap[l].ok
               PROVE  silent'[l] <= thread'[p].snap[l].age
    BY DEF SnapHonest, Honest
  <2> DEFINE snap == thread[p].snap
  <2>0. thread[p] # None /\ snap \in [Lanes -> Observed \cup {None}] /\ thread'[p].snap = [k \in Lanes |-> AgeRow(snap[k])]
    BY <1>7 DEF Thread
  <2>1. thread[p] # None /\ thread[p].snap[l] \in Observed \cup {None} /\ thread'[p].snap[l] = AgeRow(thread[p].snap[l])
    BY <2>0
  <2>2. /\ thread[p].snap[l] # None /\ thread[p].snap[l].ok
        /\ thread'[p].snap[l].age = Older(thread[p].snap[l].age, Stale + 1)
    BY <2>1, AgedSeen
  <2>3. thread[p].snap[l].age \in Nat /\ silent[l] <= thread[p].snap[l].age
    BY <2>1, <2>2 DEF SnapHonest, Honest, Observed
  <2> QED
    BY <1>2, <2>2, <2>3
<1> QED
  BY <1>3, <1>4, <1>5, <1>6, <1>8, <1>9

\* A thread that takes a row in hand keeps its snapshot, and the others theirs.
LEMMA TakenInHand ==
    ASSUME ThreadType, NEW p \in Procs, thread[p] \in Thread, NEW row,
           thread' = [thread EXCEPT ![p].held = row]
    PROVE  /\ \A q \in Procs : q # p => thread'[q] = thread[q]
           /\ thread'[p].held = row
           /\ thread'[p].snap = thread[p].snap
<1>1. thread'[p] = [thread[p] EXCEPT !.held = row]
  BY DEF ThreadType
<1>2. \A q \in Procs : q # p => thread'[q] = thread[q]
  BY DEF ThreadType
<1> QED
  BY <1>1, <1>2 DEF Thread

\* Elsewhere no lane becomes more silent, and rows are copied with their age.
LEMMA HonestStep ==
    ASSUME Legal, Types, AllHonest, Next, ~Tick
    PROVE  AllHonest'
<1> USE DEF Legal, Types, AllHonest
<1>1. \A l \in Lanes : silent[l] \in Nat /\ silent'[l] \in Nat /\ silent'[l] <= silent[l]
  <2>1. ASSUME NEW k \in Lanes, LaneChanges(k), NEW l \in Lanes
        PROVE  silent[l] \in Nat /\ silent'[l] \in Nat /\ silent'[l] <= silent[l]
    <3>1. silent' = [silent EXCEPT ![k] = 0] /\ silent \in [Lanes -> Nat]
      BY <2>1 DEF LaneChanges, LaneTypes
    <3>2. silent[l] \in Nat /\ (silent'[l] = 0 \/ silent'[l] = silent[l])
      BY <3>1
    <3> QED
      BY <3>2
  <2>2. CASE silent' = silent
    <3>1. ASSUME NEW l \in Lanes PROVE silent[l] \in Nat /\ silent[l] <= silent[l]
      BY <3>1 DEF LaneTypes
    <3> QED
      BY <2>2, <3>1
  <2>3. (\E k \in Lanes : LaneChanges(k)) \/ silent' = silent
    BY DEF Next, Probe, Publish, BeginSweep, Answer, ReplaceCache, TakeLocal, ReadShared,
           Miss, Lease, Prefetch, StoreLocal, GoOn, Release, RestartApi, RestartWorker
  <2> QED
    BY <2>1, <2>2, <2>3
<1>2. ASSUME NEW l \in Lanes, NEW row, Honest(l, row), row # None => row.age \in Nat
      PROVE  Honest(l, row)'
  BY <1>1, <1>2 DEF Honest
<1>3. ServingSpeaks'
  <2>1. ASSUME NEW k \in Lanes, LaneChanges(k) PROVE ServingSpeaks'
    BY <2>1 DEF LaneChanges, LaneTypes, ServingSpeaks
  <2>2. CASE UNCHANGED <<serving, silent>>
    BY <2>2 DEF ServingSpeaks
  <2> QED
    BY <2>1, <2>2 DEF Next, Probe, Publish, BeginSweep, Answer, ReplaceCache, TakeLocal, ReadShared,
         Miss, Lease, Prefetch, StoreLocal, GoOn, Release, RestartApi, RestartWorker
<1>4. RedisHonest'
  <2>1. ASSUME NEW k \in Lanes, Publish(k), ~UNCHANGED redis PROVE RedisHonest'
    <3>1. redis' = [redis EXCEPT ![k] = [ok |-> sweep.fresh[k].ok, age |-> sweep.fresh[k].age, left |-> RedisTTL]]
      BY <2>1 DEF Publish
    <3>2. silent' = silent
      BY <2>1 DEF Publish
    <3>3. Honest(k, sweep.fresh[k]) /\ sweep.fresh[k] \in Observed /\ sweep # None
      BY <2>1 DEF Publish, SweepHonest, SweepType
    <3>4. (sweep.fresh[k].ok => silent[k] <= sweep.fresh[k].age) \/ sweep.fresh[k] = None
      BY <3>3 DEF Honest
    <3>5. ASSUME NEW l \in Lanes, redis'[l] # None, redis'[l].ok PROVE silent'[l] <= redis'[l].age
      <4>1. CASE l # k
        BY <3>1, <3>2, <3>5, <4>1 DEF RedisHonest, Honest, RedisType
      <4>2. CASE l = k
        <5>1. redis'[l] = [ok |-> sweep.fresh[k].ok, age |-> sweep.fresh[k].age, left |-> RedisTTL]
          BY <3>1, <4>2 DEF RedisType
        <5>2. sweep.fresh[k] # None
          BY <3>3
        <5> QED
          BY <3>2, <3>4, <3>5, <4>2, <5>1, <5>2
      <4> QED
        BY <4>1, <4>2
    <3> QED
      BY <3>5 DEF RedisHonest, Honest
  <2>2. CASE UNCHANGED redis
    <3> SUFFICES ASSUME NEW l \in Lanes PROVE Honest(l, redis[l])'
      BY DEF RedisHonest
    <3>1. Honest(l, redis[l]) /\ (redis[l] # None => redis[l].age \in Nat)
      BY DEF RedisHonest, RedisType, Shared
    <3> QED
      BY <1>1, <2>2, <3>1 DEF Honest
  <2> QED
    BY <2>1, <2>2 DEF Next, LaneChanges, Probe, BeginSweep, Answer, ReplaceCache, TakeLocal, ReadShared,
         Miss, Lease, Prefetch, StoreLocal, GoOn, Release, RestartApi, RestartWorker

<1>5. CacheHonest'
  <2>1. CASE ReplaceCache
    <3> DEFINE row(l) == IF sweep.fresh[l] = None THEN None
                         ELSE [ok |-> sweep.fresh[l].ok, age |-> sweep.fresh[l].age, loaded |-> 0]
    <3>1. cache' = [cache EXCEPT ![Api] = [l \in Lanes |-> row(l)]] /\ silent' = silent
      BY <2>1 DEF ReplaceCache
    <3>2. \A l \in Lanes : Honest(l, row(l))
      BY <2>1 DEF ReplaceCache, SweepHonest, Honest
    <3> HIDE DEF row
    <3>3. ASSUME NEW p \in Procs, NEW l \in Lanes PROVE cache'[p][l] = IF p = Api THEN row(l) ELSE cache[p][l]
      BY <3>1 DEF CacheType
    <3> QED
      BY <3>1, <3>2, <3>3 DEF CacheHonest, Honest
  <2>2. ASSUME NEW p \in Procs, StoreLocal(p) PROVE CacheHonest'
    <3> DEFINE held == thread[p].held
               row  == [ok |-> held.ok, age |-> held.age, loaded |-> 0]
    <3>1. held.lane \in Lanes /\ Honest(held.lane, held) /\ held # None
      BY <2>2 DEF StoreLocal, HeldHonest, ThreadType, Thread, Held
    <3>2. cache' = [cache EXCEPT ![p][held.lane] = row] /\ silent' = silent
      BY <2>2 DEF StoreLocal
    <3>3. row.ok => silent[held.lane] <= row.age
      BY <3>1 DEF Honest
    <3> HIDE DEF held, row
    <3>4. ASSUME NEW q \in Procs, NEW l \in Lanes
          PROVE  cache'[q][l] = IF q = p /\ l = held.lane THEN row ELSE cache[q][l]
      BY <3>1, <3>2 DEF CacheType
    <3> QED
      BY <3>2, <3>3, <3>4 DEF CacheHonest, Honest
  <2>3. CASE \A p \in Procs, l \in Lanes : cache'[p][l] \in {cache[p][l], None}
    <3> SUFFICES ASSUME NEW p \in Procs, NEW l \in Lanes PROVE Honest(l, cache[p][l])'
      BY DEF CacheHonest
    <3>1. Honest(l, cache[p][l]) /\ (cache[p][l] # None => cache[p][l].age \in Nat)
      BY DEF CacheHonest, CacheType, Cached
    <3> QED
      BY <1>1, <2>3, <3>1 DEF Honest
  <2>4. ASSUME NEW p \in Procs, NEW l \in Lanes, Miss(p, l) PROVE CacheHonest'
    BY <2>3, <2>4 DEF Miss, CacheType
  <2>5. ASSUME NEW p \in Procs, cache' = [cache EXCEPT ![p] = [l \in Lanes |-> None]] PROVE CacheHonest'
    BY <2>3, <2>5 DEF CacheType
  <2>6. CASE UNCHANGED cache
    BY <2>3, <2>6
  <2> QED
    BY <2>1, <2>2, <2>4, <2>5, <2>6 DEF Next, LaneChanges, Probe, Publish, BeginSweep, Answer, TakeLocal,
         ReadShared, Lease, Prefetch, GoOn, Release, RestartApi, RestartWorker, Procs
<1>6. SweepHonest'
  <2>1. CASE BeginSweep
    BY <2>1 DEF BeginSweep, SweepHonest, Honest
  <2>2. ASSUME NEW k \in Lanes, Probe(k) PROVE SweepHonest'
    <3>1. sweep \in Sweep /\ silent' = silent /\ sweep' = [sweep EXCEPT !.at = k, !.fresh[k] = [ok |-> FALSE, age |-> 0]]
      BY <2>2 DEF Probe, SweepType
    <3>2. ASSUME NEW l \in Lanes
          PROVE  sweep'.fresh[l] = IF l = k THEN [ok |-> FALSE, age |-> 0] ELSE sweep.fresh[l]
      BY <3>1 DEF Sweep
    <3> QED
      BY <2>2, <3>1, <3>2 DEF SweepHonest, Honest, Probe
  <2>3. CASE Answer
    <3> DEFINE at == sweep.at
    <3>1. /\ sweep # None /\ sweep \in Sweep /\ silent' = silent /\ at \in Lanes /\ sweep.fresh[at] \in Observed
          /\ sweep' = [sweep EXCEPT !.at = None, !.todo = @ \ {sweep.at}, !.fresh[sweep.at].ok = serving[sweep.at]]
      BY <2>3 DEF Answer, SweepType, Sweep
    <3>2. ASSUME NEW l \in Lanes, l # at PROVE sweep'.fresh[l] = sweep.fresh[l]
      BY <3>1, <3>2 DEF Sweep
    <3>3. sweep'.fresh[at].ok = serving[at] /\ sweep'.fresh[at].age = sweep.fresh[at].age
      BY <3>1 DEF Sweep, Observed
    <3>4. serving[at] => silent[at] <= sweep.fresh[at].age
      BY <3>1 DEF ServingSpeaks, Observed
    <3> QED
      BY <3>1, <3>2, <3>3, <3>4 DEF SweepHonest, Honest
  <2>4. CASE ReplaceCache \/ \E l \in Lanes : Publish(l)
    <3>0. \E S : sweep' = None \/ sweep' = [sweep EXCEPT !.publish = S]
      BY <2>4 DEF ReplaceCache, Publish
    <3>1. silent' = silent /\ (sweep' # None => \A l \in Lanes : sweep'.fresh[l] = sweep.fresh[l]) /\ sweep # None
      BY <2>4, <3>0 DEF ReplaceCache, Publish, SweepType, Sweep
    <3> QED
      BY <3>1 DEF SweepHonest, Honest
  <2>5. CASE sweep' = None
    BY <2>5 DEF SweepHonest
  <2>6. CASE UNCHANGED sweep
    <3> SUFFICES ASSUME sweep # None, NEW l \in Lanes PROVE Honest(l, sweep.fresh[l])'
      BY <2>6 DEF SweepHonest
    <3>1. Honest(l, sweep.fresh[l]) /\ (sweep.fresh[l] # None => sweep.fresh[l].age \in Nat)
      BY DEF SweepHonest, SweepType, Sweep, Observed
    <3> QED
      BY <1>1, <2>6, <3>1 DEF Honest
  <2> QED
    BY <2>1, <2>2, <2>3, <2>4, <2>5, <2>6 DEF Next, LaneChanges, TakeLocal, ReadShared, Miss, Lease,
         Prefetch, StoreLocal, GoOn, Release, RestartApi, RestartWorker

<1>7. HeldHonest'
  <2>1. ASSUME NEW p \in Procs, NEW l \in Lanes, ReadShared(p, l) PROVE HeldHonest'
    <3>1. /\ redis[l] \in Shared /\ thread[p] \in Thread /\ silent' = silent
          /\ redis[l].ok => silent[l] <= redis[l].age
      BY <2>1 DEF ReadShared, RedisType, ThreadType, Idle, RedisHonest, Honest
    <3> DEFINE row == [lane |-> l, ok |-> redis[l].ok, age |-> redis[l].age]
    <3>2. thread' = [thread EXCEPT ![p].held = row]
      BY <2>1 DEF ReadShared, Row
    <3>3. row.lane = l /\ row.ok = redis[l].ok /\ row.age = redis[l].age
      OBVIOUS
    <3> HIDE DEF row
    <3>4. (\A q \in Procs : q # p => thread'[q] = thread[q]) /\ thread'[p].held = row
      BY <3>1, <3>2, TakenInHand
    <3>5. row.ok => silent[row.lane] <= row.age
      BY <3>1, <3>3
    <3>6. ASSUME NEW q \in Procs, thread'[q] # None, thread'[q].held # None, thread'[q].held.ok
          PROVE  silent[thread'[q].held.lane] <= thread'[q].held.age
      <4>1. CASE q = p
        BY <3>4, <3>5, <3>6, <4>1
      <4>2. CASE q # p
        BY <3>4, <3>6, <4>2 DEF HeldHonest, Honest
      <4> QED
        BY <4>1, <4>2
    <3> QED
      BY <3>1, <3>6 DEF HeldHonest, Honest
  <2>2. CASE \A p \in Procs : thread'[p] # None =>
                 thread'[p].held = None \/ (thread[p] # None /\ thread'[p].held = thread[p].held)
    <3> SUFFICES ASSUME NEW p \in Procs, thread'[p] # None, thread'[p].held # None, thread'[p].held.ok
                 PROVE  silent'[thread'[p].held.lane] <= thread'[p].held.age
      BY DEF HeldHonest, Honest
    <3>1. thread[p] # None /\ thread[p].held # None /\ thread'[p].held = thread[p].held
      BY <2>2
    <3>2. thread[p].held \in Held /\ Honest(thread[p].held.lane, thread[p].held)
      BY <3>1 DEF HeldHonest, ThreadType, Thread
    <3>3. thread[p].held.lane \in Lanes /\ thread[p].held.age \in Nat
      BY <3>2 DEF Held
    <3> QED
      BY <1>1, <3>1, <3>2, <3>3 DEF Honest
  <2>3. ASSUME NEW p \in Procs, thread' = [thread EXCEPT ![p] = None] PROVE HeldHonest'
    BY <2>2, <2>3 DEF ThreadType
  <2>4. ASSUME NEW p \in Procs, NEW l, NEW row, thread' = [thread EXCEPT ![p] = Seen(p, l, row)], thread[p] # None
        PROVE  HeldHonest'
    <3>1. thread[p] \in Thread
      BY <2>4 DEF ThreadType
    <3>2. Seen(p, l, row).held = None
      BY <3>1 DEF Seen, Thread
    <3> QED
      BY <2>2, <2>4, <3>2 DEF ThreadType
  <2>5. ASSUME NEW p \in Procs, Prefetch(p) PROVE HeldHonest'
    BY <2>2, <2>5 DEF Prefetch, ThreadType
  <2>6. CASE UNCHANGED thread
    BY <2>2, <2>6
  <2>7. ASSUME NEW p \in Procs, NEW l \in Lanes, TakeLocal(p, l) \/ Miss(p, l) PROVE HeldHonest'
    BY <2>4, <2>7 DEF TakeLocal, Miss, Idle
  <2>8. ASSUME NEW p \in Procs, StoreLocal(p) PROVE HeldHonest'
    BY <2>4, <2>8 DEF StoreLocal
  <2> QED
    BY <2>1, <2>3, <2>5, <2>6, <2>7, <2>8 DEF Next, LaneChanges, Probe, Publish, BeginSweep, Answer, ReplaceCache,
         Lease, GoOn, Release, RestartApi, RestartWorker, Procs
<1>8. SnapHonest'
  <2>1. ASSUME NEW p \in Procs, NEW l \in Lanes, NEW row, Honest(l, row), silent' = silent, thread[p] # None,
               thread' = [thread EXCEPT ![p] = Seen(p, l, row)]
        PROVE  SnapHonest'
    <3>1. thread[p] \in Thread
      BY <2>1 DEF ThreadType
    <3>2. ASSUME NEW k \in Lanes PROVE Seen(p, l, row).snap[k] = IF k = l THEN row ELSE thread[p].snap[k]
      BY <3>1 DEF Seen, Thread
    <3>3. ASSUME NEW q \in Procs PROVE thread'[q] = IF q = p THEN Seen(p, l, row) ELSE thread[q]
      BY <2>1 DEF ThreadType
    <3> QED
      BY <2>1, <3>2, <3>3 DEF SnapHonest, Honest
  <2>2. ASSUME NEW p \in Procs, NEW l \in Lanes, TakeLocal(p, l) PROVE SnapHonest'
    <3> DEFINE row == [ok |-> cache[p][l].ok, age |-> cache[p][l].age]
    <3>1. Honest(l, row)
      BY <2>2 DEF TakeLocal, FreshLocal, CacheHonest, Honest
    <3>2. thread' = [thread EXCEPT ![p] = Seen(p, l, row)] /\ silent' = silent /\ thread[p] # None
      BY <2>2 DEF TakeLocal, Idle
    <3> HIDE DEF row
    <3> QED
      BY <2>1, <3>1, <3>2
  <2>3. ASSUME NEW p \in Procs, StoreLocal(p) PROVE SnapHonest'
    <3> DEFINE held == thread[p].held
               row  == [ok |-> held.ok, age |-> held.age]
    <3>1. held.lane \in Lanes /\ Honest(held.lane, held) /\ held # None
      BY <2>3 DEF StoreLocal, HeldHonest, ThreadType, Thread, Held
    <3>2. Honest(held.lane, row)
      BY <3>1 DEF Honest
    <3>3. thread' = [thread EXCEPT ![p] = Seen(p, held.lane, row)] /\ silent' = silent /\ thread[p] # None
      BY <2>3 DEF StoreLocal
    <3> HIDE DEF row, held
    <3> QED
      BY <2>1, <3>1, <3>2, <3>3
  <2>4. ASSUME NEW p \in Procs, NEW l \in Lanes, Miss(p, l) PROVE SnapHonest'
    <3>1. thread' = [thread EXCEPT ![p] = Seen(p, l, None)] /\ silent' = silent /\ thread[p] # None /\ Honest(l, None)
      BY <2>4 DEF Miss, Idle, Honest
    <3> QED
      BY <2>1, <3>1
  <2>5. ASSUME NEW p \in Procs, NEW l \in Lanes, ReadShared(p, l) PROVE SnapHonest'
    <3>1. thread[p] \in Thread /\ silent' = silent
      BY <2>5 DEF ReadShared, Idle, ThreadType
    <3>2. \E row : thread' = [thread EXCEPT ![p].held = row]
      BY <2>5 DEF ReadShared
    <3>3. thread[p] # None
      BY <2>5 DEF ReadShared, Idle
    <3>4. PICK row : thread' = [thread EXCEPT ![p].held = row]
      BY <3>2
    <3>5. (\A q \in Procs : q # p => thread'[q] = thread[q]) /\ thread'[p].snap = thread[p].snap
      BY <3>1, <3>4, TakenInHand
    <3> QED
      BY <3>1, <3>3, <3>5 DEF SnapHonest, Honest
  <2>6. CASE \A p \in Procs : thread'[p] # None =>
                 (\A l \in Lanes : thread'[p].snap[l] = None) \/ thread'[p] = thread[p]
    <3> SUFFICES ASSUME NEW p \in Procs, thread'[p] # None, NEW l \in Lanes,
                        thread'[p].snap[l] # None, thread'[p].snap[l].ok
                 PROVE  silent'[l] <= thread'[p].snap[l].age
      BY DEF SnapHonest, Honest
    <3>1. thread[p] # None /\ thread'[p] = thread[p]
      BY <2>6
    <3>2. Honest(l, thread[p].snap[l]) /\ thread[p].snap[l] \in Observed
      BY <3>1 DEF SnapHonest, ThreadType, Thread
    <3>3. thread[p].snap[l].age \in Nat
      BY <3>2 DEF Observed
    <3> QED
      BY <1>1, <3>1, <3>2, <3>3 DEF Honest
  <2>7. ASSUME NEW p \in Procs, thread' = [thread EXCEPT ![p] = None] PROVE SnapHonest'
    BY <2>6, <2>7 DEF ThreadType
  <2>8. ASSUME NEW p \in Procs, Prefetch(p) PROVE SnapHonest'
    BY <2>6, <2>8 DEF Prefetch, ThreadType
  <2>9. CASE UNCHANGED thread
    BY <2>6, <2>9
  <2> QED
    BY <2>2, <2>3, <2>4, <2>5, <2>7, <2>8, <2>9 DEF Next, LaneChanges, Probe, Publish, BeginSweep, Answer,
         ReplaceCache, Lease, GoOn, Release, RestartApi, RestartWorker, Procs
<1> QED
  BY <1>3, <1>4, <1>5, <1>6, <1>7, <1>8

---------------------------------------------------------------------------------
\* At the start no row exists, and a lane that serves counts as heard.
LEMMA InitHonest == Legal /\ Init => Types /\ AllHonest
<1> SUFFICES ASSUME Legal, Init PROVE Types /\ AllHonest
  OBVIOUS
<1>1. LaneTypes /\ ServingSpeaks
  BY DEF Init, Legal, LaneTypes, ServingSpeaks
<1>2. RedisType /\ CacheType /\ SweepType /\ ThreadType /\ LeaseType
  BY DEF Init, RedisType, CacheType, SweepType, ThreadType, LeaseType
<1>3. RedisHonest /\ CacheHonest /\ SweepHonest /\ HeldHonest /\ SnapHonest
  BY DEF Init, RedisHonest, CacheHonest, SweepHonest, HeldHonest, SnapHonest, Honest
<1> QED
  BY <1>1, <1>2, <1>3 DEF Types, AllHonest

\* A stuttering step changes no row.
LEMMA StutterHonest == Types /\ AllHonest /\ UNCHANGED vars => AllHonest'
<1> SUFFICES ASSUME AllHonest, UNCHANGED vars PROVE AllHonest'
  OBVIOUS
<1> USE DEF AllHonest, vars, Honest
<1>1. ServingSpeaks'
  BY DEF ServingSpeaks
<1>2. RedisHonest'
  BY DEF RedisHonest
<1>3. CacheHonest'
  BY DEF CacheHonest
<1>4. SweepHonest'
  BY DEF SweepHonest
<1>5. HeldHonest'
  BY DEF HeldHonest
<1>6. SnapHonest'
  BY DEF SnapHonest
<1> QED
  BY <1>1, <1>2, <1>3, <1>4, <1>5, <1>6

\* No row is younger than the silence of its lane, wherever it is: the invariant
\* of sweep, Redis, caches and snapshots together.
THEOREM RowsHonest == Legal => (Spec => [](Types /\ AllHonest))
<1> SUFFICES ASSUME Legal PROVE Spec => [](Types /\ AllHonest)
  OBVIOUS
<1>1. Init => Types /\ AllHonest
  BY InitHonest
<1>2. Types /\ AllHonest /\ [Next]_vars => (Types /\ AllHonest)'
  <2> SUFFICES ASSUME Types, AllHonest, [Next]_vars PROVE (Types /\ AllHonest)'
    OBVIOUS
  <2>1. Types'
    BY LaneTypesKept, RedisTypeKept, CacheTypeKept, SweepTypeKept, ThreadTypeKept, LeaseTypeKept DEF Types
  <2>2. AllHonest'
    BY HonestTick, HonestStep, StutterHonest
  <2> QED
    BY <2>1, <2>2
<1> QED
  BY <1>1, <1>2, PTL DEF Spec

\* A lane is leased only while it is registered as enabled and if it has answered
\* within the last Stale ticks, for any lanes, processes and ages.
THEOREM DeadLaneNeverLeased == Legal => (Spec => DeadLaneRefused)
<1> SUFFICES ASSUME Legal PROVE Spec => DeadLaneRefused
  OBVIOUS
<1>1. Types /\ AllHonest /\ [Next]_vars => [LeasesServed]_vars
  <2> SUFFICES ASSUME Types, AllHonest, Next, NEW p \in Procs, NEW l \in Lanes, lease[p] = None, lease'[p] = l
               PROVE  registry[l] = TRUE /\ silent[l] <= Stale
    BY DEF LeasesServed
  <2>1. PICK q \in Procs, k \in Lanes : Lease(q, k)
    <3>1. lease' # lease
      BY DEF Legal
    <3>2. ~\E q \in Procs : lease' = [lease EXCEPT ![q] = None]
      BY DEF Legal, Types, LeaseType
    <3> QED
      BY <3>1, <3>2 DEF Next, Tick, LaneChanges, Probe, Publish, BeginSweep, Answer, ReplaceCache, TakeLocal,
           ReadShared, Miss, Prefetch, StoreLocal, GoOn, Release, RestartApi, RestartWorker, Procs
  <2>2. q = p /\ k = l
    BY <2>1 DEF Lease, Legal, Types, LeaseType
  <2>3. /\ registry[l] = TRUE
        /\ thread[p] # None /\ thread[p].snap[l] # None /\ thread[p].snap[l].ok /\ thread[p].snap[l].age <= Stale
    BY <2>1, <2>2 DEF Lease, Eligible, Idle
  <2>4. thread[p].snap[l] \in Observed /\ silent[l] <= thread[p].snap[l].age
    BY <2>3 DEF Types, ThreadType, Thread, AllHonest, SnapHonest, Honest
  <2> QED
    BY <2>3, <2>4 DEF Observed, Legal, Types, LaneTypes
<1> QED
  BY <1>1, RowsHonest, PTL DEF Spec, DeadLaneRefused
=================================================================================
