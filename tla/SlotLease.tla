------------------------------- MODULE SlotLease --------------------------------
(***************************************************************************)
(* Sidecar slot leases: the table resource_slots and the executions of        *)
(* process_slides that lease a slot, send requests to its sidecar, heartbeat   *)
(* and release.  An execution is one worker incarnation with its own           *)
(* exec_uuid: a redelivered message is another execution.  Time is a clock     *)
(* the database owns; heartbeats come at any moment or not at all (the thread  *)
(* may be starved, its connection down, its process dead), so nothing below    *)
(* relies on the heartbeat interval.                                           *)
(***************************************************************************)
EXTENDS Integers, FiniteSets

CONSTANTS Execs, Slots, None,
          Wanted,      \* Wanted[x]: slots on the sidecars the job's preference allows
          TTL,         \* lease_ttl_seconds
          Quarantine,  \* quarantine_seconds
          Request,     \* the longest time one request keeps a sidecar busy
          MaxTime      \* bound of the clock, for model checking

ASSUME LeaseAssumption ==
    /\ None \notin Execs \cup Slots
    /\ Wanted \in [Execs -> SUBSET Slots]
    /\ TTL \in Nat /\ Quarantine \in Nat /\ Request \in Nat /\ MaxTime \in Nat
    /\ Request <= Quarantine

VARIABLES
    state, owner, gen, expires,  \* resource_slots: state, claim_exec_uuid,
                                 \* generation, expires_at (read only of leased rows)
    changed,   \* updated_at, as the reaper leaves it on an expired row
    locks,     \* locks[x]: rows x's open transaction holds FOR UPDATE
    phase,     \* where each execution is
    snapshot,  \* slots whose sidecar x's telemetry snapshot calls eligible
    held,      \* the slot x leased, remembered to the end
    fence,     \* the generation of x's lease
    beat,      \* heartbeat_at, as x last wrote it
    lost,      \* lease_lost: x was told that the lease is gone
    request,   \* when x's request in flight began, or Idle
    now

slotVars == <<state, owner, gen, expires, changed>>
execVars == <<phase, snapshot, held, fence, beat, lost, request>>
vars     == <<slotVars, locks, execVars, now>>

Idle == -1
Live == {"begun", "leasing", "working"}

TypeOK ==
    /\ state \in [Slots -> {"free", "leased", "expired"}]
    /\ owner \in [Slots -> Execs \cup {None}]
    /\ gen \in [Slots -> Nat]
    /\ expires \in [Slots -> Nat]
    /\ changed \in [Slots -> Nat]
    /\ locks \in [Execs -> SUBSET Slots]
    /\ phase \in [Execs -> Live \cup {"idle", "refused", "ended", "dead"}]
    /\ snapshot \in [Execs -> SUBSET Slots]
    /\ held \in [Execs -> Slots \cup {None}]
    /\ fence \in [Execs -> Nat]
    /\ beat \in [Execs -> Nat]
    /\ lost \in SUBSET Execs
    /\ request \in [Execs -> Nat \cup {Idle}]
    /\ now \in Nat
    /\ \A s \in Slots : state[s] = "free" <=> owner[s] = None

Locked == UNION {locks[x] : x \in Execs}

\* What SELECT ... WHERE state = 'free' FOR UPDATE SKIP LOCKED returns: every
\* free row that no other open transaction has locked.
Visible == {s \in Slots : state[s] = "free"} \ Locked

Usable(x) == Visible \cap snapshot[x] \cap Wanted[x]

\* Mutant: the fence is the generation alone, not the exec_uuid.
OwnsByGeneration(x) ==
    /\ held[x] # None
    /\ state[held[x]] = "leased"
    /\ \E g \in {fence[x], gen[held[x]]} : g = gen[held[x]]

\* The conditional update's triple.  The generation is read from the row object
\* when it is used: the one remembered, or, if the session expired the object
\* meanwhile (expire_all, rollback), the row's current one.
OwnsSlot(x) ==
    /\ held[x] # None
    /\ state[held[x]] = "leased"
    /\ owner[held[x]] = x
    /\ \E g \in {fence[x], gen[held[x]]} : g = gen[held[x]]

---------------------------------------------------------------------------------
(* An execution *)

\* The delivery starts and prefetches telemetry, before any row lock.
Begin(x) ==
    /\ phase[x] = "idle"
    /\ \E S \in SUBSET Slots : snapshot' = [snapshot EXCEPT ![x] = S]
    /\ phase' = [phase EXCEPT ![x] = "begun"]
    /\ UNCHANGED <<slotVars, locks, held, fence, beat, lost, request, now>>

\* Mutant: acquisition does not bump the generation.
AcquireSameGeneration(x, s) ==
    /\ phase[x] = "begun"
    /\ s \in Usable(x)
    /\ locks' = [locks EXCEPT ![x] = Visible]
    /\ state' = [state EXCEPT ![s] = "leased"]
    /\ owner' = [owner EXCEPT ![s] = x]
    /\ expires' = [expires EXCEPT ![s] = now + TTL]
    /\ phase' = [phase EXCEPT ![x] = "leasing"]
    /\ snapshot' = [snapshot EXCEPT ![x] = {}]
    /\ held' = [held EXCEPT ![x] = s]
    /\ fence' = [fence EXCEPT ![x] = gen[s]]
    /\ beat' = [beat EXCEPT ![x] = now]
    /\ UNCHANGED <<gen, changed, lost, request, now>>

\* acquire_slot: lock every free row, take the first compatible one; the
\* transaction stays open until the step has been claimed.
Acquire(x, s) ==
    /\ phase[x] = "begun"
    /\ s \in Usable(x)
    /\ locks' = [locks EXCEPT ![x] = Visible]
    /\ state' = [state EXCEPT ![s] = "leased"]
    /\ owner' = [owner EXCEPT ![s] = x]
    /\ gen' = [gen EXCEPT ![s] = @ + 1]
    /\ expires' = [expires EXCEPT ![s] = now + TTL]
    /\ phase' = [phase EXCEPT ![x] = "leasing"]
    /\ snapshot' = [snapshot EXCEPT ![x] = {}]
    /\ held' = [held EXCEPT ![x] = s]
    /\ fence' = [fence EXCEPT ![x] = gen[s] + 1]
    /\ beat' = [beat EXCEPT ![x] = now]
    /\ UNCHANGED <<changed, lost, request, now>>

\* No compatible row came back: SidecarCapacityExhausted.
Refuse(x) ==
    /\ phase[x] = "begun"
    /\ Usable(x) = {}
    /\ phase' = [phase EXCEPT ![x] = "refused"]
    /\ UNCHANGED <<slotVars, locks, snapshot, held, fence, beat, lost, request, now>>

\* The step claim succeeded: commit, start the heartbeat thread and the work.
Commit(x) ==
    /\ phase[x] = "leasing"
    /\ phase' = [phase EXCEPT ![x] = "working"]
    /\ locks' = [locks EXCEPT ![x] = {}]
    /\ UNCHANGED <<slotVars, snapshot, held, fence, beat, lost, request, now>>

\* Mutant: a released row keeps its claim_exec_uuid.
ReleaseKeepsOwner(x) ==
    /\ state' = IF OwnsSlot(x) THEN [state EXCEPT ![held[x]] = "free"] ELSE state
    /\ UNCHANGED <<owner, gen, expires, changed>>

\* release_slot, under the same triple.
ReleaseSlot(x) ==
    /\ state' = IF OwnsSlot(x) THEN [state EXCEPT ![held[x]] = "free"] ELSE state
    /\ owner' = IF OwnsSlot(x) THEN [owner EXCEPT ![held[x]] = None] ELSE owner
    /\ UNCHANGED <<gen, expires, changed>>

\* Another incarnation holds the step claim: release at once, and commit.
ClaimLost(x) ==
    /\ phase[x] = "leasing"
    /\ ReleaseSlot(x)
    /\ phase' = [phase EXCEPT ![x] = "ended"]
    /\ locks' = [locks EXCEPT ![x] = {}]
    /\ UNCHANGED <<snapshot, held, fence, beat, lost, request, now>>

\* heartbeat_slot, accepted: the lease lives TTL from now.
Heartbeat(x) ==
    /\ phase[x] = "working"
    /\ OwnsSlot(x)
    /\ expires' = [expires EXCEPT ![held[x]] = now + TTL]
    /\ beat' = [beat EXCEPT ![x] = now]
    /\ UNCHANGED <<state, owner, gen, changed, locks, phase, snapshot, held, fence, lost,
                   request, now>>

\* ... rejected: no further sidecar work.
HeartbeatRejected(x) ==
    /\ phase[x] = "working"
    /\ ~OwnsSlot(x)
    /\ lost' = lost \cup {x}
    /\ UNCHANGED <<slotVars, locks, phase, snapshot, held, fence, beat, request, now>>

\* cancel_check passes and a request goes to the sidecar of the leased slot.
StartRequest(x) ==
    /\ phase[x] = "working"
    /\ request[x] = Idle
    /\ x \notin lost
    /\ request' = [request EXCEPT ![x] = now]
    /\ UNCHANGED <<slotVars, locks, phase, snapshot, held, fence, beat, lost, now>>

\* The sidecar is done with it, whether or not anyone still waits for it.
EndRequest(x) ==
    /\ request[x] # Idle
    /\ request' = [request EXCEPT ![x] = Idle]
    /\ UNCHANGED <<slotVars, locks, phase, snapshot, held, fence, beat, lost, now>>

\* The pipeline ends, is cancelled or fails: the finally block releases.
Finish(x) ==
    /\ phase[x] = "working"
    /\ request[x] = Idle
    /\ ReleaseSlot(x)
    /\ phase' = [phase EXCEPT ![x] = "ended"]
    /\ UNCHANGED <<locks, snapshot, held, fence, beat, lost, request, now>>

\* The process is killed.  An open transaction rolls back; a request that was
\* sent keeps the sidecar busy.
Die(x) ==
    /\ phase[x] \in Live
    /\ phase' = [phase EXCEPT ![x] = "dead"]
    /\ locks' = [locks EXCEPT ![x] = {}]
    /\ IF phase[x] = "leasing"
       THEN /\ state' = [state EXCEPT ![held[x]] = "free"]
            /\ owner' = [owner EXCEPT ![held[x]] = None]
            /\ gen' = [gen EXCEPT ![held[x]] = @ - 1]
            /\ held' = [held EXCEPT ![x] = None]
       ELSE UNCHANGED <<state, owner, gen, held>>
    /\ UNCHANGED <<expires, changed, snapshot, fence, beat, lost, request, now>>

---------------------------------------------------------------------------------
(* The scheduler loop *)

\* reap_expired_slots, one statement over the committed rows.
Overdue == {s \in Slots \ Locked : state[s] = "leased" /\ expires[s] < now}

Reap ==
    /\ Overdue # {}
    /\ state' = [s \in Slots |-> IF s \in Overdue THEN "expired" ELSE state[s]]
    /\ changed' = [s \in Slots |-> IF s \in Overdue THEN now ELSE changed[s]]
    /\ UNCHANGED <<owner, gen, expires, locks, execVars, now>>

\* Mutant: an expired slot is reset without waiting for the quarantine.
RestedAtOnce == {s \in Slots : state[s] = "expired" /\ changed[s] <= now}

\* reset_quarantined_slots.
Rested == {s \in Slots : state[s] = "expired" /\ changed[s] < now - Quarantine}

Reset ==
    /\ Rested # {}
    /\ state' = [s \in Slots |-> IF s \in Rested THEN "free" ELSE state[s]]
    /\ owner' = [s \in Slots |-> IF s \in Rested THEN None ELSE owner[s]]
    /\ UNCHANGED <<gen, expires, changed, locks, execVars, now>>

\* No request outlives Request.
Tick ==
    /\ now < MaxTime
    /\ \A x \in Execs : request[x] # Idle => now < request[x] + Request
    /\ now' = now + 1
    /\ UNCHANGED <<slotVars, locks, execVars>>

---------------------------------------------------------------------------------
Init ==
    /\ state = [s \in Slots |-> "free"]
    /\ owner = [s \in Slots |-> None]
    /\ gen = [s \in Slots |-> 0]
    /\ expires = [s \in Slots |-> 0]
    /\ changed = [s \in Slots |-> 0]
    /\ locks = [x \in Execs |-> {}]
    /\ phase = [x \in Execs |-> "idle"]
    /\ snapshot = [x \in Execs |-> {}]
    /\ held = [x \in Execs |-> None]
    /\ fence = [x \in Execs |-> 0]
    /\ beat = [x \in Execs |-> 0]
    /\ lost = {}
    /\ request = [x \in Execs |-> Idle]
    /\ now = 0

Execution(x) ==
    \/ Begin(x) \/ Refuse(x) \/ Commit(x) \/ ClaimLost(x) \/ Finish(x) \/ Die(x)
    \/ Heartbeat(x) \/ HeartbeatRejected(x) \/ StartRequest(x) \/ EndRequest(x)
    \/ \E s \in Slots : Acquire(x, s)

Next == (\E x \in Execs : Execution(x)) \/ Reap \/ Reset \/ Tick

Spec == Init /\ [][Next]_vars

---------------------------------------------------------------------------------
(* Properties *)

\* Fencing: no two executions were ever given the same slot under the same
\* generation, whatever was released, reaped, reset or rolled back in between.
FencesUnique ==
    \A x, y \in Execs : x # y /\ held[x] # None /\ held[x] = held[y] => fence[x] # fence[y]

\* A lease is taken from its owner only by its owner's own end, or by the
\* reaper after the expiry the owner last wrote has passed: no stale heartbeat,
\* late release or concurrent acquisition disturbs it.
OnlyOwnerOrExpiry ==
    [][\A s \in Slots :
          state[s] = "leased" /\ (state'[s] # "leased" \/ owner'[s] # owner[s])
          => \/ phase'[owner[s]] \in {"ended", "dead"} /\ phase[owner[s]] \in Live
             \/ state'[s] = "expired" /\ now > beat[owner[s]] + TTL]_vars

Busy(x) == request[x] # Idle

\* x's request began while its lease, by its last accepted heartbeat, was good.
Covered(x) == request[x] <= beat[x] + TTL

\* "A stale in-flight external request cannot be silently overcommitted"
\* (lease.py): two executions keep the same slot's sidecar busy only if one of
\* them sent its request more than TTL after its last accepted heartbeat.
NoOvercommit ==
    \A x, y \in Execs :
        x # y /\ Busy(x) /\ Busy(y) /\ held[x] = held[y] => ~(Covered(x) /\ Covered(y))
=================================================================================
