---------------------------- MODULE SlotLeaseProofs -----------------------------
(***************************************************************************)
(* Slot leases for any number of executions and slots and any durations with  *)
(* Request <= Quarantine: types, unique fences, who may end a lease, and that  *)
(* the quarantine keeps a dead worker's request off a reused slot.             *)
(***************************************************************************)
EXTENDS SlotLease, TLAPS

USE DEF Idle, Live, Busy

---------------------------------------------------------------------------------
LEMMA ReleaseTypes ==
    ASSUME TypeOK, NEW x \in Execs, ReleaseSlot(x)
    PROVE  /\ state' \in [Slots -> {"free", "leased", "expired"}]
           /\ owner' \in [Slots -> Execs \cup {None}]
           /\ UNCHANGED <<gen, expires, changed>>
           /\ \A s \in Slots : state'[s] = "free" <=> owner'[s] = None
BY LeaseAssumption DEF TypeOK, ReleaseSlot, OwnsSlot

\* An execution whose transaction is open owns the row it leased, and no other
\* open transaction has it.
OpenTransaction ==
    \A x \in Execs :
        IF phase[x] = "leasing"
        THEN /\ held[x] \in locks[x] \cap Slots
             /\ state[held[x]] = "leased"
             /\ owner[held[x]] = x
             /\ fence[x] = gen[held[x]]
             /\ fence[x] > 0
        ELSE locks[x] = {}

TypeInv == TypeOK /\ OpenTransaction

\* Every reachable state is well typed, a row is free exactly when it has no
\* owner, and a rolled back acquisition leaves no trace.
THEOREM TypeCorrect == Spec => []TypeInv
<1> USE LeaseAssumption
<1>1. Init => TypeInv
  BY DEF Init, TypeInv, TypeOK, OpenTransaction
<1>2. TypeInv /\ [Next]_vars => TypeInv'
  <2> SUFFICES ASSUME TypeOK, OpenTransaction, [Next]_vars PROVE TypeOK' /\ OpenTransaction'
    BY DEF TypeInv
  <2>1. ASSUME NEW x \in Execs, Begin(x) PROVE TypeOK' /\ OpenTransaction'
    BY <2>1 DEF Begin, TypeOK, OpenTransaction, slotVars
  <2>2. ASSUME NEW x \in Execs, Refuse(x) PROVE TypeOK' /\ OpenTransaction'
    BY <2>2 DEF Refuse, TypeOK, OpenTransaction, slotVars
  <2>3. ASSUME NEW x \in Execs, Commit(x) PROVE TypeOK' /\ OpenTransaction'
    BY <2>3 DEF Commit, TypeOK, OpenTransaction, slotVars
  <2>4. ASSUME NEW x \in Execs, ClaimLost(x) \/ Finish(x) PROVE TypeOK' /\ OpenTransaction'
    <3>1. TypeOK'
      <4>1. /\ ReleaseSlot(x)
            /\ phase' = [phase EXCEPT ![x] = "ended"]
            /\ locks' \in [Execs -> SUBSET Slots]
            /\ UNCHANGED <<snapshot, held, fence, beat, lost, request, now>>
        BY <2>4 DEF ClaimLost, Finish, TypeOK
      <4>2. /\ state' \in [Slots -> {"free", "leased", "expired"}]
            /\ owner' \in [Slots -> Execs \cup {None}]
            /\ UNCHANGED <<gen, expires, changed>>
            /\ \A s \in Slots : state'[s] = "free" <=> owner'[s] = None
        BY <4>1, ReleaseTypes
      <4> QED
        BY <4>1, <4>2 DEF TypeOK
    <3>2. OpenTransaction'
      BY <2>4, <3>1 DEF ClaimLost, Finish, ReleaseSlot, OwnsSlot, TypeOK, OpenTransaction
    <3> QED
      BY <3>1, <3>2
  <2>5. ASSUME NEW x \in Execs, Die(x) PROVE TypeOK' /\ OpenTransaction'
    <3>1. CASE phase[x] = "leasing"
      <4>1. held[x] \in Slots /\ gen[held[x]] \in Nat /\ gen[held[x]] > 0
        BY <3>1 DEF OpenTransaction, TypeOK
      <4>2. gen[held[x]] - 1 \in Nat
        BY <4>1
      <4>3. TypeOK'
        <5>1. gen' \in [Slots -> Nat]
          BY <2>5, <3>1, <4>2 DEF Die, TypeOK
        <5>2. /\ state' \in [Slots -> {"free", "leased", "expired"}]
              /\ owner' \in [Slots -> Execs \cup {None}]
              /\ \A s \in Slots : state'[s] = "free" <=> owner'[s] = None
          BY <2>5, <3>1, <4>1 DEF Die, TypeOK
        <5> QED
          BY <2>5, <3>1, <5>1, <5>2 DEF Die, TypeOK
      <4>4. OpenTransaction'
        BY <2>5, <3>1, <4>1 DEF Die, TypeOK, OpenTransaction
      <4> QED
        BY <4>3, <4>4
    <3>2. CASE phase[x] # "leasing"
      BY <2>5, <3>2 DEF Die, TypeOK, OpenTransaction
    <3> QED
      BY <3>1, <3>2
  <2>6. ASSUME NEW x \in Execs, Heartbeat(x) PROVE TypeOK' /\ OpenTransaction'
    BY <2>6 DEF Heartbeat, OwnsSlot, TypeOK, OpenTransaction
  <2>7. ASSUME NEW x \in Execs, HeartbeatRejected(x) PROVE TypeOK' /\ OpenTransaction'
    BY <2>7 DEF HeartbeatRejected, TypeOK, OpenTransaction, slotVars
  <2>8. ASSUME NEW x \in Execs, StartRequest(x) \/ EndRequest(x) PROVE TypeOK' /\ OpenTransaction'
    BY <2>8 DEF StartRequest, EndRequest, TypeOK, OpenTransaction, slotVars
  <2>9. ASSUME NEW x \in Execs, NEW s \in Slots, Acquire(x, s) PROVE TypeOK' /\ OpenTransaction'
    <3>1. s \in Visible /\ state[s] = "free" /\ \A y \in Execs : s \notin locks[y]
      BY <2>9 DEF Acquire, Usable, Visible, Locked
    <3>2. TypeOK'
      BY <2>9, <3>1 DEF Acquire, TypeOK, Visible
    <3>3. OpenTransaction'
      BY <2>9, <3>1 DEF Acquire, TypeOK, OpenTransaction
    <3> QED
      BY <3>2, <3>3
  <2>10. CASE Reap
    <3>1. \A x \in Execs : phase[x] = "leasing" => held[x] \notin Overdue
      BY DEF Overdue, Locked, OpenTransaction
    <3>2. TypeOK'
      BY <2>10 DEF Reap, Overdue, execVars, TypeOK
    <3> QED
      BY <2>10, <3>1, <3>2 DEF Reap, execVars, TypeOK, OpenTransaction
  <2>11. CASE Reset
    <3>1. TypeOK'
      BY <2>11 DEF Reset, Rested, execVars, TypeOK
    <3> QED
      BY <2>11, <3>1 DEF Reset, Rested, execVars, TypeOK, OpenTransaction
  <2>12. CASE Tick
    BY <2>12 DEF Tick, TypeOK, OpenTransaction, slotVars, execVars
  <2>13. CASE UNCHANGED vars
    BY <2>13 DEF vars, TypeOK, OpenTransaction, slotVars, execVars
  <2> QED
    BY <2>1, <2>2, <2>3, <2>4, <2>5, <2>6, <2>7, <2>8, <2>9, <2>10, <2>11, <2>12, <2>13
       DEF Next, Execution
<1> QED
  BY <1>1, <1>2, PTL DEF Spec

\* A row that is free has no owner and a row with an owner is not free, in every
\* reachable state: acquire, release, expire and reset write the two together.
THEOREM TypesHold == Spec => []TypeOK
<1>1. TypeInv => TypeOK
  BY DEF TypeInv
<1> QED
  BY <1>1, TypeCorrect, PTL

---------------------------------------------------------------------------------
(* Fences *)

\* What an execution remembers of its lease, and that the rows agree with it.
Leases ==
    /\ \A x \in Execs : phase[x] \in {"idle", "begun", "refused"} => held[x] = None
    /\ \A x \in Execs : phase[x] \in {"leasing", "working"} => held[x] \in Slots
    /\ \A x \in Execs : held[x] # None => fence[x] <= gen[held[x]]
    /\ \A s \in Slots : state[s] = "leased" =>
          /\ held[owner[s]] = s
          /\ expires[s] = beat[owner[s]] + TTL
          /\ phase[owner[s]] \in {"leasing", "working", "dead"}

FenceInv == Leases /\ FencesUnique

LEMMA ReleaseLeases ==
    ASSUME TypeInv, FenceInv, NEW x \in Execs, ReleaseSlot(x),
           phase[x] \in {"leasing", "working"}, phase'[x] = "ended",
           \A y \in Execs \ {x} : phase'[y] = phase[y],
           UNCHANGED <<held, fence, beat>>
    PROVE  FenceInv'
<1> USE LeaseAssumption DEF TypeInv
<1>1. \A s \in Slots : state'[s] = "leased" => /\ state[s] = "leased"
                                               /\ owner'[s] = owner[s] /\ owner[s] # x
  BY DEF ReleaseSlot, OwnsSlot, TypeOK, FenceInv, Leases
<1>2. UNCHANGED <<gen, expires>>
  BY DEF ReleaseSlot
<1>3. Leases'
  BY <1>1, <1>2 DEF FenceInv, Leases, TypeOK
<1> QED
  BY <1>2, <1>3 DEF FenceInv, FencesUnique

\* A phase change that leaves the lease, if there is one, as it was.
QuietPhase(x) ==
    \/ phase'[x] = phase[x]
    \/ phase[x] \in {"idle", "begun"} /\ phase'[x] \in {"begun", "refused", "dead"}
    \/ phase[x] = "leasing" /\ phase'[x] = "working"
    \/ phase[x] = "working" /\ phase'[x] = "dead"

LEMMA FenceStep == TypeInv /\ TypeInv' /\ FenceInv /\ [Next]_vars => FenceInv'
<1> SUFFICES ASSUME TypeInv, TypeInv', FenceInv, [Next]_vars PROVE FenceInv'
  OBVIOUS
<1> USE LeaseAssumption DEF TypeInv
<1>1. ASSUME UNCHANGED <<state, owner, gen, expires, held, fence, beat>>,
             \A x \in Execs : QuietPhase(x)
      PROVE  FenceInv'
  <2>1. Leases'
    BY <1>1 DEF FenceInv, Leases, TypeOK, QuietPhase
  <2> QED
    BY <1>1, <2>1 DEF FenceInv, FencesUnique
<1>2. ASSUME NEW x \in Execs, NEW s \in Slots, Acquire(x, s) PROVE FenceInv'
  <2>1. state[s] = "free" /\ held[x] = None
    BY <1>2 DEF Acquire, Usable, Visible, FenceInv, Leases
  <2>2. \A y \in Execs \ {x} : held[y] = s => fence[y] < gen[s] + 1
    <3> SUFFICES ASSUME NEW y \in Execs \ {x}, held[y] = s PROVE fence[y] < gen[s] + 1
      OBVIOUS
    <3>1. fence[y] \in Nat /\ gen[s] \in Nat /\ s # None
      BY DEF TypeOK
    <3>2. fence[y] <= gen[s]
      BY <3>1 DEF FenceInv, Leases
    <3> QED
      BY <3>1, <3>2
  <2>3. Leases'
    <3>1. \A y \in Execs : held'[y] # None => fence'[y] <= gen'[held'[y]]
      BY <1>2, <2>2 DEF Acquire, FenceInv, Leases, TypeOK
    <3>2. \A t \in Slots : state'[t] = "leased" =>
             held'[owner'[t]] = t /\ expires'[t] = beat'[owner'[t]] + TTL
             /\ phase'[owner'[t]] \in {"leasing", "working", "dead"}
      BY <1>2, <2>1 DEF Acquire, FenceInv, Leases, TypeOK
    <3> QED
      BY <1>2, <3>1, <3>2 DEF Acquire, FenceInv, Leases, TypeOK
  <2>4. FencesUnique'
    BY <1>2, <2>2 DEF Acquire, FenceInv, FencesUnique, TypeOK
  <2> QED
    BY <2>3, <2>4 DEF FenceInv
<1>3. ASSUME NEW x \in Execs, ClaimLost(x) PROVE FenceInv'
  BY <1>3, ReleaseLeases DEF ClaimLost, TypeOK
<1>4. ASSUME NEW x \in Execs, Finish(x) PROVE FenceInv'
  BY <1>4, ReleaseLeases DEF Finish, TypeOK
<1>5. ASSUME NEW x \in Execs, Die(x) PROVE FenceInv'
  <2>1. CASE phase[x] = "leasing"
    <3> DEFINE s == held[x]
    <3>1. s \in Slots /\ state[s] = "leased" /\ owner[s] = x /\ fence[x] = gen[s]
      BY <2>1 DEF OpenTransaction
    <3>2. \A y \in Execs \ {x} : held[y] = s => fence[y] <= gen[s] - 1
      <4> SUFFICES ASSUME NEW y \in Execs \ {x}, held[y] = s PROVE fence[y] <= gen[s] - 1
        OBVIOUS
      <4>1. fence[y] \in Nat /\ gen[s] \in Nat /\ s # None
        BY <3>1 DEF TypeOK
      <4>2. fence[y] <= gen[s] /\ fence[y] # gen[s]
        BY <3>1, <4>1 DEF FenceInv, Leases, FencesUnique
      <4> QED
        BY <4>1, <4>2
    <3>3. /\ held' = [held EXCEPT ![x] = None] /\ gen' = [gen EXCEPT ![s] = @ - 1]
          /\ state' = [state EXCEPT ![s] = "free"] /\ owner' = [owner EXCEPT ![s] = None]
          /\ phase' = [phase EXCEPT ![x] = "dead"] /\ UNCHANGED <<fence, beat, expires>>
      BY <1>5, <2>1 DEF Die
    <3>4. \A y \in Execs : held'[y] # None => fence'[y] <= gen'[held'[y]]
      BY <3>1, <3>2, <3>3 DEF FenceInv, Leases, TypeOK
    <3>5. Leases'
      BY <3>1, <3>3, <3>4 DEF FenceInv, Leases, TypeOK
    <3>6. FencesUnique'
      BY <3>3 DEF FenceInv, FencesUnique, TypeOK
    <3> QED
      BY <3>5, <3>6 DEF FenceInv
  <2>2. CASE phase[x] # "leasing"
    <3>1. /\ UNCHANGED <<state, owner, gen, expires, held, fence, beat>>
          /\ phase[x] \in {"begun", "working"} /\ phase' = [phase EXCEPT ![x] = "dead"]
      BY <1>5, <2>2 DEF Die
    <3>2. \A y \in Execs : QuietPhase(y)
      BY <3>1 DEF TypeOK, QuietPhase
    <3> QED
      BY <1>1, <3>1, <3>2
  <2> QED
    BY <2>1, <2>2
<1>6. ASSUME NEW x \in Execs, Heartbeat(x) PROVE FenceInv'
  <2>1. held[x] \in Slots /\ owner[held[x]] = x
    BY <1>6 DEF Heartbeat, OwnsSlot, TypeOK
  <2>2. Leases'
    BY <1>6, <2>1 DEF Heartbeat, FenceInv, Leases, TypeOK
  <2> QED
    BY <1>6, <2>2 DEF Heartbeat, FenceInv, FencesUnique
<1>7. CASE Reap
  <2>1. Leases'
    BY <1>7 DEF Reap, execVars, FenceInv, Leases, TypeOK
  <2> QED
    BY <1>7, <2>1 DEF Reap, execVars, FenceInv, FencesUnique
<1>8. CASE Reset
  <2>1. Leases'
    BY <1>8 DEF Reset, Rested, execVars, FenceInv, Leases, TypeOK
  <2> QED
    BY <1>8, <2>1 DEF Reset, execVars, FenceInv, FencesUnique
<1>9. ASSUME NEW x \in Execs, Begin(x) \/ Refuse(x) \/ Commit(x) PROVE FenceInv'
  <2>1. UNCHANGED <<state, owner, gen, expires, held, fence, beat>>
    BY <1>9 DEF Begin, Refuse, Commit, slotVars
  <2>2. \A y \in Execs : QuietPhase(y)
    BY <1>9 DEF Begin, Refuse, Commit, TypeOK, QuietPhase
  <2> QED
    BY <1>1, <2>1, <2>2
<1>10. ASSUME UNCHANGED <<slotVars, held, fence, beat, phase>> PROVE FenceInv'
  <2>1. UNCHANGED <<state, owner, gen, expires, held, fence, beat>>
    BY <1>10 DEF slotVars
  <2>2. \A y \in Execs : QuietPhase(y)
    BY <1>10 DEF QuietPhase
  <2> QED
    BY <1>1, <2>1, <2>2
<1> QED
  BY <1>2, <1>3, <1>4, <1>5, <1>6, <1>7, <1>8, <1>9, <1>10
     DEF Next, Execution, HeartbeatRejected, StartRequest, EndRequest, Tick, vars, execVars

THEOREM FenceInvariance == Spec => []FenceInv
<1>1. Init => FenceInv
  BY LeaseAssumption DEF Init, FenceInv, Leases, FencesUnique
<1> QED
  BY <1>1, FenceStep, TypeCorrect, PTL DEF Spec

\* No two executions ever get the same fencing token for a slot.
THEOREM FencingTokensUnique == Spec => []FencesUnique
BY FenceInvariance, PTL DEF FenceInv

\* A lease ends only with its owner's execution, or past the expiry its owner
\* last wrote.
THEOREM LeaseEndsOnlyWithOwnerOrExpiry == Spec => OnlyOwnerOrExpiry
<1> DEFINE Ends(s) ==
      state[s] = "leased" /\ (state'[s] # "leased" \/ owner'[s] # owner[s])
      => \/ phase'[owner[s]] \in {"ended", "dead"} /\ phase[owner[s]] \in Live
         \/ state'[s] = "expired" /\ now > beat[owner[s]] + TTL
<1>1. ASSUME TypeInv, FenceInv, [Next]_vars PROVE [\A s \in Slots : Ends(s)]_vars
  <2> SUFFICES ASSUME Next PROVE \A s \in Slots : Ends(s)
    BY <1>1
  <2> USE <1>1, LeaseAssumption DEF TypeInv
  <2>1. ASSUME UNCHANGED <<state, owner>> PROVE \A s \in Slots : Ends(s)
    BY <2>1
  <2>2. ASSUME NEW x \in Execs, NEW s \in Slots, Acquire(x, s) PROVE \A t \in Slots : Ends(t)
    BY <2>2 DEF Acquire, Usable, Visible, TypeOK
  <2>3. ASSUME NEW x \in Execs, ClaimLost(x) \/ Finish(x) PROVE \A t \in Slots : Ends(t)
    BY <2>3 DEF ClaimLost, Finish, ReleaseSlot, OwnsSlot, TypeOK
  <2>4. ASSUME NEW x \in Execs, Die(x) PROVE \A t \in Slots : Ends(t)
    BY <2>4 DEF Die, TypeOK, OpenTransaction
  <2>5. CASE Reap
    BY <2>5 DEF Reap, Overdue, FenceInv, Leases, TypeOK
  <2>6. CASE Reset
    BY <2>6 DEF Reset, Rested, TypeOK
  <2> QED
    BY <2>1, <2>2, <2>3, <2>4, <2>5, <2>6
       DEF Next, Execution, Begin, Refuse, Commit, Heartbeat, HeartbeatRejected, StartRequest,
           EndRequest, Tick, slotVars
<1> QED
  BY <1>1, TypeCorrect, FenceInvariance, PTL DEF Spec, OnlyOwnerOrExpiry

---------------------------------------------------------------------------------
(* The quarantine *)

\* While its last heartbeat is younger than TTL an execution owns its slot;
\* while a covered request is in flight the slot stays the sender's, leased or,
\* after the reaper, expired no earlier than the request began.
QuarantineInv ==
    /\ \A x \in Execs : phase[x] = "working" /\ now <= beat[x] + TTL
                        => state[held[x]] = "leased" /\ owner[held[x]] = x
    /\ \A x \in Execs : Busy(x) => /\ phase[x] \in {"working", "dead"}
                                   /\ held[x] \in Slots
                                   /\ request[x] <= now
                                   /\ now <= request[x] + Request
    /\ \A x \in Execs : Busy(x) /\ Covered(x)
                        => /\ owner[held[x]] = x
                           /\ state[held[x]] \in {"leased", "expired"}
                           /\ state[held[x]] = "expired" => request[x] <= changed[held[x]]

\* A step that touches no slot in use, no heartbeat and no request.
Quiet ==
    /\ UNCHANGED <<beat, request, now, changed>>
    /\ \A x \in Execs : held'[x] = held[x] \/ (request[x] = Idle /\ phase'[x] # "working")
    /\ \A x \in Execs : phase'[x] = "working" => phase[x] = "working"
    /\ \A x \in Execs : Busy(x) => phase'[x] \in {"working", "dead"}
    /\ \A s \in Slots : \/ state'[s] = state[s] /\ owner'[s] = owner[s]
                        \/ owner[s] = None
                        \/ /\ owner[s] \in Execs
                           /\ request[owner[s]] = Idle
                           /\ phase'[owner[s]] # "working"

LEMMA QuietQuarantine ==
    ASSUME TypeInv, FenceInv, QuarantineInv, Quiet
    PROVE  QuarantineInv'
<1> USE LeaseAssumption DEF TypeInv, Quiet
<1>1. ASSUME NEW x \in Execs, phase'[x] = "working", now' <= beat'[x] + TTL
      PROVE  state'[held'[x]] = "leased" /\ owner'[held'[x]] = x
  <2>1. held[x] \in Slots /\ held'[x] = held[x]
    BY <1>1 DEF FenceInv, Leases
  <2> QED
    BY <1>1, <2>1 DEF QuarantineInv, TypeOK
<1>2. ASSUME NEW x \in Execs, Busy(x)'
      PROVE  /\ phase'[x] \in {"working", "dead"}
             /\ held'[x] \in Slots
             /\ request'[x] <= now'
             /\ now' <= request'[x] + Request
  BY <1>2 DEF QuarantineInv, TypeOK
<1>3. ASSUME NEW x \in Execs, Busy(x)', Covered(x)'
      PROVE  /\ owner'[held'[x]] = x
             /\ state'[held'[x]] \in {"leased", "expired"}
             /\ state'[held'[x]] = "expired" => request'[x] <= changed'[held'[x]]
  <2>1. Busy(x) /\ Covered(x) /\ held[x] \in Slots /\ held'[x] = held[x]
    BY <1>3 DEF QuarantineInv, Covered
  <2>2. state'[held[x]] = state[held[x]] /\ owner'[held[x]] = owner[held[x]]
    BY <2>1 DEF QuarantineInv
  <2> QED
    BY <1>3, <2>1, <2>2 DEF QuarantineInv
<1> QED
  BY <1>1, <1>2, <1>3 DEF QuarantineInv

LEMMA QuarantineStep == TypeInv /\ FenceInv /\ QuarantineInv /\ [Next]_vars => QuarantineInv'
<1> SUFFICES ASSUME TypeInv, FenceInv, QuarantineInv, [Next]_vars PROVE QuarantineInv'
  OBVIOUS
<1> USE LeaseAssumption DEF TypeInv
<1>1. ASSUME NEW x \in Execs, Begin(x) \/ Refuse(x) PROVE QuarantineInv'
  <2>1. UNCHANGED <<state, owner, changed, held, beat, request, now>>
    BY <1>1 DEF Begin, Refuse, slotVars
  <2>2. phase[x] \in {"idle", "begun"} /\ phase'[x] \in {"begun", "refused"}
        /\ \A y \in Execs \ {x} : phase'[y] = phase[y]
    BY <1>1 DEF Begin, Refuse, TypeOK
  <2>3. \A y \in Execs : phase'[y] = "working" => phase[y] = "working"
    BY <2>2
  <2>4. \A y \in Execs : Busy(y) => phase'[y] \in {"working", "dead"}
    BY <2>2 DEF QuarantineInv
  <2>5. Quiet
    BY <2>1, <2>3, <2>4 DEF Quiet
  <2> QED
    BY <2>5, QuietQuarantine
<1>2. ASSUME NEW x \in Execs, NEW s \in Slots, Acquire(x, s) PROVE QuarantineInv'
  <2>1. state[s] = "free" /\ owner[s] = None
    BY <1>2 DEF Acquire, Usable, Visible, TypeOK
  <2>2. /\ state' = [state EXCEPT ![s] = "leased"] /\ owner' = [owner EXCEPT ![s] = x]
        /\ held' = [held EXCEPT ![x] = s] /\ beat' = [beat EXCEPT ![x] = now]
        /\ phase' = [phase EXCEPT ![x] = "leasing"] /\ phase[x] = "begun"
        /\ UNCHANGED <<changed, request, now>>
    BY <1>2 DEF Acquire
  <2>3. ~Busy(x)
    BY <2>2 DEF QuarantineInv
  <2>4. \A y \in Execs \ {x} : held'[y] = held[y] /\ beat'[y] = beat[y] /\ phase'[y] = phase[y]
    BY <2>2 DEF TypeOK
  <2>5. \A y \in Execs : phase[y] = "working" => held[y] \in Slots
    BY DEF FenceInv, Leases
  <2>6. \A y \in Execs : phase'[y] = "working" /\ now' <= beat'[y] + TTL
                        => state'[held'[y]] = "leased" /\ owner'[held'[y]] = y
    <3> SUFFICES ASSUME NEW y \in Execs, phase'[y] = "working", now' <= beat'[y] + TTL
                 PROVE  state'[held'[y]] = "leased" /\ owner'[held'[y]] = y
      OBVIOUS
    <3>1. y # x
      BY <2>2 DEF TypeOK
    <3>2. state[held[y]] = "leased" /\ owner[held[y]] = y /\ held[y] \in Slots
      BY <2>2, <2>4, <2>5, <3>1 DEF QuarantineInv
    <3> QED
      BY <2>1, <2>2, <2>4, <3>1, <3>2 DEF TypeOK
  <2>7. \A y \in Execs : Busy(y)' => Busy(y) /\ y # x
    BY <2>2, <2>3
  <2>8. \A y \in Execs : Busy(y)' /\ Covered(y)'
                  => /\ owner'[held'[y]] = y
                     /\ state'[held'[y]] \in {"leased", "expired"}
                     /\ state'[held'[y]] = "expired" => request'[y] <= changed'[held'[y]]
    BY <2>1, <2>2, <2>4, <2>7 DEF QuarantineInv, Covered, TypeOK
  <2>9. \A y \in Execs : Busy(y)' => /\ phase'[y] \in {"working", "dead"}
                                    /\ held'[y] \in Slots
                                    /\ request'[y] <= now'
                                    /\ now' <= request'[y] + Request
    BY <2>2, <2>4, <2>7 DEF QuarantineInv, TypeOK
  <2> QED
    BY <2>6, <2>8, <2>9 DEF QuarantineInv
<1>3. ASSUME NEW x \in Execs, Commit(x) PROVE QuarantineInv'
  <2>1. state[held[x]] = "leased" /\ owner[held[x]] = x /\ phase[x] = "leasing"
    BY <1>3 DEF Commit, OpenTransaction
  <2>2. UNCHANGED <<state, owner, changed, held, beat, request, now>>
        /\ phase' = [phase EXCEPT ![x] = "working"]
    BY <1>3 DEF Commit, slotVars
  <2> QED
    BY <2>1, <2>2 DEF QuarantineInv, Covered, TypeOK
<1>4. ASSUME NEW x \in Execs, ClaimLost(x) \/ Finish(x) PROVE QuarantineInv'
  <2>1. /\ UNCHANGED <<changed, held, beat, request, now>>
        /\ phase' = [phase EXCEPT ![x] = "ended"]
    BY <1>4 DEF ClaimLost, Finish, ReleaseSlot
  <2>2. ~Busy(x)
    BY <1>4 DEF ClaimLost, Finish, QuarantineInv
  <2>3. \A s \in Slots : \/ state'[s] = state[s] /\ owner'[s] = owner[s]
                         \/ owner[s] = x
    BY <1>4 DEF ClaimLost, Finish, ReleaseSlot, OwnsSlot, TypeOK
  <2>4. \A y \in Execs : phase'[y] = "working" => phase[y] = "working"
    BY <2>1 DEF TypeOK
  <2>5. \A y \in Execs : Busy(y) => phase'[y] \in {"working", "dead"}
    BY <2>1, <2>2 DEF QuarantineInv, TypeOK
  <2>6. phase'[x] # "working"
    BY <2>1 DEF TypeOK
  <2>7. Quiet
    BY <2>1, <2>2, <2>3, <2>4, <2>5, <2>6 DEF Quiet
  <2> QED
    BY <2>7, QuietQuarantine
<1>5. ASSUME NEW x \in Execs, Die(x) PROVE QuarantineInv'
  <2>1. /\ UNCHANGED <<changed, beat, request, now>>
        /\ phase' = [phase EXCEPT ![x] = "dead"]
    BY <1>5 DEF Die
  <2>2. \A y \in Execs : held'[y] = held[y] \/ (request[y] = Idle /\ phase'[y] # "working")
    BY <1>5 DEF Die, QuarantineInv, TypeOK
  <2>3. \A s \in Slots : \/ state'[s] = state[s] /\ owner'[s] = owner[s]
                         \/ owner[s] = x /\ request[x] = Idle
    <3>1. CASE phase[x] = "leasing"
      BY <1>5, <3>1 DEF Die, OpenTransaction, QuarantineInv, TypeOK
    <3>2. CASE phase[x] # "leasing"
      BY <1>5, <3>2 DEF Die
    <3> QED
      BY <3>1, <3>2
  <2>4. \A y \in Execs : phase'[y] = "working" => phase[y] = "working"
    BY <2>1 DEF TypeOK
  <2>5. \A y \in Execs : Busy(y) => phase'[y] \in {"working", "dead"}
    BY <2>1 DEF QuarantineInv, TypeOK
  <2>6. phase'[x] # "working"
    BY <2>1 DEF TypeOK
  <2>7. Quiet
    BY <2>1, <2>2, <2>3, <2>4, <2>5, <2>6 DEF Quiet
  <2> QED
    BY <2>7, QuietQuarantine
<1>6. ASSUME NEW x \in Execs, Heartbeat(x) PROVE QuarantineInv'
  <2>1. /\ state[held[x]] = "leased" /\ owner[held[x]] = x
        /\ beat' = [beat EXCEPT ![x] = now]
        /\ UNCHANGED <<state, owner, changed, phase, held, request, now>>
    BY <1>6 DEF Heartbeat, OwnsSlot
  <2>2. \A y \in Execs \ {x} : beat'[y] = beat[y]
    BY <2>1 DEF TypeOK
  <2>3. \A y \in Execs : phase'[y] = "working" /\ now' <= beat'[y] + TTL
                       => state'[held'[y]] = "leased" /\ owner'[held'[y]] = y
    BY <2>1, <2>2 DEF QuarantineInv
  <2>4. \A y \in Execs : Busy(y)' /\ Covered(y)'
                  => /\ owner'[held'[y]] = y
                     /\ state'[held'[y]] \in {"leased", "expired"}
                     /\ state'[held'[y]] = "expired" => request'[y] <= changed'[held'[y]]
    BY <2>1, <2>2 DEF QuarantineInv, Covered
  <2> QED
    BY <2>1, <2>3, <2>4 DEF QuarantineInv
<1>7. ASSUME NEW x \in Execs, HeartbeatRejected(x) PROVE QuarantineInv'
  <2>1. Quiet
    BY <1>7 DEF HeartbeatRejected, slotVars, QuarantineInv, Quiet
  <2> QED
    BY <2>1, QuietQuarantine
<1>8. ASSUME NEW x \in Execs, StartRequest(x) PROVE QuarantineInv'
  <2>1. /\ phase[x] = "working" /\ request' = [request EXCEPT ![x] = now]
        /\ UNCHANGED <<state, owner, changed, phase, held, beat, now>>
    BY <1>8 DEF StartRequest, slotVars
  <2>2. held[x] \in Slots
    BY <2>1 DEF FenceInv, Leases
  <2>3. Covered(x)' => state[held[x]] = "leased" /\ owner[held[x]] = x
    BY <2>1 DEF Covered, QuarantineInv, TypeOK
  <2>4. \A y \in Execs \ {x} : request'[y] = request[y]
    BY <2>1 DEF TypeOK
  <2>5. now <= now + Request /\ request'[x] = now
    BY <2>1 DEF TypeOK
  <2> QED
    BY <2>1, <2>2, <2>3, <2>4, <2>5 DEF QuarantineInv, Covered, TypeOK
<1>9. ASSUME NEW x \in Execs, EndRequest(x) PROVE QuarantineInv'
  <2>1. /\ request' = [request EXCEPT ![x] = Idle]
        /\ UNCHANGED <<state, owner, changed, phase, held, beat, now>>
    BY <1>9 DEF EndRequest, slotVars
  <2>2. \A y \in Execs : Busy(y)' => request'[y] = request[y]
    BY <2>1 DEF TypeOK
  <2> QED
    BY <2>1, <2>2 DEF QuarantineInv, Covered, TypeOK
<1>10. CASE Reap
  <2>1. /\ UNCHANGED <<owner, phase, held, beat, request, now>>
        /\ \A s \in Slots : IF s \in Overdue THEN state'[s] = "expired" /\ changed'[s] = now
                           ELSE state'[s] = state[s] /\ changed'[s] = changed[s]
    BY <1>10 DEF Reap, execVars
  <2>2. \A s \in Overdue : state[s] = "leased" /\ now > beat[owner[s]] + TTL
    BY DEF Overdue, FenceInv, Leases, TypeOK
  <2>3. \A x \in Execs : phase[x] = "working" => held[x] \in Slots
    BY DEF FenceInv, Leases
  <2>4. \A x \in Execs : phase'[x] = "working" /\ now' <= beat'[x] + TTL
                       => state'[held'[x]] = "leased" /\ owner'[held'[x]] = x
    <3> SUFFICES ASSUME NEW x \in Execs, phase[x] = "working", now <= beat[x] + TTL
                 PROVE  state'[held[x]] = "leased" /\ owner[held[x]] = x
      BY <2>1
    <3>1. owner[held[x]] = x /\ state[held[x]] = "leased" /\ held[x] \in Slots
      BY <2>3 DEF QuarantineInv
    <3>2. held[x] \notin Overdue
      BY <2>2, <3>1 DEF TypeOK
    <3> QED
      BY <2>1, <3>1, <3>2
  <2>5. \A x \in Execs : Busy(x)' /\ Covered(x)'
                  => /\ owner'[held'[x]] = x
                     /\ state'[held'[x]] \in {"leased", "expired"}
                     /\ state'[held'[x]] = "expired" => request'[x] <= changed'[held'[x]]
    <3> SUFFICES ASSUME NEW x \in Execs, Busy(x), Covered(x)
                 PROVE  /\ owner[held[x]] = x
                        /\ state'[held[x]] \in {"leased", "expired"}
                        /\ state'[held[x]] = "expired" => request[x] <= changed'[held[x]]
      BY <2>1 DEF Covered
    <3>1. /\ owner[held[x]] = x /\ held[x] \in Slots /\ request[x] <= now
          /\ state[held[x]] \in {"leased", "expired"}
          /\ state[held[x]] = "expired" => request[x] <= changed[held[x]]
      BY DEF QuarantineInv
    <3> QED
      BY <2>1, <3>1
  <2> QED
    BY <2>1, <2>4, <2>5 DEF QuarantineInv
<1>11. CASE Reset
  <2>1. \A s \in Rested : state[s] = "expired" /\ changed[s] + Quarantine < now
    BY DEF Rested, TypeOK
  <2>2. \A s \in Slots : state[s] = "expired" => owner[s] \in Execs
    BY DEF TypeOK
  <2>3. \A x \in Execs : Busy(x) /\ Covered(x) => held[x] \in Slots \ Rested
    <3> SUFFICES ASSUME NEW x \in Execs, Busy(x), Covered(x), held[x] \in Rested PROVE FALSE
      BY DEF QuarantineInv
    <3>1. /\ request[x] <= changed[held[x]] /\ now <= request[x] + Request
          /\ held[x] \in Slots
      BY <2>1 DEF QuarantineInv
    <3>2. /\ request[x] \in Int /\ changed[held[x]] \in Nat /\ now \in Nat
      BY <3>1 DEF TypeOK
    <3>3. changed[held[x]] + Quarantine < now
      BY <2>1
    <3> QED
      BY <3>1, <3>2, <3>3
  <2>4. \A x \in Execs : phase[x] = "working" /\ now <= beat[x] + TTL => held[x] \in Slots \ Rested
    BY <2>1 DEF QuarantineInv, FenceInv, Leases
  <2>5. /\ UNCHANGED <<changed, phase, held, beat, request, now>>
        /\ \A s \in Slots \ Rested : state'[s] = state[s] /\ owner'[s] = owner[s]
    BY <1>11 DEF Reset, execVars
  <2> QED
    BY <2>3, <2>4, <2>5 DEF QuarantineInv, Covered
<1>12. CASE Tick
  <2>1. /\ UNCHANGED <<state, owner, changed, phase, held, beat, request>>
        /\ now' = now + 1
        /\ \A x \in Execs : Busy(x) => now < request[x] + Request
    BY <1>12 DEF Tick, slotVars, execVars
  <2>2. \A x \in Execs : now' <= beat'[x] + TTL => now <= beat[x] + TTL
    BY <2>1 DEF TypeOK
  <2>3. \A x \in Execs : Busy(x) => request[x] <= now + 1 /\ now + 1 <= request[x] + Request
    BY <2>1 DEF QuarantineInv, TypeOK
  <2> QED
    BY <2>1, <2>2, <2>3 DEF QuarantineInv, Covered
<1>13. CASE UNCHANGED vars
  BY <1>13 DEF vars, slotVars, execVars, QuarantineInv, Covered
<1> QED
  BY <1>1, <1>2, <1>3, <1>4, <1>5, <1>6, <1>7, <1>8, <1>9, <1>10, <1>11, <1>12, <1>13
     DEF Next, Execution

THEOREM QuarantineInvariance == Spec => []QuarantineInv
<1>1. Init => QuarantineInv
  BY LeaseAssumption DEF Init, QuarantineInv
<1> QED
  BY <1>1, QuarantineStep, TypeCorrect, FenceInvariance, PTL DEF Spec

\* A slot's sidecar is never shared by two requests that were both sent under a
\* good lease: the quarantine outlasts whatever a dead worker left running.
THEOREM NeverOvercommitted == Spec => []NoOvercommit
<1>1. TypeInv /\ QuarantineInv => NoOvercommit
  BY DEF QuarantineInv, NoOvercommit
<1> QED
  BY <1>1, TypeCorrect, QuarantineInvariance, PTL
=================================================================================
