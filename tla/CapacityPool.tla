------------------------------ MODULE CapacityPool ------------------------------
(***************************************************************************)
(* What admission control promises, without counters, queues or database    *)
(* transactions: a pool of capacity that jobs hold and give back.  A job    *)
(* takes capacity only while both the global pool and its owner's share     *)
(* have room for it.  Limits are operator configuration; lowering one never *)
(* evicts a holder, it only closes the pool until enough holders leave.     *)
(***************************************************************************)
EXTENDS Integers, FiniteSets

CONSTANTS Jobs,     \* the jobs that may ask for capacity
          Users,    \* their owners
          Owner,    \* Owner[j]: the user whose share job j counts against
          Global    \* the key of the pool shared by every user

VARIABLES held,     \* the jobs that hold capacity
          limit     \* limit[k]: the size of pool k; 0 means unlimited

poolVars == <<held, limit>>

Keys == Users \cup {Global}

\* The jobs of H that count against key k.
CountedBy(k, H) == {j \in H : k = Global \/ Owner[j] = k}

\* Pool k can take one more holder.
HasRoom(k) == limit[k] = 0 \/ Cardinality(CountedBy(k, held)) < limit[k]

PoolInit == /\ held = {}
            /\ limit \in [Keys -> Nat]

Acquire(j) == /\ j \notin held
              /\ HasRoom(Global)
              /\ HasRoom(Owner[j])
              /\ held' = held \cup {j}
              /\ UNCHANGED limit

Release(j) == /\ j \in held
              /\ held' = held \ {j}
              /\ UNCHANGED limit

Reconfigure == /\ limit' \in [Keys -> Nat]
               /\ UNCHANGED held

PoolNext == \/ \E j \in Jobs : Acquire(j) \/ Release(j)
            \/ Reconfigure

PoolSpec == PoolInit /\ [][PoolNext]_poolVars
=================================================================================
