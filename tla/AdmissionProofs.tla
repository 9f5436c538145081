---------------------------- MODULE AdmissionProofs -----------------------------
(***************************************************************************)
(* Admission control for any set of jobs, users and API replicas: types,     *)
(* the inductive invariant behind the counters, and the implementation of    *)
(* the abstract pool.                                                        *)
(***************************************************************************)
EXTENDS Admission, FiniteSetTheorems, TLAPS

USE DEF Keys, ActiveStatus, TerminalStatus, FinishedState

---------------------------------------------------------------------------------
(* Types *)

LEMMA QueueTypes ==
    ASSUME TypeOK, NEW j \in Jobs, Queue(j)
    PROVE  /\ adm' \in [Jobs -> {"none", "queued", "admitted"} \cup FinishedState]
           /\ ahead' \in [Jobs -> SUBSET Jobs]
           /\ dispatched' \in SUBSET Jobs
           /\ active' \in [Keys -> Nat]
BY DEF TypeOK, Queue

LEMMA AdmitTypes ==
    ASSUME TypeOK, NEW j \in Jobs, Admit(j)
    PROVE  /\ adm' \in [Jobs -> {"none", "queued", "admitted"} \cup FinishedState]
           /\ ahead' \in [Jobs -> SUBSET Jobs]
           /\ dispatched' \in SUBSET Jobs
           /\ active' \in [Keys -> Nat]
BY DEF TypeOK, Admit

LEMMA FinishTypes ==
    ASSUME TypeOK, NEW j \in Jobs, NEW t \in FinishedState, FinishAdmission(j, t)
    PROVE  /\ adm' \in [Jobs -> {"none", "queued", "admitted"} \cup FinishedState]
           /\ ahead' \in [Jobs -> SUBSET Jobs]
           /\ dispatched' \in SUBSET Jobs
           /\ active' \in [Keys -> Nat]
BY DEF TypeOK, FinishAdmission

\* Every reachable state is well typed; in particular no counter of
\* admission_counters ever goes below zero.
THEOREM TypeCorrect == Spec => []TypeOK
<1>1. Init => TypeOK
  BY AdmissionAssumption DEF Init, TypeOK
<1>2. TypeOK /\ [Next]_vars => TypeOK'
  <2> SUFFICES ASSUME TypeOK, [Next]_vars PROVE TypeOK'
    OBVIOUS
  <2>1. ASSUME NEW j \in Jobs, Create(j) PROVE TypeOK'
    BY <2>1, QueueTypes, AdmitTypes DEF Create, AdmitOrQueue, TypeOK, requests
  <2>2. ASSUME NEW j \in Jobs, CancelCheck(j) PROVE TypeOK'
    BY <2>2 DEF CancelCheck, TypeOK, rows
  <2>3. ASSUME NEW j \in Jobs, CancelCommit(j) PROVE TypeOK'
    BY <2>3, FinishTypes DEF CancelCommit, TypeOK, rows
  <2>4. ASSUME NEW j \in Jobs, DeleteFinish(j) PROVE TypeOK'
    BY <2>4, FinishTypes DEF DeleteFinish, TypeOK
  <2>5. ASSUME NEW j \in Jobs, DeleteRow(j) PROVE TypeOK'
    BY <2>5 DEF DeleteRow, TypeOK
  <2>6. ASSUME NEW j \in Jobs, Start(j) PROVE TypeOK'
    BY <2>6 DEF Start, TypeOK, requests
  <2>7. ASSUME NEW j \in Jobs, Complete(j) PROVE TypeOK'
    BY <2>7, FinishTypes DEF Complete, TypeOK, rows, requests
  <2>8. ASSUME NEW j \in Jobs, Exhaust(j) PROVE TypeOK'
    BY <2>8, FinishTypes DEF Exhaust, TypeOK, rows, requests
  <2>9. ASSUME NEW j \in Jobs, FailEmpty(j) PROVE TypeOK'
    BY <2>9, FinishTypes DEF FailEmpty, TypeOK, rows, requests
  <2>10. ASSUME NEW j \in Jobs, Die(j) PROVE TypeOK'
    BY <2>10 DEF Die, TypeOK, rows, requests
  <2>11. ASSUME NEW s \in Schedulers, Discover(s) PROVE TypeOK'
    BY <2>11 DEF Discover, TypeOK, rows, OldestPromotable, Promotable
  <2>12. ASSUME NEW s \in Schedulers, NEW j \in Jobs, Promote(s, j) PROVE TypeOK'
    BY <2>12, QueueTypes, AdmitTypes DEF Promote, AdmitOrQueue, TypeOK, rows
  <2>13. ASSUME NEW g \in GlobalLimits, NEW u \in UserLimits, Restart(g, u) PROVE TypeOK'
    BY <2>13, AdmissionAssumption DEF Restart, TypeOK, rows
  <2>14. CASE LaneChanges
    BY <2>14 DEF LaneChanges, TypeOK, rows, requests
  <2>15. CASE UNCHANGED vars
    BY <2>15 DEF vars, rows, requests, TypeOK
  <2> QED
    BY <2>1, <2>2, <2>3, <2>4, <2>5, <2>6, <2>7, <2>8, <2>9, <2>10, <2>11, <2>12,
       <2>13, <2>14, <2>15 DEF Next, Api, Worker, WorkerEnd, Scheduler
<1> QED
  BY <1>1, <1>2, PTL DEF Spec

---------------------------------------------------------------------------------
(* The counters *)

LEMMA HoldersFinite ==
    ASSUME NEW k
    PROVE  IsFiniteSet(HoldersOf(k)) /\ Cardinality(HoldersOf(k)) \in Nat
<1>1. HoldersOf(k) \subseteq Jobs
  BY DEF HoldersOf, Holders
<1> QED
  BY <1>1, FS_Subset, FS_CardinalityType, AdmissionAssumption

\* A step that changes no "admitted" row keeps every counted set.
LEMMA SameHolders ==
    ASSUME CountersExact, Holders' = Holders, UNCHANGED active
    PROVE  CountersExact'
BY DEF CountersExact, HoldersOf

LEMMA QueueCounts ==
    ASSUME TypeOK, CountersExact, NEW j \in Jobs, adm[j] # "admitted", Queue(j)
    PROVE  Holders' = Holders /\ CountersExact'
<1>1. Holders' = Holders
  BY DEF Queue, Holders, TypeOK
<1> QED
  BY <1>1, SameHolders DEF Queue

LEMMA AdmitCounts ==
    ASSUME TypeOK, CountersExact, NEW j \in Jobs, adm[j] # "admitted", Admit(j)
    PROVE  Holders' = Holders \cup {j} /\ CountersExact'
<1>1. Holders' = Holders \cup {j} /\ j \notin Holders
  BY DEF Admit, Holders, TypeOK
<1>2. ASSUME NEW k \in Keys PROVE active'[k] = Cardinality(HoldersOf(k)')
  <2>1. CASE k \in ChargedTo(j)
    <3>1. HoldersOf(k)' = HoldersOf(k) \cup {j} /\ j \notin HoldersOf(k)
      BY <1>1, <2>1 DEF HoldersOf, ChargedTo
    <3>2. Cardinality(HoldersOf(k)') = Cardinality(HoldersOf(k)) + 1
      BY <3>1, HoldersFinite, FS_AddElement
    <3> QED
      BY <3>2, <2>1 DEF Admit, CountersExact, TypeOK
  <2>2. CASE k \notin ChargedTo(j)
    <3>1. HoldersOf(k)' = HoldersOf(k)
      BY <1>1, <2>2 DEF HoldersOf, ChargedTo
    <3> QED
      BY <3>1, <2>2 DEF Admit, CountersExact, TypeOK
  <2> QED
    BY <2>1, <2>2
<1> QED
  BY <1>1, <1>2 DEF CountersExact

\* finish_job_admission gives back exactly what the job holds, whoever calls it
\* and however often.
LEMMA FinishCounts ==
    ASSUME TypeOK, CountersExact, NEW j \in Jobs, NEW t \in FinishedState,
           FinishAdmission(j, t)
    PROVE  Holders' = Holders \ {j} /\ CountersExact'
<1>1. Holders' = Holders \ {j}
  BY DEF FinishAdmission, Holders, TypeOK
<1>2. CASE adm[j] # "admitted"
  <2>1. Holders' = Holders
    BY <1>1, <1>2 DEF Holders
  <2>2. active' = active
    BY <1>2 DEF FinishAdmission, TypeOK
  <2> QED
    BY <1>1, <2>1, <2>2, SameHolders
<1>3. CASE adm[j] = "admitted"
  <2>1. ASSUME NEW k \in Keys PROVE active'[k] = Cardinality(HoldersOf(k)')
    <3>1. CASE k \in ChargedTo(j)
      <4>1. HoldersOf(k)' = HoldersOf(k) \ {j} /\ j \in HoldersOf(k)
        BY <1>1, <1>3, <3>1 DEF HoldersOf, Holders, ChargedTo
      <4>2. /\ Cardinality(HoldersOf(k)') = Cardinality(HoldersOf(k)) - 1
            /\ Cardinality(HoldersOf(k)') \in Nat
            /\ Cardinality(HoldersOf(k)) \in Nat
        BY <4>1, HoldersFinite, FS_RemoveElement, FS_CardinalityType
      <4>3. active[k] = Cardinality(HoldersOf(k))
        BY DEF CountersExact
      <4>4. active[k] > 0
        BY <4>2, <4>3
      <4> QED
        BY <4>2, <4>3, <4>4, <1>3, <3>1 DEF FinishAdmission
    <3>2. CASE k \notin ChargedTo(j)
      <4>1. HoldersOf(k)' = HoldersOf(k)
        BY <1>1, <3>2 DEF HoldersOf, ChargedTo
      <4> QED
        BY <4>1, <3>2 DEF FinishAdmission, CountersExact, TypeOK
    <3> QED
      BY <3>1, <3>2
  <2> QED
    BY <1>1, <2>1 DEF CountersExact
<1> QED
  BY <1>2, <1>3

---------------------------------------------------------------------------------
(* The inductive invariant *)

\* What ties a job's status to its admission row, and each half-done request
\* or execution to the job it is about.
Aux ==
    /\ \A j \in Jobs : status[j] \in {"absent", "deleted"} => adm[j] = "none"
    /\ \A j \in Jobs : status[j] \in ActiveStatus => adm[j] \in {"queued", "admitted"}
    /\ \A j \in dispatched : adm[j] \in {"admitted"} \cup FinishedState
    /\ \A j \in deleting : status[j] \in TerminalStatus
    /\ \A j \in running \cup cancelling : status[j] # "absent"

IInv == CountersExact /\ TerminalReleased /\ RunsOnlyAdmitted /\ Aux

LEMMA InitIInv == Init => IInv
<1> SUFFICES ASSUME Init PROVE IInv
  OBVIOUS
<1>1. Holders = {}
  BY DEF Init, Holders
<1>2. \A k \in Keys : HoldersOf(k) = {}
  BY <1>1 DEF HoldersOf
<1>3. CountersExact
  BY <1>2, FS_EmptySet DEF Init, CountersExact
<1> QED
  BY <1>1, <1>3 DEF Init, IInv, TerminalReleased, RunsOnlyAdmitted, Aux

\* One lemma per kind of write, used by every action that makes it.

LEMMA AdmitOrQueueStep ==
    ASSUME TypeOK, IInv, NEW j \in Jobs, AdmitOrQueue(j),
           adm[j] \in {"none", "queued"},
           status'[j] \in ActiveStatus,
           status[j] \in {"absent"} \cup ActiveStatus,
           status'[j] = "processing" => status[j] = "processing",
           \A i \in Jobs \ {j} : status'[i] = status[i],
           UNCHANGED running,
           cancelling' \subseteq cancelling, deleting' \subseteq deleting
    PROVE  IInv'
<1>1. adm[j] # "admitted" /\ status[j] # "processing"
  BY DEF IInv, RunsOnlyAdmitted
<1>2. CASE Queue(j)
  <2>1. CountersExact' /\ Holders' = Holders
    BY <1>1, <1>2, QueueCounts DEF IInv
  <2>2. adm'[j] = "queued" /\ dispatched' = dispatched /\ j \notin dispatched
    BY <1>2 DEF Queue, TypeOK, IInv, Aux
  <2>3. \A i \in Jobs \ {j} : adm'[i] = adm[i]
    BY <1>2 DEF Queue, TypeOK
  <2>4. TerminalReleased'
    BY <2>3 DEF IInv, TerminalReleased
  <2>5. RunsOnlyAdmitted'
    BY <1>1, <2>1, <2>2, <2>3 DEF IInv, RunsOnlyAdmitted
  <2>6. Aux'
    BY <2>2, <2>3 DEF IInv, Aux, TypeOK
  <2> QED
    BY <2>1, <2>4, <2>5, <2>6 DEF IInv
<1>3. CASE Admit(j)
  <2>1. CountersExact' /\ Holders' = Holders \cup {j}
    BY <1>1, <1>3, AdmitCounts DEF IInv
  <2>2. adm'[j] = "admitted" /\ dispatched' = dispatched \cup {j}
    BY <1>3 DEF Admit, TypeOK
  <2>3. \A i \in Jobs \ {j} : adm'[i] = adm[i]
    BY <1>3 DEF Admit, TypeOK
  <2>4. TerminalReleased'
    BY <2>3 DEF IInv, TerminalReleased
  <2>5. RunsOnlyAdmitted'
    BY <1>1, <2>1, <2>2, <2>3 DEF IInv, RunsOnlyAdmitted
  <2>6. Aux'
    BY <2>2, <2>3 DEF IInv, Aux, TypeOK
  <2> QED
    BY <2>1, <2>4, <2>5, <2>6 DEF IInv
<1> QED
  BY <1>2, <1>3 DEF AdmitOrQueue

\* A write that leaves the job terminal and releases its admission, or releases
\* the admission of a job that is terminal already.
LEMMA ReleaseStep ==
    ASSUME TypeOK, IInv, NEW j \in Jobs, NEW t \in FinishedState, FinishAdmission(j, t),
           status[j] \notin {"absent", "deleted"},
           status'[j] \in TerminalStatus,
           \A i \in Jobs \ {j} : status'[i] = status[i],
           running' \subseteq running, cancelling' \subseteq cancelling,
           deleting' \subseteq deleting \cup {j}
    PROVE  IInv'
<1>1. CountersExact' /\ Holders' = Holders \ {j}
  BY FinishCounts DEF IInv
<1>2. dispatched' = dispatched /\ \A i \in Jobs \ {j} : adm'[i] = adm[i]
  BY DEF FinishAdmission, TypeOK
<1>3. adm[j] \in {"queued", "admitted"} \cup FinishedState
  BY DEF IInv, Aux, TerminalReleased, TypeOK
<1>4. adm'[j] \in FinishedState
  BY <1>3 DEF FinishAdmission, TypeOK
<1>5. TerminalReleased'
  BY <1>2, <1>4 DEF IInv, TerminalReleased
<1>6. RunsOnlyAdmitted'
  BY <1>1, <1>2 DEF IInv, RunsOnlyAdmitted
<1>7. Aux'
  BY <1>2, <1>4 DEF IInv, Aux, TypeOK
<1> QED
  BY <1>1, <1>5, <1>6, <1>7 DEF IInv

\* A step that writes no row, and starts nothing on a job that does not exist.
LEMMA NoRowStep ==
    ASSUME IInv, UNCHANGED rows,
           deleting' \subseteq deleting,
           \A j \in (running \cup cancelling)' : j \in running \cup cancelling \/ status[j] # "absent"
    PROVE  IInv'
<1>1. CountersExact'
  BY SameHolders DEF IInv, rows, Holders
<1>2. TerminalReleased' /\ RunsOnlyAdmitted'
  BY DEF IInv, rows, TerminalReleased, RunsOnlyAdmitted, Holders
<1>3. Aux'
  BY DEF IInv, rows, Aux
<1> QED
  BY <1>1, <1>2, <1>3 DEF IInv

LEMMA IInvStep == TypeOK /\ IInv /\ [Next]_vars => IInv'
<1> SUFFICES ASSUME TypeOK, IInv, [Next]_vars PROVE IInv'
  OBVIOUS
<1> USE AdmissionAssumption
<1>1. ASSUME NEW j \in Jobs, Create(j) PROVE IInv'
  <2>1. adm[j] = "none" /\ AdmitOrQueue(j) /\ UNCHANGED <<running, requests>>
    BY <1>1 DEF Create, IInv, Aux
  <2>2. status' = [status EXCEPT ![j] = "pending"] /\ status[j] = "absent"
    BY <1>1 DEF Create
  <2> QED
    BY <2>1, <2>2, AdmitOrQueueStep DEF TypeOK, requests
<1>2. ASSUME NEW j \in Jobs, CancelCheck(j) PROVE IInv'
  BY <1>2, NoRowStep DEF CancelCheck
<1>3. ASSUME NEW j \in Jobs, CancelCommit(j) PROVE IInv'
  <2>1. CASE status[j] = "deleted"
    BY <1>3, <2>1, NoRowStep DEF CancelCommit
  <2>2. CASE status[j] # "deleted"
    <3>1. status[j] \notin {"absent", "deleted"}
      BY <1>3, <2>2 DEF CancelCommit, IInv, Aux
    <3> QED
      BY <1>3, <2>2, <3>1, ReleaseStep DEF CancelCommit, TypeOK
  <2> QED
    BY <2>1, <2>2
<1>4. ASSUME NEW j \in Jobs, DeleteFinish(j) PROVE IInv'
  BY <1>4, ReleaseStep DEF DeleteFinish
<1>5. ASSUME NEW j \in Jobs, DeleteRow(j) PROVE IInv'
  <2>1. adm[j] \in FinishedState
    BY <1>5 DEF DeleteRow, IInv, Aux, TerminalReleased
  <2>2. /\ status'[j] = "deleted" /\ adm'[j] = "none"
        /\ \A i \in Jobs \ {j} : status'[i] = status[i] /\ adm'[i] = adm[i]
        /\ dispatched' = dispatched \ {j} /\ deleting' = deleting \ {j}
        /\ UNCHANGED <<active, running, cancelling>>
    BY <1>5 DEF DeleteRow, TypeOK
  <2>3. Holders' = Holders
    BY <2>1, <2>2 DEF Holders
  <2>4. CountersExact'
    BY <2>2, <2>3, SameHolders DEF IInv
  <2>5. TerminalReleased'
    BY <2>2 DEF IInv, TerminalReleased
  <2>6. RunsOnlyAdmitted'
    BY <2>1, <2>2, <2>3 DEF IInv, RunsOnlyAdmitted, Holders
  <2>7. Aux'
    BY <2>2 DEF IInv, Aux, TypeOK
  <2> QED
    BY <2>4, <2>5, <2>6, <2>7 DEF IInv
<1>6. ASSUME NEW j \in Jobs, Start(j) PROVE IInv'
  <2>1. status'[j] = "processing" /\ \A i \in Jobs \ {j} : status'[i] = status[i]
    BY <1>6 DEF Start, TypeOK
  <2>2. j \in dispatched /\ status[j] \in {"pending", "processing", "failed"} /\ adm[j] = "admitted"
    BY <1>6 DEF Start, Startable, IInv, Aux
  <2>3. UNCHANGED <<adm, active, dispatched, requests>> /\ running' = running \cup {j}
    BY <1>6 DEF Start
  <2>4. CountersExact' /\ Holders' = Holders
    BY <2>3, SameHolders DEF IInv, Holders
  <2>5. TerminalReleased'
    BY <2>1, <2>3 DEF IInv, TerminalReleased
  <2>6. RunsOnlyAdmitted'
    BY <2>1, <2>2, <2>3, <2>4 DEF IInv, RunsOnlyAdmitted
  <2>7. status[j] # "failed"
    BY <2>2 DEF IInv, TerminalReleased
  <2>8. Aux'
    BY <2>1, <2>2, <2>3, <2>7 DEF IInv, Aux, TypeOK, requests
  <2> QED
    BY <2>4, <2>5, <2>6, <2>8 DEF IInv
<1>7. ASSUME NEW j \in Jobs, Complete(j) PROVE IInv'
  <2>1. CASE status[j] \in {"cancelled", "failed", "deleted"}
    BY <1>7, <2>1, NoRowStep DEF Complete, requests
  <2>2. CASE status[j] \notin {"cancelled", "failed", "deleted"}
    <3>1. status[j] \notin {"absent", "deleted"}
      BY <1>7, <2>2 DEF Complete, IInv, Aux
    <3> QED
      BY <1>7, <2>2, <3>1, ReleaseStep DEF Complete, TypeOK, requests
  <2> QED
    BY <2>1, <2>2
<1>8. ASSUME NEW j \in Jobs, Exhaust(j) PROVE IInv'
  <2>1. CASE status[j] = "deleted"
    BY <1>8, <2>1, NoRowStep DEF Exhaust, requests
  <2>2. CASE status[j] # "deleted"
    <3>1. status[j] \in ActiveStatus \cup TerminalStatus
      BY <1>8, <2>2 DEF Exhaust, IInv, Aux, TypeOK
    <3>2. /\ status'[j] \in TerminalStatus
          /\ \A i \in Jobs \ {j} : status'[i] = status[i]
      BY <1>8, <2>2, <3>1 DEF Exhaust, TypeOK
    <3> QED
      BY <1>8, <2>2, <3>1, <3>2, ReleaseStep DEF Exhaust, requests
  <2> QED
    BY <2>1, <2>2
<1>9. ASSUME NEW j \in Jobs, FailEmpty(j) PROVE IInv'
  <2>1. CASE status[j] = "deleted"
    BY <1>9, <2>1, NoRowStep DEF FailEmpty, requests
  <2>2. CASE status[j] # "deleted"
    <3>1. status[j] \notin {"absent", "deleted"}
      BY <1>9, <2>2 DEF FailEmpty, IInv, Aux
    <3> QED
      BY <1>9, <2>2, <3>1, ReleaseStep DEF FailEmpty, TypeOK, requests
  <2> QED
    BY <2>1, <2>2
<1>10. ASSUME NEW j \in Jobs, Die(j) PROVE IInv'
  BY <1>10, NoRowStep DEF Die, requests
<1>11. ASSUME NEW s \in Schedulers, Discover(s) PROVE IInv'
  BY <1>11, NoRowStep DEF Discover
<1>12. ASSUME NEW s \in Schedulers, NEW j \in Jobs, Promote(s, j) PROVE IInv'
  <2>1. CASE j \in Promotable
    BY <1>12, <2>1, AdmitOrQueueStep DEF Promote, Promotable
  <2>2. CASE j \notin Promotable
    BY <1>12, <2>2, NoRowStep DEF Promote
  <2> QED
    BY <2>1, <2>2
<1>13. ASSUME NEW g \in GlobalLimits, NEW u \in UserLimits, Restart(g, u) PROVE IInv'
  BY <1>13, NoRowStep DEF Restart
<1>14. CASE LaneChanges
  BY <1>14, NoRowStep DEF LaneChanges, requests
<1>15. CASE UNCHANGED vars
  BY <1>15, NoRowStep DEF vars, requests
<1> QED
  BY <1>1, <1>2, <1>3, <1>4, <1>5, <1>6, <1>7, <1>8, <1>9, <1>10, <1>11, <1>12,
     <1>13, <1>14, <1>15 DEF Next, Api, Worker, WorkerEnd, Scheduler

\* Every reachable state satisfies the inductive invariant.
THEOREM Invariance == Spec => []IInv
<1>1. Spec => []TypeOK
  BY TypeCorrect
<1> QED
  BY <1>1, InitIInv, IInvStep, PTL DEF Spec

\* The counter of every key equals the number of admitted jobs it counts.
THEOREM CountersNeverDrift == Spec => []CountersExact
BY Invariance, PTL DEF IInv

\* No terminal job holds capacity or a place in the queue.
THEOREM NoCapacityLeak == Spec => []TerminalReleased
BY Invariance, PTL DEF IInv

\* Nothing runs without being admitted, nothing is admitted without a dispatch.
THEOREM OnlyAdmittedRun == Spec => []RunsOnlyAdmitted
BY Invariance, PTL DEF IInv

---------------------------------------------------------------------------------
(* Action properties and the abstract pool *)

\* A finished admission never comes back: no promotion, retry, redelivery or
\* duplicate terminal write can make its job hold capacity again.
THEOREM FinishedStaysFinished == Spec => FinishedIsFinal
<1> DEFINE Final == \A j \in Jobs : adm[j] \in FinishedState => adm'[j] \in {adm[j], "none"}
<1>1. ASSUME TypeOK, IInv, [Next]_vars PROVE [Final]_vars
  <2> SUFFICES ASSUME Next PROVE Final
    BY <1>1
  <2> USE <1>1
  <2>1. ASSUME NEW j \in Jobs, NEW t \in FinishedState, FinishAdmission(j, t) PROVE Final
    BY <2>1 DEF FinishAdmission, TypeOK
  <2>2. ASSUME NEW j \in Jobs, AdmitOrQueue(j), adm[j] \in {"none", "queued"} PROVE Final
    BY <2>2 DEF AdmitOrQueue, Admit, Queue, TypeOK
  <2>3. ASSUME NEW j \in Jobs, Create(j) PROVE Final
    <3>1. adm[j] = "none"
      BY <2>3 DEF Create, IInv, Aux
    <3> QED
      BY <2>2, <2>3, <3>1 DEF Create
  <2>4. ASSUME NEW j \in Jobs, DeleteRow(j) PROVE Final
    BY <2>4 DEF DeleteRow, TypeOK
  <2>5. ASSUME NEW s \in Schedulers, NEW j \in Jobs, Promote(s, j) PROVE Final
    BY <2>2, <2>5 DEF Promote, Promotable, rows
  <2>6. ASSUME NEW j \in Jobs, CancelCommit(j) \/ DeleteFinish(j) \/ WorkerEnd(j) PROVE Final
    BY <2>1, <2>6 DEF CancelCommit, DeleteFinish, WorkerEnd, Complete, Exhaust, FailEmpty, rows
  <2>7. ASSUME UNCHANGED adm PROVE Final
    BY <2>7
  <2> QED
    BY <2>3, <2>4, <2>5, <2>6, <2>7
       DEF Next, Api, Worker, Scheduler, CancelCheck, Start, Die, Discover, Restart,
           LaneChanges, rows
<1> QED
  BY <1>1, TypeCorrect, Invariance, PTL DEF Spec, FinishedIsFinal

\* With exact counters, the check made under the counter locks is the pool's.
LEMMA CountersGiveRoom ==
    ASSUME TypeOK, CountersExact, NEW k \in Keys
    PROVE  ~AtLimit(k) => Pool!HasRoom(k)
<1>1. HoldersOf(k) = Pool!CountedBy(k, Holders)
  BY DEF HoldersOf, Pool!CountedBy
<1>2. active[k] = Cardinality(HoldersOf(k)) /\ limit[k] \in Nat /\ active[k] \in Nat
  BY DEF CountersExact, TypeOK
<1>3. Pool!HasRoom(k) <=> limit[k] = 0 \/ Cardinality(HoldersOf(k)) < limit[k]
  BY <1>1 DEF Pool!HasRoom, Pool!Cardinality, Cardinality
<1> QED
  BY <1>2, <1>3 DEF AtLimit

LEMMA AdmitOrQueueRefines ==
    ASSUME TypeOK, IInv, NEW j \in Jobs, adm[j] # "admitted", AdmitOrQueue(j),
           UNCHANGED limit
    PROVE  [Pool!PoolNext]_(Pool!poolVars)
<1>1. CASE MustQueue(j)
  <2>1. Holders' = Holders
    BY <1>1, QueueCounts DEF AdmitOrQueue, IInv
  <2> QED
    BY <2>1 DEF Pool!poolVars
<1>2. CASE ~MustQueue(j)
  <2>1. Holders' = Holders \cup {j} /\ j \notin Holders
    BY <1>2, AdmitCounts DEF AdmitOrQueue, IInv, Holders
  <2>2. Global \in Keys /\ Owner[j] \in Keys
    BY AdmissionAssumption
  <2>3. ~AtLimit(Global) /\ ~AtLimit(Owner[j])
    BY <1>2 DEF MustQueue, ChargedTo
  <2>4. Pool!HasRoom(Global) /\ Pool!HasRoom(Owner[j])
    BY <2>2, <2>3, CountersGiveRoom DEF IInv
  <2>5. Pool!Acquire(j)
    BY <2>1, <2>4 DEF Pool!Acquire
  <2> QED
    BY <2>5 DEF Pool!PoolNext
<1> QED
  BY <1>1, <1>2

LEMMA FinishRefines ==
    ASSUME TypeOK, IInv, NEW j \in Jobs, NEW t \in FinishedState, FinishAdmission(j, t),
           UNCHANGED limit
    PROVE  [Pool!PoolNext]_(Pool!poolVars)
<1>1. Holders' = Holders \ {j}
  BY FinishCounts DEF IInv
<1>2. CASE j \in Holders
  <2>1. Pool!Release(j)
    BY <1>1, <1>2 DEF Pool!Release
  <2> QED
    BY <2>1 DEF Pool!PoolNext
<1>3. CASE j \notin Holders
  BY <1>1, <1>3 DEF Pool!poolVars
<1> QED
  BY <1>2, <1>3

LEMMA SameHoldersRefines ==
    ASSUME UNCHANGED <<adm, limit>>
    PROVE  [Pool!PoolNext]_(Pool!poolVars)
BY DEF Holders, Pool!poolVars

\* Every behaviour of admission control is a behaviour of the abstract pool: a
\* job is admitted only into real room, and each release frees one place.
THEOREM AdmissionImplementsPool == Spec => ImplementsPool
<1>1. Init => Pool!PoolInit
  BY AdmissionAssumption DEF Init, Holders, Pool!PoolInit, Pool!Keys
<1>2. ASSUME TypeOK, IInv, [Next]_vars PROVE [Pool!PoolNext]_(Pool!poolVars)
  <2> USE <1>2
  <2>1. ASSUME NEW j \in Jobs, Create(j) PROVE [Pool!PoolNext]_(Pool!poolVars)
    <3>1. adm[j] = "none"
      BY <2>1 DEF Create, IInv, Aux
    <3> QED
      BY <2>1, <3>1, AdmitOrQueueRefines DEF Create
  <2>2. ASSUME NEW j \in Jobs, CancelCommit(j) \/ DeleteFinish(j) \/ WorkerEnd(j)
        PROVE  [Pool!PoolNext]_(Pool!poolVars)
    BY <2>2, FinishRefines, SameHoldersRefines
       DEF CancelCommit, DeleteFinish, WorkerEnd, Complete, Exhaust, FailEmpty, rows
  <2>3. ASSUME NEW j \in Jobs, DeleteRow(j) PROVE [Pool!PoolNext]_(Pool!poolVars)
    <3>1. adm[j] \in FinishedState
      BY <2>3 DEF DeleteRow, IInv, Aux, TerminalReleased
    <3>2. Holders' = Holders /\ limit' = limit
      BY <2>3, <3>1 DEF DeleteRow, Holders, TypeOK
    <3> QED
      BY <3>2 DEF Pool!poolVars
  <2>4. ASSUME NEW s \in Schedulers, NEW j \in Jobs, Promote(s, j)
        PROVE  [Pool!PoolNext]_(Pool!poolVars)
    BY <2>4, AdmitOrQueueRefines, SameHoldersRefines DEF Promote, Promotable, rows
  <2>5. ASSUME NEW g \in GlobalLimits, NEW u \in UserLimits, Restart(g, u)
        PROVE  [Pool!PoolNext]_(Pool!poolVars)
    <3>1. Holders' = Holders /\ limit' \in [Keys -> Nat]
      BY <2>5, AdmissionAssumption DEF Restart, Holders, rows
    <3> QED
      BY <3>1 DEF Pool!PoolNext, Pool!Reconfigure, Pool!Keys
  <2>6. ASSUME UNCHANGED <<adm, limit>> PROVE [Pool!PoolNext]_(Pool!poolVars)
    BY <2>6, SameHoldersRefines
  <2> QED
    BY <2>1, <2>2, <2>3, <2>4, <2>5, <2>6
       DEF Next, Api, Worker, Scheduler, CancelCheck, Start, Die, Discover,
           LaneChanges, rows, vars
<1> QED
  BY <1>1, <1>2, TypeCorrect, Invariance, PTL DEF Spec, ImplementsPool, Pool!PoolSpec
=================================================================================
