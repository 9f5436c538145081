------------------------------ MODULE MCAdmission -------------------------------
(* Admission on a small instance: two users, the first owns two jobs and has a *)
(* sidecar preference on one of them; two API replicas, interchangeable.       *)
EXTENDS Admission, TLC

CONSTANTS j1, j2, j3, u1, u2, s1, s2

MCJobs  == {j1, j2, j3}
MCUsers == {u1, u2}
MCOwner == [j \in MCJobs |-> IF j = j3 THEN u2 ELSE u1]
MCPinned == {j1}
MCSchedulers == {s1, s2}
Replicas == Permutations(MCSchedulers)
=================================================================================
