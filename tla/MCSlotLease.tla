------------------------------ MODULE MCSlotLease -------------------------------
(* Slot leases on a small instance: three executions that compete for two       *)
(* slots, the third of a job that insists on the sidecar of slot a.             *)
EXTENDS SlotLease, TLC

CONSTANTS x1, x2, x3, a, b

MCExecs  == {x1, x2, x3}
MCSlots  == {a, b}
MCWanted == [x \in MCExecs |-> IF x = x3 THEN {a} ELSE MCSlots]
Alike    == Permutations({x1, x2})
=================================================================================
