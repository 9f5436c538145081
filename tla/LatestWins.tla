------------------------------- MODULE LatestWins -------------------------------
(***************************************************************************)
(* What regenerating a summary promises.  Requests are numbered; only the    *)
(* newest number may store a text, and only a stored text of the newest       *)
(* number may complete the request.  A failed request, which is what a         *)
(* cancelled one is, comes back to life by a new number alone.                 *)
(***************************************************************************)
EXTENDS Naturals

VARIABLES newest,  \* the number of the newest request
          result,  \* "none", "processing", "completed" or "failed"
          stored   \* the numbers whose text is stored

vars == <<newest, result, stored>>

Init == newest = 0 /\ result = "none" /\ stored = {}

\* A new request, a renewed one, or a new number for the request in progress.
Request ==
    /\ newest' = newest + 1
    /\ result' = "processing"
    /\ UNCHANGED stored

Renumber ==
    /\ newest' = newest + 1
    /\ UNCHANGED <<result, stored>>

Store ==
    /\ result # "none"
    /\ stored' = stored \cup {newest}
    /\ UNCHANGED <<newest, result>>

\* Old texts are removed, those of a completed request only if they are stale.
Remove ==
    /\ stored' \subseteq stored
    /\ result = "completed" => (newest \in stored => newest \in stored')
    /\ UNCHANGED <<newest, result>>

Complete ==
    /\ result = "processing" /\ newest \in stored
    /\ result' = "completed"
    /\ UNCHANGED <<newest, stored>>

Fail ==
    /\ result # "none"
    /\ result' = "failed"
    /\ UNCHANGED <<newest, stored>>

Next == Request \/ Renumber \/ Store \/ Remove \/ Complete \/ Fail

Spec == Init /\ [][Next]_vars
=================================================================================
