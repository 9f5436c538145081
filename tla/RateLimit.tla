--------------------------------- MODULE RateLimit ---------------------------------
(***************************************************************************)
(* _check_rate_limit: a counter in Redis for one client address, incremented  *)
(* by every request of any API replica and given an expiry by the request       *)
(* that finds it new.  The two are separate calls, and an error of either          *)
(* refuses the request.                                                              *)
(***************************************************************************)
EXTENDS Integers, FiniteSets

CONSTANTS None, Requests,  \* requests in progress at one time
          Limit,             \* max_requests
          Window,          \* window_seconds, in ticks
          MaxCount         \* bound on the counter

VARIABLES
    hits,     \* the counter, 0 if there is none
    expiry,   \* ticks until it expires, None if it does not
    handler,  \* None, or the request: [number, age], its count and its ticks
    served    \* the requests let in lately, each by its count and its ticks

vars == <<hits, expiry, handler, served>>

Ages == 0..(2 * Window - 1)

\* A request a tick later, as far as one looks back.
Older(r) == IF r.age \in Ages THEN [r EXCEPT !.age = @ + 1] ELSE r

Tick ==
    /\ IF expiry = 1 THEN hits' = 0 /\ expiry' = None
       ELSE expiry' = (IF expiry = None THEN None ELSE expiry - 1) /\ UNCHANGED hits
    /\ served' = {r \in {Older(q) : q \in served} : r.age \in Ages}
    /\ handler' = [r \in Requests |-> IF handler[r] = None THEN None ELSE Older(handler[r])]

Incr(r) ==
    /\ handler[r] = None /\ hits < MaxCount
    /\ hits' = hits + 1
    /\ handler' = [handler EXCEPT ![r] = [number |-> hits + 1, age |-> 0]]
    /\ UNCHANGED <<expiry, served>>

Leave(r) == handler' = [handler EXCEPT ![r] = None]

\* Mutant: a count one too high passes.
WithinLoose(n) == n <= Limit + 1

Within(n) == n <= Limit

\* The request that found no counter sets its expiry; each is let in or refused.
Decide(r) ==
    /\ handler[r] # None
    /\ expiry' = IF handler[r].number = 1 THEN Window ELSE expiry
    /\ served' = IF Within(handler[r].number) /\ handler[r].age \in Ages
                 THEN served \cup {handler[r]} ELSE served
    /\ Leave(r)
    /\ UNCHANGED hits

\* Redis does not answer, or the process dies, between the two calls.
Lost(r) ==
    /\ handler[r] # None
    /\ Leave(r)
    /\ UNCHANGED <<hits, expiry, served>>

Init ==
    /\ hits = 0 /\ expiry = None
    /\ handler = [r \in Requests |-> None]
    /\ served = {}

Next == Tick \/ \E r \in Requests : Incr(r) \/ Decide(r) \/ Lost(r)

Spec == Init /\ [][Next]_vars

---------------------------------------------------------------------------------
(* Properties *)

\* The docstring says a sliding window of Limit requests; the window is a fixed one
\* that begins with its first request.  Of the requests that come in any Window
\* ticks at most twice Limit are let in, however late their handlers go on and
\* whichever of them die between the two calls.
TwiceAtMost ==
    \A g \in 0..Window : Cardinality({r \in served : r.age \in g..(g + Window - 1)}) <= 2 * Limit
=================================================================================
