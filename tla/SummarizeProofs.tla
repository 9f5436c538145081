----------------------------- MODULE SummarizeProofs -----------------------------
(***************************************************************************)
(* The summary of a job for any number of messages, generations, rows,         *)
(* documents and retries: types; a cancelled summarization stays cancelled;    *)
(* and, where no publisher sends a row twice, the newest request decides and    *)
(* a summary is published with its step.                                        *)
(***************************************************************************)
EXTENDS Summarize, TLAPS

---------------------------------------------------------------------------------
(* Types, in four parts: the job, the outbox, the broker, the requests *)

JobTypes ==
    /\ conv \in {"processing", "completed", "failed"}
    /\ summ \in Statuses
    /\ gen \in Gens
    /\ taskId \in Ids \cup {None, Busy}
    /\ step \in {"pending", "running", "completed", "failed"}
    /\ claim \in Ids \cup {None, Orphan}
    /\ docs \in [Gens -> 0..MaxDocs]

OutboxTypes ==
    /\ rows \in [RowIds -> Row]
    /\ made \in 0..MaxRows
    /\ sending \in [RowIds -> Gens]

BrokerTypes ==
    /\ place \in [Ids -> {"free", "queued"} \cup Running]
    /\ force \in [Ids -> BOOLEAN]
    /\ mine \in [Ids -> Gens]
    /\ tries \in [Ids -> 0..MaxRetries]
    /\ revoked \subseteq Ids

RequestTypes ==
    /\ asking \in BOOLEAN /\ cancelling \in BOOLEAN
    /\ retrying \in Statuses \cup {None}
    /\ faults \subseteq FaultKinds

Types == JobTypes /\ OutboxTypes /\ BrokerTypes /\ RequestTypes

LEMMA MoveTypes ==
    ASSUME BrokerTypes, NEW m \in Ids, NEW from, NEW to \in Running, Move(m, from, to)
    PROVE  BrokerTypes'
BY DEF BrokerTypes, Move

LEMMA AckTypes ==
    ASSUME BrokerTypes, NEW m \in Ids, Ack(m)
    PROVE  BrokerTypes'
<1>1. 0 \in Gens /\ 0 \in 0..MaxRetries
  BY SummarizeAssumption DEF Gens
<1> QED
  BY <1>1 DEF BrokerTypes, Ack

LEMMA RequeueTypes ==
    ASSUME BrokerTypes, NEW m \in Ids, NEW n \in 0..MaxRetries, Requeue(m, n)
    PROVE  BrokerTypes'
BY DEF BrokerTypes, Requeue

LEMMA DelayTypes ==
    ASSUME BrokerTypes, NEW f \in BOOLEAN, NEW g \in Gens, Delay(f, g)
    PROVE  BrokerTypes'
BY DEF BrokerTypes, Delay

LEMMA RevokeTypes ==
    ASSUME BrokerTypes, SendRevoke \/ UNCHANGED revoked, UNCHANGED <<place, force, mine, tries>>
    PROVE  BrokerTypes'
BY DEF BrokerTypes, SendRevoke

LEMMA EnqueueTypes ==
    ASSUME OutboxTypes, NEW f \in BOOLEAN, NEW g \in Gens, Enqueue(f, g)
    PROVE  OutboxTypes'
<1>1. made' \in 0..MaxRows
  BY SummarizeAssumption DEF OutboxTypes, Enqueue
<1>2. [state |-> "pending", force |-> f, gen |-> g] \in Row
  BY DEF Row, Live
<1>3. rows' \in [RowIds -> Row]
  BY <1>2 DEF OutboxTypes, Enqueue
<1> QED
  BY <1>1, <1>3 DEF OutboxTypes, Enqueue

LEMMA DeliveredTypes ==
    ASSUME OutboxTypes, MarkDelivered
    PROVE  OutboxTypes'
<1>1. \A r \in RowIds : [rows[r] EXCEPT !.state = "delivered"] \in Row
  BY DEF OutboxTypes, Row, Live
<1> QED
  BY <1>1 DEF OutboxTypes, MarkDelivered

\* A row whose state alone changes.
LEMMA StateTypes ==
    ASSUME OutboxTypes, NEW r \in RowIds, NEW s \in Live \cup {"delivered"},
           rows' = [rows EXCEPT ![r].state = s], made' = made,
           NEW g \in Gens, sending' = [sending EXCEPT ![r] = g] \/ sending' = sending
    PROVE  OutboxTypes'
<1>1. [rows[r] EXCEPT !.state = s] \in Row
  BY DEF OutboxTypes, Row
<1> QED
  BY <1>1 DEF OutboxTypes

LEMMA MintTypes ==
    ASSUME gen \in Gens, Mint
    PROVE  gen' \in Gens /\ gen + 1 \in Gens /\ gen' = gen + 1 /\ gen + 1 # 0
BY SummarizeAssumption DEF Mint, Gens

LEMMA GiveUpTypes ==
    ASSUME JobTypes, BrokerTypes, NEW m \in Ids, GiveUp(m), UNCHANGED <<gen, docs>>
    PROVE  JobTypes' /\ BrokerTypes'
<1>1. CASE tries[m] < MaxRetries /\ Requeue(m, tries[m] + 1) /\ UNCHANGED <<conv, summ, taskId, stepRow>>
  <2>1. tries[m] + 1 \in 0..MaxRetries
    BY <1>1, SummarizeAssumption DEF BrokerTypes
  <2> QED
    BY <1>1, <2>1, RequeueTypes DEF JobTypes, stepRow
<1>2. CASE Ack(m) /\ UNCHANGED <<conv, summ, taskId, stepRow>>
  BY <1>2, AckTypes DEF JobTypes, stepRow
<1>3. CASE Ack(m) /\ FailOwned(m) /\ UNCHANGED conv
  BY <1>3, AckTypes DEF JobTypes, FailOwned, ReleaseClaim, Abandon, Statuses
<1>4. CASE /\ Ack(m)
           /\ conv' = "failed" /\ taskId' = None
           /\ step' = IF step = "pending" THEN "failed" ELSE step
           /\ UNCHANGED <<summ, claim>>
  BY <1>4, AckTypes DEF JobTypes
<1> QED
  BY <1>1, <1>2, <1>3, <1>4 DEF GiveUp

LEMMA UserTypes == ASSUME Types, User PROVE Types'
<1> USE DEF Types
<1>1. ASSUME NEW f \in BOOLEAN, Begin(f), RequestTypes' PROVE Types'
  <2>1. gen' \in Gens /\ gen + 1 \in Gens
    BY <1>1, MintTypes DEF Begin, JobTypes
  <2>2. OutboxTypes'
    BY <1>1, <2>1, EnqueueTypes DEF Begin
  <2>3. BrokerTypes'
    BY <1>1, RevokeTypes DEF Begin
  <2> QED
    BY <1>1, <2>1, <2>2, <2>3 DEF Begin, JobTypes, stepRow, Statuses
<1>2. CASE ForceSummarize
  BY <1>1, <1>2 DEF ForceSummarize, requests, RequestTypes
<1>3. CASE SummarizeCommits
  BY <1>1, <1>3 DEF SummarizeCommits, RequestTypes
<1>4. CASE SummarizeChecks \/ SummarizeRefused \/ RetryRefused \/ CancelChecks \/ RetryLoads
  BY <1>4 DEF SummarizeChecks, SummarizeRefused, RetryRefused, CancelChecks, RetryLoads,
              job, stepRow, outbox, broker, JobTypes, OutboxTypes, BrokerTypes, RequestTypes
<1>5. CASE RetryCommits
  <2>1. gen' \in Gens /\ gen + 1 \in Gens
    BY <1>5, MintTypes DEF RetryCommits, JobTypes
  <2>2. OutboxTypes'
    BY <1>5, <2>1, EnqueueTypes DEF RetryCommits
  <2> QED
    BY <1>5, <2>1, <2>2 DEF RetryCommits, JobTypes, BrokerTypes, RequestTypes, broker, Statuses
<1>6. CASE CancelCommits
  <2>1. BrokerTypes'
    BY <1>6, RevokeTypes DEF CancelCommits
  <2> QED
    BY <1>6, <2>1 DEF CancelCommits, JobTypes, OutboxTypes, RequestTypes, outbox, stepRow, Statuses
<1> QED
  BY <1>2, <1>3, <1>4, <1>5, <1>6 DEF User

LEMMA PublishTypes ==
    ASSUME Types, NEW r \in RowIds, Publish(r) \/ PublishFails(r)
    PROVE  Types'
<1> USE DEF Types
<1>0. 0 \in Gens /\ rows[r].force \in BOOLEAN /\ rows[r].gen \in Gens /\ sending[r] \in Gens
      /\ rows[r].state \in Live \cup {"delivered"}
      /\ {"pending", "publishing", "published"} \subseteq Live
  BY SummarizeAssumption DEF OutboxTypes, Row, Gens, Live
<1>1. CASE DropRow(r) \/ ReclaimRow(r)
  <2>1. OutboxTypes'
    BY <1>0, <1>1, StateTypes DEF DropRow, ReclaimRow
  <2> QED
    BY <1>1, <2>1 DEF DropRow, ReclaimRow, job, stepRow, broker, requests,
                      JobTypes, BrokerTypes, RequestTypes
<1>2. CASE ClaimRow(r)
  <2>1. \E g \in Gens : gen' \in Gens /\ sending' = [sending EXCEPT ![r] = g]
    BY <1>0, <1>2, MintTypes DEF ClaimRow, JobTypes
  <2>2. OutboxTypes'
    BY <1>0, <1>2, <2>1, StateTypes DEF ClaimRow
  <2> QED
    BY <1>2, <2>1, <2>2 DEF ClaimRow, stepRow, broker, requests, JobTypes, BrokerTypes, RequestTypes
<1>3. CASE SendRow(r) \/ PublisherDiesLate(r)
  <2>1. BrokerTypes'
    BY <1>0, <1>3, DelayTypes DEF SendRow, PublisherDiesLate
  <2>2. OutboxTypes'
    <3>1. CASE SendRow(r)
      BY <1>0, <3>1, StateTypes DEF SendRow
    <3>2. CASE PublisherDiesLate(r)
      BY <1>0, <3>2 DEF PublisherDiesLate, OutboxTypes
    <3> QED
      BY <1>3, <3>1, <3>2
  <2> QED
    BY <1>3, <2>1, <2>2 DEF SendRow, PublisherDiesLate, job, stepRow, requests, JobTypes, RequestTypes
<1>4. CASE SendRefused(r)
  <2>1. OutboxTypes'
    BY <1>0, <1>4, StateTypes DEF SendRefused
  <2> QED
    BY <1>4, <2>1 DEF SendRefused, job, stepRow, broker, requests, JobTypes, BrokerTypes, RequestTypes
<1>5. CASE PublisherDies(r)
  <2>1. OutboxTypes'
    BY <1>0, <1>5 DEF PublisherDies, OutboxTypes
  <2> QED
    BY <1>5, <2>1 DEF PublisherDies, job, stepRow, broker, requests, JobTypes, BrokerTypes, RequestTypes
<1> QED
  BY <1>1, <1>2, <1>3, <1>4, <1>5 DEF Publish, PublishFails

LEMMA WorkTypes ==
    ASSUME Types, NEW m \in Ids, Work(m)
    PROVE  Types'
<1> USE DEF Types
<1> {"installed", "leased", "claimed", "generating", "saved", "discarded"} \subseteq Running
  BY DEF Running
<1>1. CASE Install(m)
  BY <1>1, MoveTypes DEF Install, Statuses, JobTypes, OutboxTypes, RequestTypes, stepRow, outbox, requests
<1>2. CASE Skip(m) \/ ClaimRefused(m)
  BY <1>2, AckTypes DEF Skip, ClaimRefused, JobTypes, OutboxTypes, RequestTypes, job, stepRow, outbox, requests
<1>3. CASE Lease(m)
  BY <1>3, MoveTypes, DeliveredTypes DEF Lease, JobTypes, RequestTypes, job, stepRow, requests
<1>4. CASE ClaimStep(m)
  BY <1>4, MoveTypes DEF ClaimStep, JobTypes, OutboxTypes, RequestTypes, job, outbox, requests
<1>5. CASE TakeoverFails(m) \/ LanelessGivesUp(m)
  BY <1>5, GiveUpTypes DEF TakeoverFails, LanelessGivesUp, OutboxTypes, RequestTypes, outbox, requests
<1>6. CASE Prepare(m)
  <2>1. docs' \in [Gens -> 0..MaxDocs]
    BY <1>6, SummarizeAssumption DEF Prepare, JobTypes
  <2> QED
    BY <1>6, <2>1, MoveTypes DEF Prepare, JobTypes, OutboxTypes, RequestTypes, job, stepRow, outbox, requests
<1>7. CASE Save(m)
  <2>1. mine[m] \in Gens /\ docs[mine[m]] + 1 \in 0..MaxDocs
    BY <1>7, SummarizeAssumption DEF Save, JobTypes, BrokerTypes
  <2>2. docs' \in [Gens -> 0..MaxDocs]
    BY <1>7, <2>1 DEF Save, JobTypes
  <2> QED
    BY <1>7, <2>2, MoveTypes DEF Save, JobTypes, OutboxTypes, RequestTypes, job, stepRow, outbox, requests
<1>8. CASE Superseded(m) \/ Discarded(m)
  BY <1>8, AckTypes DEF Superseded, Discarded, ReleaseClaim, JobTypes, OutboxTypes, RequestTypes, job, outbox, requests
<1>9. CASE Complete(m)
  BY <1>9, AckTypes DEF Complete, Statuses, JobTypes, OutboxTypes, RequestTypes, outbox, requests
<1>10. CASE Discard(m)
  <2>1. mine[m] \in Gens /\ (docs[mine[m]] > 0 => docs[mine[m]] - 1 \in 0..MaxDocs) /\ 0 \in 0..MaxDocs
    BY <1>10, SummarizeAssumption DEF Discard, JobTypes, BrokerTypes
  <2>2. docs' \in [Gens -> 0..MaxDocs]
    BY <1>10, <2>1 DEF Discard, JobTypes
  <2> QED
    BY <1>10, <2>2, MoveTypes DEF Discard, JobTypes, OutboxTypes, RequestTypes, job, stepRow, outbox, requests
<1> QED
  BY <1>1, <1>2, <1>3, <1>4, <1>5, <1>6, <1>7, <1>8, <1>9, <1>10 DEF Work

LEMMA WorkFailsTypes ==
    ASSUME Types, NEW m \in Ids, WorkFails(m)
    PROVE  Types'
<1> USE DEF Types
<1>1. CASE NoSlot(m)
  BY <1>1, GiveUpTypes, DeliveredTypes DEF NoSlot, RequestTypes, requests
<1>2. CASE LaneGone(m)
  <2>1. BrokerTypes'
    BY <1>2, MoveTypes DEF LaneGone, Running
  <2> QED
    BY <1>2, <2>1 DEF LaneGone, ReleaseClaim, JobTypes, OutboxTypes, RequestTypes, job, outbox, requests
<1>3. CASE WorkCancelled(m) \/ Raises(m)
  BY <1>3, AckTypes DEF WorkCancelled, Raises, FailOwned, ReleaseClaim, Abandon, Statuses,
                        JobTypes, OutboxTypes, RequestTypes, outbox, requests
<1>4. CASE Die(m)
  <2>1. BrokerTypes'
    BY <1>4, RequeueTypes DEF Die, BrokerTypes
  <2> QED
    BY <1>4, <2>1 DEF Die, Abandon, JobTypes, OutboxTypes, RequestTypes, job, outbox, requests
<1>5. CASE TimeOut(m) \/ Revoke(m)
  BY <1>5, AckTypes DEF TimeOut, Revoke, Abandon, JobTypes, OutboxTypes, RequestTypes, job, outbox, requests
<1> QED
  BY <1>1, <1>2, <1>3, <1>4, <1>5 DEF WorkFails

LEMMA TypesStay == Spec => []Types
<1>1. Init => Types
  <2> SUFFICES ASSUME Init PROVE Types
    OBVIOUS
  <2>1. 0 \in Gens /\ 0 \in 0..MaxDocs /\ 0 \in 0..MaxRows /\ 0 \in 0..MaxRetries
    BY SummarizeAssumption DEF Gens
  <2>2. JobTypes /\ RequestTypes
    BY <2>1, SummarizeAssumption DEF Init, JobTypes, RequestTypes, Statuses
  <2>3. OutboxTypes /\ BrokerTypes
    BY <2>1 DEF Init, OutboxTypes, BrokerTypes, NoRow, Row, Live
  <2> QED
    BY <2>2, <2>3 DEF Types
<1>2. Types /\ [Next]_vars => Types'
  <2> SUFFICES ASSUME Types, [Next]_vars PROVE Types'
    OBVIOUS
  <2>1. CASE User
    BY <2>1, UserTypes
  <2>2. CASE Reap
    <3>1. 0 \in Gens /\ (conv = "completed") \in BOOLEAN
      BY SummarizeAssumption DEF Gens
    <3>2. OutboxTypes'
      BY <2>2, <3>1, EnqueueTypes DEF Reap, Types
    <3> QED
      BY <2>2, <3>2 DEF Reap, Types, JobTypes, BrokerTypes, RequestTypes, broker, requests
  <2>3. CASE ConversionEnds
    BY <2>3 DEF ConversionEnds, Types, JobTypes, OutboxTypes, BrokerTypes, RequestTypes,
                outbox, broker, requests
  <2>4. ASSUME NEW r \in RowIds, Publish(r) \/ PublishFails(r) PROVE Types'
    BY <2>4, PublishTypes
  <2>5. ASSUME NEW m \in Ids, Work(m) \/ WorkFails(m) PROVE Types'
    BY <2>5, WorkTypes, WorkFailsTypes
  <2>6. CASE UNCHANGED vars
    BY <2>6 DEF vars, job, stepRow, outbox, broker, requests,
                Types, JobTypes, OutboxTypes, BrokerTypes, RequestTypes
  <2> QED
    BY <2>1, <2>2, <2>3, <2>4, <2>5, <2>6 DEF Next
<1> QED
  BY <1>1, <1>2, PTL DEF Spec

\* Every reachable state is well typed: what is counted stays within its bounds.
THEOREM TypeCorrect == Spec => []TypeOK
<1>1. Types => TypeOK
  BY DEF Types, TypeOK, JobTypes, OutboxTypes, BrokerTypes, RequestTypes
<1> QED
  BY <1>1, TypesStay, PTL

---------------------------------------------------------------------------------
(* Generations: none is with two rows or messages at a time *)

\* The generation a row is yet to send, 0: none, or one yet to be minted.
Tickets == [r \in RowIds |->
    IF sending[r] # 0 THEN sending[r]
    ELSE IF rows[r].state \in {"pending", "publishing"} THEN rows[r].gen ELSE 0]

RowsInv ==
    /\ \A r \in RowIds : r > made => rows[r].state = "delivered" /\ sending[r] = 0
    /\ \A r \in RowIds : sending[r] # 0 => rows[r].state # "pending" /\ rows[r].gen \in {0, sending[r]}

Unique ==
    /\ \A r \in RowIds : Tickets[r] <= gen
    /\ \A r, s \in RowIds : r # s => Tickets[r] = 0 \/ Tickets[r] # Tickets[s]
    /\ \A m \in Ids : place[m] # "free" =>
          mine[m] > 0 /\ mine[m] <= gen /\ \A r \in RowIds : mine[m] # Tickets[r]
    /\ \A m, n \in Ids : m # n /\ place[m] # "free" /\ place[n] # "free" => mine[m] # mine[n]

\* What a step can do to the generations: nothing new, a new one, one that is sent.
Fewer == \A m \in Ids : place'[m] # "free" => place[m] # "free" /\ mine'[m] = mine[m]
Spent == \A r \in RowIds : Tickets'[r] \in {0, Tickets[r]}
Quiet == gen' = gen /\ Fewer /\ Spent

Minted ==
    /\ gen' = gen + 1
    /\ UNCHANGED <<place, mine>>
    /\ \E r \in RowIds : Tickets' = [Tickets EXCEPT ![r] = gen + 1]

Sent ==
    /\ gen' = gen
    /\ \E n \in Ids, r \in RowIds :
          /\ place[n] = "free" /\ Tickets[r] # 0
          /\ place' = [place EXCEPT ![n] = "queued"]
          /\ mine' = [mine EXCEPT ![n] = Tickets[r]]
          /\ Tickets' = [Tickets EXCEPT ![r] = 0]

LEMMA TicketTypes == ASSUME OutboxTypes PROVE Tickets \in [RowIds -> Gens]
<1>1. 0 \in Gens /\ \A r \in RowIds : rows[r].gen \in Gens /\ sending[r] \in Gens
  BY SummarizeAssumption DEF OutboxTypes, Row, Gens
<1> QED
  BY <1>1 DEF Tickets

LEMMA UniqueStep ==
    ASSUME Types, Unique, Quiet \/ Minted \/ Sent
    PROVE  Unique'
<1>1. Tickets \in [RowIds -> Nat] /\ gen \in Nat /\ mine \in [Ids -> Nat]
      /\ DOMAIN place = Ids
  BY TicketTypes, SummarizeAssumption DEF Types, JobTypes, BrokerTypes, Gens
<1>2. CASE Quiet
  <2>1. \A r \in RowIds : Tickets'[r] = 0 \/ Tickets'[r] = Tickets[r]
    BY <1>2 DEF Quiet, Spent
  <2>2. \A m \in Ids : place'[m] # "free" => place[m] # "free" /\ mine'[m] = mine[m]
    BY <1>2 DEF Quiet, Fewer
  <2>3. gen' = gen
    BY <1>2 DEF Quiet
  <2> HIDE DEF Tickets
  <2> QED
    BY <1>1, <2>1, <2>2, <2>3 DEF Unique
<1>3. CASE Minted
  <2> PICK r \in RowIds : Tickets' = [Tickets EXCEPT ![r] = gen + 1]
    BY <1>3 DEF Minted
  <2>1. gen' = gen + 1 /\ place' = place /\ mine' = mine
    BY <1>3 DEF Minted
  <2> QED
    BY <1>1, <2>1 DEF Unique
<1>4. CASE Sent
  <2> PICK n \in Ids, r \in RowIds :
        /\ place[n] = "free" /\ Tickets[r] # 0
        /\ place' = [place EXCEPT ![n] = "queued"]
        /\ mine' = [mine EXCEPT ![n] = Tickets[r]]
        /\ Tickets' = [Tickets EXCEPT ![r] = 0]
    BY <1>4 DEF Sent
  <2>1. gen' = gen
    BY <1>4 DEF Sent
  <2>2. /\ Tickets[r] <= gen /\ Tickets[r] > 0
        /\ \A s \in RowIds : Tickets'[s] = IF s = r THEN 0 ELSE Tickets[s]
        /\ \A m \in Ids : /\ mine'[m] = IF m = n THEN Tickets[r] ELSE mine[m]
                          /\ place'[m] # "free" <=> place[m] # "free" \/ m = n
    BY <1>1 DEF Unique
  <2>3. \A s \in RowIds : s # r => Tickets[s] # Tickets[r]
    BY <2>2 DEF Unique
  <2>4. \A m \in Ids : place[m] # "free" => mine[m] # Tickets[r] /\ m # n
    BY DEF Unique
  <2>5. \A m \in Ids : place'[m] # "free" =>
          mine'[m] > 0 /\ mine'[m] <= gen /\ \A s \in RowIds : mine'[m] # Tickets'[s]
    BY <1>1, <2>2, <2>3, <2>4 DEF Unique
  <2>6. \A m, k \in Ids : m # k /\ place'[m] # "free" /\ place'[k] # "free" => mine'[m] # mine'[k]
    BY <2>2, <2>4 DEF Unique
  <2>7. /\ \A s \in RowIds : Tickets'[s] <= gen
        /\ \A s, q \in RowIds : s # q => Tickets'[s] = 0 \/ Tickets'[s] # Tickets'[q]
    BY <1>1, <2>2 DEF Unique
  <2> QED
    BY <2>1, <2>5, <2>6, <2>7 DEF Unique
<1> QED
  BY <1>2, <1>3, <1>4

---------------------------------------------------------------------------------
(* The shape of each step *)

LEMMA MoveFewer ==
    ASSUME BrokerTypes, NEW m \in Ids, NEW from, NEW to, from # "free", Move(m, from, to)
    PROVE  Fewer
BY DEF BrokerTypes, Move, Fewer

LEMMA AckFewer ==
    ASSUME BrokerTypes, NEW m \in Ids, Ack(m)
    PROVE  Fewer
BY DEF BrokerTypes, Ack, Fewer

LEMMA RequeueFewer ==
    ASSUME BrokerTypes, NEW m \in Ids, NEW n, place[m] # "free", Requeue(m, n)
    PROVE  Fewer
BY DEF BrokerTypes, Requeue, Fewer

LEMMA GiveUpFewer ==
    ASSUME BrokerTypes, NEW m \in Ids, place[m] # "free", GiveUp(m)
    PROVE  Fewer
BY AckFewer, RequeueFewer DEF GiveUp

LEMMA OutboxSame ==
    ASSUME OutboxTypes, RowsInv, UNCHANGED outbox
    PROVE  RowsInv' /\ Tickets' = Tickets
BY DEF outbox, RowsInv, Tickets

LEMMA DeliveredSpent ==
    ASSUME OutboxTypes, RowsInv, MarkDelivered
    PROVE  RowsInv' /\ Spent
<1>1. \A r \in RowIds : /\ rows'[r] = rows[r] \/ (/\ rows[r].state \in Live
                                                  /\ rows'[r] = [rows[r] EXCEPT !.state = "delivered"])
                        /\ rows[r] \in Row
                        /\ sending'[r] = sending[r]
      /\ made' = made
  BY DEF OutboxTypes, MarkDelivered
<1>2. \A r \in RowIds : /\ rows'[r].gen = rows[r].gen
                        /\ rows'[r].state \in {rows[r].state, "delivered"}
                        /\ rows[r].state = "delivered" => rows'[r].state = "delivered"
  BY <1>1 DEF Row, Live
<1> QED
  BY <1>1, <1>2 DEF RowsInv, Spent, Tickets

LEMMA Enqueued ==
    ASSUME OutboxTypes, RowsInv, NEW f, NEW g, Enqueue(f, g)
    PROVE  RowsInv' /\ \E r \in RowIds : Tickets' = [Tickets EXCEPT ![r] = g]
<1>1. made + 1 \in RowIds /\ made' = made + 1 /\ made \in Nat /\ sending' = sending
      /\ rows' = [rows EXCEPT ![made + 1] = [state |-> "pending", force |-> f, gen |-> g]]
  BY SummarizeAssumption DEF OutboxTypes, Enqueue, RowIds
<1>2. sending[made + 1] = 0
  BY <1>1 DEF RowsInv
<1>3. Tickets' = [Tickets EXCEPT ![made + 1] = g]
  BY <1>1, <1>2 DEF Tickets, OutboxTypes
<1>4. RowsInv'
  <2>1. \A r \in RowIds : r \in Nat
    BY SummarizeAssumption DEF RowIds
  <2> QED
    BY <1>1, <1>2, <2>1 DEF RowsInv, OutboxTypes
<1> QED
  BY <1>1, <1>3, <1>4

LEMMA PublishShape ==
    ASSUME Types, RowsInv, "duplicate" \notin faults, NEW r \in RowIds,
           Publish(r) \/ PublishFails(r)
    PROVE  RowsInv' /\ (Quiet \/ Minted \/ Sent)
<1>1. /\ rows \in [RowIds -> Row] /\ sending \in [RowIds -> Nat] /\ gen \in Nat /\ made \in Nat
      /\ rows[r] \in Row /\ rows[r].gen \in Nat
  BY SummarizeAssumption DEF Types, JobTypes, OutboxTypes, Gens, Row
<1>2. ASSUME UNCHANGED <<place, mine, gen, made>>,
             NEW s, rows' = [rows EXCEPT ![r].state = s],
             sending' = sending \/ sending' = [sending EXCEPT ![r] = 0],
             s \in {"pending", "publishing"} =>
                rows[r].state \in {"pending", "publishing"} /\ (s = "pending" => sending'[r] = 0),
             rows[r].state = "delivered" => s = "delivered"
      PROVE  RowsInv' /\ Quiet
  <2>1. Fewer
    BY <1>2 DEF Fewer
  <2>2. /\ rows'[r].gen = rows[r].gen /\ rows'[r].state = s
        /\ rows[r].state = "delivered" => rows'[r].state = "delivered"
        /\ \A q \in RowIds : q # r => rows'[q] = rows[q] /\ sending'[q] = sending[q]
    BY <1>1, <1>2 DEF Row
  <2>3. sending'[r] \in {0, sending[r]}
    BY <1>1, <1>2
  <2>4. RowsInv'
    BY <1>2, <2>2, <2>3 DEF RowsInv
  <2>5. Spent
    BY <1>1, <1>2, <2>2, <2>3 DEF RowsInv, Spent, Tickets
  <2> QED
    BY <1>2, <2>1, <2>4, <2>5 DEF Quiet
<1>3. CASE DropRow(r) \/ ReclaimRow(r)
  BY <1>1, <1>2, <1>3 DEF DropRow, ReclaimRow, job, broker
<1>4. CASE SendRefused(r)
  <2>1. rows' = [rows EXCEPT ![r].state =
                    IF rows[r].state = "publishing" THEN "pending" ELSE rows[r].state]
    BY <1>1, <1>4 DEF SendRefused
  <2>2. /\ UNCHANGED <<place, mine, gen, made>>
        /\ sending' = [sending EXCEPT ![r] = 0] /\ sending'[r] = 0
        /\ rows[r].state # "pending"
    BY <1>1, <1>4 DEF SendRefused, job, broker, RowsInv
  <2> QED
    BY <1>2, <2>1, <2>2
<1>5. CASE PublisherDies(r)
  <2>1. /\ UNCHANGED <<place, mine, gen, made, rows>> /\ sending' = [sending EXCEPT ![r] = 0]
    BY <1>5 DEF PublisherDies, job, broker
  <2>2. Fewer
    BY <2>1 DEF Fewer
  <2>3. RowsInv'
    BY <1>1, <2>1 DEF RowsInv
  <2>4. Spent
    BY <1>1, <2>1 DEF RowsInv, Spent, Tickets
  <2> QED
    BY <2>1, <2>2, <2>3, <2>4 DEF Quiet
<1>6. CASE ClaimRow(r)
  <2>1. /\ rows[r].state = "pending" /\ sending[r] = 0
        /\ rows' = [rows EXCEPT ![r].state = "publishing"]
        /\ UNCHANGED <<place, mine, made>>
    BY <1>6 DEF ClaimRow, broker, RowsInv
  <2>2. /\ rows'[r].gen = rows[r].gen /\ rows'[r].state = "publishing"
        /\ \A q \in RowIds : q # r => rows'[q] = rows[q]
    BY <1>1, <2>1 DEF Row
  <2>3. CASE rows[r].gen = 0
    <3>1. gen' = gen + 1 /\ sending' = [sending EXCEPT ![r] = gen + 1]
      BY <1>6, <2>3 DEF ClaimRow, Mint
    <3>2. RowsInv'
      BY <1>1, <2>1, <2>2, <2>3, <3>1 DEF RowsInv
    <3>3. Tickets' = [Tickets EXCEPT ![r] = gen + 1]
      <4>1. sending'[r] = gen + 1 /\ gen + 1 # 0
        BY <1>1, <3>1
      <4>2. \A q \in RowIds : q # r => rows'[q] = rows[q] /\ sending'[q] = sending[q]
        BY <1>1, <2>2, <3>1
      <4> QED
        BY <4>1, <4>2 DEF Tickets
    <3>4. UNCHANGED <<place, mine>> /\ gen' = gen + 1
      BY <2>1, <3>1
    <3>5. Minted
      BY <3>3, <3>4 DEF Minted
    <3> QED
      BY <3>2, <3>5
  <2>4. CASE rows[r].gen # 0
    <3>1. gen' = gen /\ sending' = [sending EXCEPT ![r] = rows[r].gen]
      BY <1>6, <2>4 DEF ClaimRow
    <3>2. RowsInv'
      BY <1>1, <2>1, <2>2, <2>4, <3>1 DEF RowsInv
    <3>3. Tickets' = Tickets
      BY <1>1, <2>1, <2>2, <2>4, <3>1 DEF Tickets
    <3> QED
      BY <2>1, <3>1, <3>2, <3>3 DEF Quiet, Fewer, Spent
  <2> QED
    BY <2>3, <2>4
<1>7. CASE SendRow(r)
  <2>1. PICK n \in Ids : /\ place[n] = "free"
                         /\ place' = [place EXCEPT ![n] = "queued"]
                         /\ mine' = [mine EXCEPT ![n] = sending[r]]
    BY <1>7 DEF SendRow, Delay
  <2>2. /\ sending[r] # 0 /\ sending' = [sending EXCEPT ![r] = 0]
        /\ rows' = [rows EXCEPT ![r].state = IF @ = "publishing" THEN "published" ELSE @]
        /\ UNCHANGED <<gen, made>>
    BY <1>7 DEF SendRow, job
  <2>3. /\ rows'[r].gen = rows[r].gen /\ rows'[r].state \notin {"pending", "publishing"}
        /\ rows[r].state # "pending"
        /\ rows[r].state = "delivered" => rows'[r].state = "delivered"
        /\ \A q \in RowIds : q # r => rows'[q] = rows[q] /\ sending'[q] = sending[q]
    BY <1>1, <2>2 DEF Row, RowsInv
  <2>4. RowsInv'
    BY <1>1, <2>2, <2>3 DEF RowsInv
  <2>5. Tickets[r] = sending[r] /\ Tickets' = [Tickets EXCEPT ![r] = 0]
    BY <1>1, <2>2, <2>3 DEF Tickets
  <2> QED
    BY <2>1, <2>2, <2>4, <2>5 DEF Sent
<1>8. CASE PublisherDiesLate(r)
  BY <1>8 DEF PublisherDiesLate
<1> QED
  BY <1>3, <1>4, <1>5, <1>6, <1>7, <1>8 DEF Publish, PublishFails

LEMMA WorkShape ==
    ASSUME Types, RowsInv, NEW m \in Ids, Work(m) \/ WorkFails(m)
    PROVE  RowsInv' /\ Quiet
<1> USE DEF Types
<1>1. Fewer /\ gen' = gen
  <2>1. CASE Work(m)
    BY <2>1, MoveFewer, AckFewer, GiveUpFewer
       DEF Work, Install, Skip, Lease, ClaimStep, ClaimRefused, TakeoverFails, LanelessGivesUp,
           Prepare, Save, Superseded, Complete, Discard, Discarded, job
  <2>2. CASE WorkFails(m)
    BY <2>2, MoveFewer, AckFewer, GiveUpFewer, RequeueFewer
       DEF WorkFails, NoSlot, LaneGone, WorkCancelled, Raises, Die, TimeOut, Revoke, job, Running
  <2> QED
    BY <2>1, <2>2
<1>2. UNCHANGED outbox \/ MarkDelivered
  BY DEF Work, Install, Skip, Lease, ClaimStep, ClaimRefused, TakeoverFails, LanelessGivesUp,
         Prepare, Save, Superseded, Complete, Discard, Discarded,
         WorkFails, NoSlot, LaneGone, WorkCancelled, Raises, Die, TimeOut, Revoke
<1>3. RowsInv' /\ Spent
  BY <1>2, OutboxSame, DeliveredSpent DEF Spent
<1> QED
  BY <1>1, <1>3 DEF Quiet

LEMMA Shape ==
    ASSUME Types, RowsInv, "duplicate" \notin faults, [Next]_vars
    PROVE  RowsInv' /\ (Quiet \/ Minted \/ Sent)
<1> USE DEF Types
<1>0. ASSUME UNCHANGED <<place, mine, gen>> PROVE gen' = gen /\ Fewer
  BY <1>0 DEF Fewer
<1>1. ASSUME UNCHANGED <<place, mine, gen, outbox>> PROVE RowsInv' /\ Quiet
  BY <1>0, <1>1, OutboxSame DEF Quiet, Spent
<1>2. ASSUME NEW f, Mint, Enqueue(f, gen + 1), UNCHANGED <<place, mine>> PROVE RowsInv' /\ Minted
  BY <1>2, Enqueued DEF Mint, Minted
<1>3. CASE User
  <2>1. CASE ForceSummarize \/ SummarizeCommits \/ RetryCommits
    BY <1>2, <2>1 DEF ForceSummarize, SummarizeCommits, Begin, RetryCommits, broker
  <2>2. CASE SummarizeChecks \/ SummarizeRefused \/ RetryRefused \/ CancelChecks \/ RetryLoads \/ CancelCommits
    BY <1>1, <2>2 DEF SummarizeChecks, SummarizeRefused, RetryRefused, CancelChecks, RetryLoads,
                      CancelCommits, job, broker
  <2> QED
    BY <1>3, <2>1, <2>2 DEF User
<1>4. CASE Reap
  <2>1. RowsInv' /\ \E r \in RowIds : Tickets' = [Tickets EXCEPT ![r] = 0]
    BY <1>4, Enqueued DEF Reap
  <2>2. Spent
    BY <2>1 DEF Spent, Tickets
  <2> QED
    BY <1>0, <1>4, <2>1, <2>2 DEF Reap, Quiet, broker
<1>5. CASE ConversionEnds \/ UNCHANGED vars
  BY <1>1, <1>5 DEF ConversionEnds, vars, job, broker
<1> QED
  BY <1>3, <1>4, <1>5, PublishShape, WorkShape DEF Next

---------------------------------------------------------------------------------
(* The status, the step and the documents *)

\* Nothing works before the first request.
Asked ==
    summ = "none" =>
        /\ made = 0 /\ step # "running"
        /\ \A m \in Ids : place[m] = "free"
        /\ ~cancelling /\ retrying \in {None, "none"}

\* A document that was just stored is there until it is superseded.
Kept == \A m \in Ids : place[m] = "saved" /\ mine[m] = gen => docs[gen] > 0

\* A published summary has its step, a document no delivery or row can reach, and
\* no delivery of its generation under way.
Settled ==
    summ = "completed" =>
        /\ step = "completed"
        /\ \A m \in Ids : place[m] \in Running => mine[m] # gen
        /\ \E g \in 1..gen :
              /\ docs[g] > 0
              /\ \A m \in Ids : place[m] # "free" => mine[m] # g
              /\ \A r \in RowIds : Tickets[r] # g

LEMMA AskedStep ==
    ASSUME Types, RowsInv, Asked, [Next]_vars
    PROVE  Asked'
<1> SUFFICES ASSUME summ' = "none" PROVE Asked'
  BY DEF Asked
<1> USE DEF Asked
<1>1. CASE User
  BY <1>1 DEF User, ForceSummarize, SummarizeCommits, Begin, RetryCommits,
              SummarizeChecks, SummarizeRefused, RetryRefused, CancelChecks, RetryLoads, CancelCommits,
              job, stepRow, outbox, broker
<1>2. CASE Reap
  BY <1>2 DEF Reap, Overdue
<1>3. CASE ConversionEnds
  BY <1>3 DEF ConversionEnds, outbox, broker, requests
<1>4. ASSUME NEW r \in RowIds, Publish(r) \/ PublishFails(r) PROVE Asked'
  <2>1. summ = "none" /\ r > made
    BY <1>4, SummarizeAssumption
       DEF Publish, PublishFails, DropRow, ClaimRow, SendRow, SendRefused, PublisherDies,
           PublisherDiesLate, ReclaimRow, job, RowIds
  <2>2. rows[r].state = "delivered" /\ sending[r] = 0
    BY <2>1 DEF RowsInv
  <2> QED
    BY <1>4, <2>2
       DEF Publish, PublishFails, DropRow, ClaimRow, SendRow, SendRefused, PublisherDies,
           PublisherDiesLate, ReclaimRow
<1>5. ASSUME NEW m \in Ids, Work(m) PROVE Asked'
  <2>1. summ = "none" /\ place[m] = "free"
    BY <1>5
       DEF Work, Install, Skip, Lease, ClaimStep, ClaimRefused, TakeoverFails, LanelessGivesUp, GiveUp,
           Prepare, Save, Superseded, Complete, Discard, Discarded, FailOwned, job
  <2> QED
    BY <1>5, <2>1
       DEF Work, Install, Skip, Lease, ClaimStep, ClaimRefused, TakeoverFails, LanelessGivesUp,
           Prepare, Save, Superseded, Complete, Discard, Discarded, Move
<1>6. ASSUME NEW m \in Ids, WorkFails(m) PROVE Asked'
  <2>1. summ = "none" /\ place[m] = "free"
    BY <1>6
       DEF WorkFails, NoSlot, LaneGone, WorkCancelled, Raises, Die, TimeOut, Revoke, GiveUp, FailOwned, job
  <2>2. Revoke(m)
    BY <1>6, <2>1 DEF WorkFails, NoSlot, LaneGone, WorkCancelled, Raises, Die, TimeOut, Move, Running
  <2>3. Fewer
    BY <2>2, AckFewer DEF Revoke, Types
  <2>4. made' = made /\ step' = step /\ UNCHANGED requests
    BY <2>2 DEF Revoke, outbox, Abandon
  <2> QED
    BY <2>1, <2>3, <2>4 DEF Fewer, requests
<1>7. CASE UNCHANGED vars
  BY <1>7 DEF vars, job, stepRow, outbox, broker, requests
<1> QED
  BY <1>1, <1>2, <1>3, <1>4, <1>5, <1>6, <1>7 DEF Next

\* What a step does to the documents.
LEMMA DocsStep ==
    ASSUME Types, [Next]_vars
    PROVE  \/ docs' = docs
           \/ \E m \in Ids : Prepare(m) \/ Save(m) \/ Discard(m)
BY DEF Next, User, ForceSummarize, SummarizeCommits, Begin, RetryCommits,
       SummarizeChecks, SummarizeRefused, RetryRefused, CancelChecks, RetryLoads, CancelCommits,
       Reap, ConversionEnds, Publish, PublishFails, DropRow, ClaimRow, SendRow, SendRefused,
       PublisherDies, PublisherDiesLate, ReclaimRow,
       Work, Install, Skip, Lease, ClaimStep, ClaimRefused, TakeoverFails, LanelessGivesUp,
       Superseded, Complete, Discarded,
       WorkFails, NoSlot, LaneGone, WorkCancelled, Raises, Die, TimeOut, Revoke, vars

\* What a step does to the place of a delivery that has stored its document.
LEMMA SavedStep ==
    ASSUME Types, [Next]_vars, NEW m \in Ids, place'[m] = "saved"
    PROVE  place[m] = "saved" \/ Save(m)
<1> USE DEF Types
<1>0. ASSUME NEW n \in Ids, Ack(n) PROVE place[m] = "saved"
  BY <1>0 DEF Ack, BrokerTypes
<1>1. ASSUME NEW n \in Ids, NEW k, Requeue(n, k) PROVE place[m] = "saved"
  BY <1>1 DEF Requeue, BrokerTypes
<1>2. ASSUME NEW n \in Ids, NEW from, NEW to, to # "saved", Move(n, from, to) PROVE place[m] = "saved"
  BY <1>2 DEF Move, BrokerTypes
<1>3. ASSUME NEW f, NEW g, Delay(f, g) PROVE place[m] = "saved"
  BY <1>3 DEF Delay, BrokerTypes
<1>4. ASSUME place' = place PROVE place[m] = "saved"
  BY <1>4
<1>5. CASE User \/ Reap \/ ConversionEnds \/ UNCHANGED vars
  BY <1>4, <1>5 DEF User, ForceSummarize, SummarizeCommits, Begin, RetryCommits,
       SummarizeChecks, SummarizeRefused, RetryRefused, CancelChecks, RetryLoads, CancelCommits,
       Reap, ConversionEnds, broker, vars
<1>6. ASSUME NEW r \in RowIds, Publish(r) \/ PublishFails(r) PROVE place[m] = "saved"
  BY <1>3, <1>4, <1>6 DEF Publish, PublishFails, DropRow, ClaimRow, SendRow, SendRefused,
       PublisherDies, PublisherDiesLate, ReclaimRow, broker
<1>7. ASSUME NEW n \in Ids, Work(n) PROVE place[m] = "saved" \/ Save(m)
  <2>1. CASE Save(n)
    BY <2>1 DEF Save, Move, BrokerTypes
  <2>2. CASE TakeoverFails(n) \/ LanelessGivesUp(n)
    BY <1>0, <1>1, <2>2 DEF TakeoverFails, LanelessGivesUp, GiveUp
  <2> QED
    BY <1>0, <1>2, <1>7, <2>1, <2>2
       DEF Work, Install, Skip, Lease, ClaimStep, ClaimRefused,
           Prepare, Superseded, Complete, Discard, Discarded
<1>8. ASSUME NEW n \in Ids, WorkFails(n) PROVE place[m] = "saved"
  BY <1>0, <1>1, <1>2, <1>8
     DEF WorkFails, NoSlot, GiveUp, LaneGone, WorkCancelled, Raises, Die, TimeOut, Revoke
<1> QED
  BY <1>5, <1>6, <1>7, <1>8 DEF Next

LEMMA KeptStep ==
    ASSUME Types, Unique, Kept, Quiet \/ Minted \/ Sent, [Next]_vars
    PROVE  Kept'
<1> SUFFICES ASSUME NEW m \in Ids, place'[m] = "saved", mine'[m] = gen' PROVE docs'[gen'] > 0
  BY DEF Kept
<1>1. gen \in Gens /\ gen \in Nat /\ docs \in [Gens -> Nat] /\ mine \in [Ids -> Gens]
      /\ DOMAIN place = Ids
  BY SummarizeAssumption DEF Types, JobTypes, BrokerTypes, Gens
<1>2. CASE Save(m)
  BY <1>1, <1>2 DEF Save, Move, job
<1>3. CASE place[m] = "saved"
  <2>1. mine'[m] = mine[m]
    BY <1>1, <1>3 DEF Quiet, Fewer, Minted, Sent
  <2>2. mine[m] <= gen
    BY <1>3 DEF Unique
  <2>3. gen' = gen
    BY <1>1, <2>1, <2>2 DEF Quiet, Minted, Sent
  <2>4. docs[gen] > 0
    BY <1>3, <2>1, <2>3 DEF Kept
  <2>5. ASSUME NEW n \in Ids, n # m, place[n] # "free" PROVE mine[n] # gen
    BY <1>3, <2>1, <2>3, <2>5 DEF Unique
  <2>6. CASE docs' = docs
    BY <2>3, <2>4, <2>6
  <2>7. ASSUME NEW n \in Ids, Prepare(n) PROVE FALSE
    BY <1>3, <2>5, <2>7 DEF Prepare, Move, Newest
  <2>8. ASSUME NEW n \in Ids, Save(n) PROVE docs'[gen] > 0
    <3>1. docs' = [docs EXCEPT ![mine[n]] = @ + 1] /\ mine[n] \in Gens
      BY <1>1, <2>8 DEF Save
    <3>2. docs[gen] + 1 > 0
      BY <1>1, <2>4
    <3> QED
      BY <1>1, <2>4, <3>1, <3>2
  <2>9. ASSUME NEW n \in Ids, Discard(n) PROVE docs'[gen] > 0
    <3>1. n # m /\ place[n] # "free"
      BY <1>1, <2>9 DEF Discard, Move
    <3> QED
      BY <1>1, <2>4, <2>5, <2>9, <3>1 DEF Discard
  <2> QED
    BY <2>3, <2>6, <2>7, <2>8, <2>9, DocsStep
<1> QED
  BY <1>2, <1>3, SavedStep

\* The only step to "completed" is that of a delivery that is still wanted.
LEMMA CompletedStep ==
    ASSUME [Next]_vars, summ' = "completed", summ # "completed"
    PROVE  \E m \in Ids : Complete(m)
BY DEF Next, User, ForceSummarize, SummarizeCommits, Begin, RetryCommits,
       SummarizeChecks, SummarizeRefused, RetryRefused, CancelChecks, RetryLoads, CancelCommits,
       Reap, ConversionEnds, Publish, PublishFails, DropRow, ClaimRow, SendRow, SendRefused,
       PublisherDies, PublisherDiesLate, ReclaimRow,
       Work, Install, Skip, Lease, ClaimStep, ClaimRefused, TakeoverFails, LanelessGivesUp,
       Prepare, Save, Superseded, Discard, Discarded, GiveUp, FailOwned,
       WorkFails, NoSlot, LaneGone, WorkCancelled, Raises, Die, TimeOut, Revoke, vars, job

\* Once a summary is published its step stays done ...
LEMMA StepStays ==
    ASSUME Types, Settled, summ = "completed", summ' = "completed", [Next]_vars
    PROVE  step' = "completed"
<1> USE DEF Types
<1>0. step = "completed" /\ \A m \in Ids : place[m] \in Running => mine[m] # gen
  BY DEF Settled
<1>1. CASE User \/ Reap \/ ConversionEnds \/ UNCHANGED vars
  BY <1>0, <1>1 DEF User, ForceSummarize, SummarizeCommits, Begin, RetryCommits,
       SummarizeChecks, SummarizeRefused, RetryRefused, CancelChecks, RetryLoads, CancelCommits,
       Reap, Overdue, ConversionEnds, vars, stepRow
<1>2. ASSUME NEW r \in RowIds, Publish(r) \/ PublishFails(r) PROVE step' = "completed"
  BY <1>0, <1>2 DEF Publish, PublishFails, DropRow, ClaimRow, SendRow, SendRefused,
       PublisherDies, PublisherDiesLate, ReclaimRow, stepRow
<1>3. ASSUME NEW m \in Ids, GiveUp(m) PROVE step' = "completed"
  BY <1>0, <1>3 DEF GiveUp, FailOwned, ReleaseClaim, Owns, Abandon, stepRow
<1>4. ASSUME NEW m \in Ids, Work(m) PROVE step' = "completed"
  <2>1. CASE ClaimStep(m)
    BY <1>0, <2>1 DEF ClaimStep, Move, Newest, Running
  <2> QED
    BY <1>0, <1>3, <1>4, <2>1
       DEF Work, Install, Skip, Lease, ClaimRefused, TakeoverFails, LanelessGivesUp,
           Prepare, Save, Superseded, Complete, Discard, Discarded, ReleaseClaim, Owns, job, stepRow
<1>5. ASSUME NEW m \in Ids, WorkFails(m) PROVE step' = "completed"
  BY <1>0, <1>3, <1>5
     DEF WorkFails, NoSlot, LaneGone, WorkCancelled, Raises, Die, TimeOut, Revoke,
         FailOwned, ReleaseClaim, Owns, Abandon, stepRow
<1> QED
  BY <1>1, <1>2, <1>3, <1>4, <1>5 DEF Next

\* ... and no delivery starts.
LEMMA NoneStarts ==
    ASSUME Types, summ = "completed", [Next]_vars, NEW m \in Ids, place'[m] \in Running
    PROVE  place[m] \in Running
<1> USE DEF Types
<1>0. /\ "free" \notin Running /\ "queued" \notin Running
      /\ {"installed", "leased", "claimed", "generating", "saved"} \subseteq Running
  BY DEF Running
<1>1. ASSUME NEW n \in Ids, Ack(n) PROVE place[m] \in Running
  BY <1>0, <1>1 DEF Ack, BrokerTypes
<1>2. ASSUME NEW n \in Ids, NEW k, Requeue(n, k) PROVE place[m] \in Running
  BY <1>0, <1>2 DEF Requeue, BrokerTypes
<1>3. ASSUME NEW n \in Ids, NEW from \in Running, NEW to, Move(n, from, to) PROVE place[m] \in Running
  BY <1>3 DEF Move, BrokerTypes
<1>4. ASSUME NEW f, NEW g, Delay(f, g) PROVE place[m] \in Running
  BY <1>0, <1>4 DEF Delay, BrokerTypes
<1>5. CASE User \/ Reap \/ ConversionEnds \/ UNCHANGED vars
  BY <1>5 DEF User, ForceSummarize, SummarizeCommits, Begin, RetryCommits,
       SummarizeChecks, SummarizeRefused, RetryRefused, CancelChecks, RetryLoads, CancelCommits,
       Reap, ConversionEnds, broker, vars
<1>6. ASSUME NEW r \in RowIds, Publish(r) \/ PublishFails(r) PROVE place[m] \in Running
  BY <1>4, <1>6 DEF Publish, PublishFails, DropRow, ClaimRow, SendRow, SendRefused,
       PublisherDies, PublisherDiesLate, ReclaimRow, broker
<1>7. ASSUME NEW n \in Ids, GiveUp(n) PROVE place[m] \in Running
  BY <1>1, <1>2, <1>7 DEF GiveUp
<1>8. ASSUME NEW n \in Ids, Work(n) PROVE place[m] \in Running
  BY <1>0, <1>1, <1>3, <1>7, <1>8
     DEF Work, Install, Installable, Skip, Lease, ClaimStep, ClaimRefused, TakeoverFails,
         LanelessGivesUp, Prepare, Save, Superseded, Complete, Discard, Discarded
<1>9. ASSUME NEW n \in Ids, WorkFails(n) PROVE place[m] \in Running
  BY <1>0, <1>1, <1>2, <1>3, <1>7, <1>9
     DEF WorkFails, NoSlot, LaneGone, WorkCancelled, Raises, Die, TimeOut, Revoke
<1> QED
  BY <1>5, <1>6, <1>8, <1>9 DEF Next

LEMMA SettledStep ==
    ASSUME Types, Unique, Kept, Settled, Quiet \/ Minted \/ Sent, [Next]_vars
    PROVE  Settled'
<1> SUFFICES ASSUME summ' = "completed" PROVE Settled'
  BY DEF Settled
<1>1. gen \in Gens /\ gen \in Nat /\ docs \in [Gens -> Nat] /\ mine \in [Ids -> Nat]
      /\ DOMAIN place = Ids /\ Tickets \in [RowIds -> Nat] /\ mine \in [Ids -> Gens]
  BY TicketTypes, SummarizeAssumption DEF Types, JobTypes, BrokerTypes, Gens
<1>2. CASE summ # "completed"
  <2> PICK m \in Ids : Complete(m)
    BY <1>2, CompletedStep
  <2>1. /\ place[m] = "saved" /\ mine[m] = gen /\ Ack(m)
        /\ UNCHANGED <<gen, docs, outbox>>
        /\ step' = "completed"
    BY DEF Complete, Wanted, Newest
  <2>2. docs'[gen] > 0 /\ gen \in 1..gen
    BY <1>1, <2>1 DEF Kept, Unique
  <2>3. \A n \in Ids : place'[n] # "free" => n # m /\ place[n] # "free" /\ mine'[n] = mine[n]
    BY <1>1, <2>1 DEF Ack
  <2>4. \A n \in Ids : place'[n] # "free" => mine'[n] # gen
    BY <2>1, <2>3 DEF Unique
  <2>5. \A r \in RowIds : Tickets'[r] # gen
    BY <2>1 DEF outbox, Tickets, Unique
  <2>6. "free" \notin Running
    BY DEF Running
  <2> QED
    BY <2>1, <2>2, <2>4, <2>5, <2>6 DEF Settled
<1>3. CASE summ = "completed"
  <2>1. step' = "completed"
    BY <1>3, StepStays
  <2>2. "free" \notin Running /\ \A m \in Ids : place'[m] \in Running => place[m] \in Running
    BY <1>3, NoneStarts DEF Running
  <2>3. gen' \in {gen, gen + 1}
        /\ \A m \in Ids : place[m] # "free" /\ place'[m] # "free" => mine'[m] = mine[m]
    BY <1>1 DEF Quiet, Fewer, Minted, Sent
  <2>4. \A m \in Ids : place'[m] \in Running => mine'[m] # gen'
    <3> SUFFICES ASSUME NEW m \in Ids, place'[m] \in Running PROVE mine'[m] # gen'
      OBVIOUS
    <3>1. mine'[m] = mine[m] /\ mine[m] # gen /\ mine[m] <= gen
      BY <1>3, <2>2, <2>3 DEF Settled, Unique
    <3> QED
      BY <1>1, <2>3, <3>1
  <2>5. PICK g \in 1..gen : /\ docs[g] > 0
                            /\ \A m \in Ids : place[m] # "free" => mine[m] # g
                            /\ \A r \in RowIds : Tickets[r] # g
    BY <1>3 DEF Settled
  <2>6. g \in Gens /\ g \in 1..gen' /\ g # gen + 1 /\ g # 0
    BY <1>1, <2>3, SummarizeAssumption DEF Gens
  <2>7. docs'[g] > 0
    <3>1. ASSUME NEW m \in Ids, Prepare(m) \/ Save(m) PROVE FALSE
      BY <1>3, <3>1 DEF Prepare, Save, Move, Newest, Settled, Running
    <3>2. ASSUME NEW m \in Ids, Discard(m) PROVE docs'[g] > 0
      <4>1. mine[m] # g
        BY <2>5, <3>2 DEF Discard, Move
      <4> QED
        BY <1>1, <2>5, <2>6, <3>2, <4>1 DEF Discard
    <3> QED
      BY <2>5, <3>1, <3>2, DocsStep
  <2>8. \A m \in Ids : place'[m] # "free" => mine'[m] # g
    BY <1>1, <2>5 DEF Quiet, Fewer, Minted, Sent
  <2>9. \A r \in RowIds : Tickets'[r] # g
    BY <1>1, <2>5, <2>6 DEF Quiet, Spent, Minted, Sent
  <2> QED
    BY <2>1, <2>4, <2>6, <2>7, <2>8, <2>9 DEF Settled
<1> QED
  BY <1>2, <1>3

---------------------------------------------------------------------------------
(* The invariant and what follows from it *)

\* No world in which a publisher dies between .delay and marking its row.
NoRepeats == \A s \in Scenarios : "duplicate" \notin s.faults

IInv == RowsInv /\ Unique /\ Asked /\ Kept /\ Settled /\ "duplicate" \notin faults

LEMMA FaultsFixed == [Next]_vars => faults' = faults
BY DEF Next, User, ForceSummarize, SummarizeCommits, RetryCommits,
       SummarizeChecks, SummarizeRefused, RetryRefused, CancelChecks, RetryLoads, CancelCommits,
       Reap, ConversionEnds, Publish, PublishFails, DropRow, ClaimRow, SendRow, SendRefused,
       PublisherDies, PublisherDiesLate, ReclaimRow,
       Work, Install, Skip, Lease, ClaimStep, ClaimRefused, TakeoverFails, LanelessGivesUp,
       Prepare, Save, Superseded, Complete, Discard, Discarded,
       WorkFails, NoSlot, LaneGone, WorkCancelled, Raises, Die, TimeOut, Revoke, requests, vars

\* The parts of the invariant hold together in every reachable state: no
\* generation is carried twice, what is stored and published belongs together.
THEOREM Invariance == NoRepeats => (Spec => [](Types /\ IInv))
<1> SUFFICES ASSUME NoRepeats PROVE Spec => [](Types /\ IInv)
  OBVIOUS
<1>1. Init => IInv
  <2> SUFFICES ASSUME Init PROVE IInv
    OBVIOUS
  <2>1. "duplicate" \notin faults
    BY DEF Init, NoRepeats
  <2>2. gen = 0 /\ \A r \in RowIds : rows[r].state = "delivered" /\ sending[r] = 0
    BY DEF Init, NoRow
  <2>3. \A r \in RowIds : Tickets[r] = 0
    BY <2>2 DEF Tickets
  <2>4. /\ \A m \in Ids : place[m] = "free"
        /\ summ = "none" /\ made = 0 /\ step = "pending" /\ ~cancelling /\ retrying = None
    BY DEF Init
  <2>5. RowsInv /\ Unique
    BY <2>2, <2>3, <2>4 DEF RowsInv, Unique
  <2>6. Asked /\ Kept /\ Settled
    BY <2>4 DEF Asked, Kept, Settled
  <2> QED
    BY <2>1, <2>5, <2>6 DEF IInv
<1>2. Types /\ IInv /\ [Next]_vars => IInv'
  <2> SUFFICES ASSUME Types, IInv, [Next]_vars PROVE IInv'
    OBVIOUS
  <2>1. RowsInv' /\ (Quiet \/ Minted \/ Sent)
    BY Shape DEF IInv
  <2> QED
    BY <2>1, UniqueStep, AskedStep, KeptStep, SettledStep, FaultsFixed DEF IInv
<1>3. Spec => []Types
  BY TypesStay
<1> QED
  BY <1>1, <1>2, <1>3, PTL DEF Spec

\* A summary that is published has its step and its document, until a request
\* opens the summarization again.
THEOREM PublishedTogether == NoRepeats => (Spec => []PublishedWithStep)
<1> SUFFICES ASSUME NoRepeats PROVE Spec => []PublishedWithStep
  OBVIOUS
<1>1. Types /\ IInv => PublishedWithStep
  BY SummarizeAssumption DEF Types, JobTypes, IInv, Settled, PublishedWithStep, NoDocs, Gens
<1> QED
  BY <1>1, Invariance, PTL

\* No delivery, row, redelivery or reaper brings back a summarization that was
\* cancelled or has failed; only a user's retry does, under a new generation.
THEOREM CancelledStays == Spec => CancelStands
<1> DEFINE Renewed == (summ = "failed" /\ summ' # "failed") => (retrying # None /\ gen' = gen + 1)
<1>1. [Next]_vars => [Renewed]_vars
  BY DEF Next, User, ForceSummarize, SummarizeCommits, Begin, RetryCommits, Mint,
       SummarizeChecks, SummarizeRefused, RetryRefused, CancelChecks, RetryLoads, CancelCommits,
       Reap, ConversionEnds, Publish, PublishFails, DropRow, ClaimRow, SendRow, SendRefused,
       PublisherDies, PublisherDiesLate, ReclaimRow,
       Work, Install, Installable, Skip, Lease, ClaimStep, ClaimRefused, TakeoverFails,
       LanelessGivesUp, Prepare, Save, Superseded, Complete, Wanted, Discard, Discarded,
       GiveUp, FailOwned,
       WorkFails, NoSlot, LaneGone, WorkCancelled, Raises, Die, TimeOut, Revoke, job
<1> QED
  BY <1>1, PTL DEF Spec, CancelStands

---------------------------------------------------------------------------------
(* The register of the newest request *)

LEMMA StoredSame == docs' = docs => Stored' = Stored
BY DEF Stored

LEMMA RegisterStep ==
    ASSUME Types, IInv, [Next]_vars
    PROVE  [Register!Next]_(Register!vars)
<1>1. gen \in Gens /\ docs \in [Gens -> Nat] /\ mine \in [Ids -> Gens]
  BY SummarizeAssumption DEF Types, JobTypes, BrokerTypes
<1>2. ASSUME UNCHANGED <<gen, summ, docs>> PROVE UNCHANGED Register!vars
  BY <1>2, StoredSame DEF Register!vars
<1>3. ASSUME UNCHANGED <<gen, docs>>, summ # "none", summ' \in {summ, "failed"}
      PROVE  [Register!Next]_(Register!vars)
  <2>1. Stored' = Stored
    BY <1>3, StoredSame
  <2>2. CASE summ' = summ
    BY <1>2, <1>3, <2>2
  <2>3. CASE summ' = "failed"
    BY <1>3, <2>1, <2>3 DEF Register!Next, Register!Fail
  <2> QED
    BY <1>3, <2>2, <2>3
<1>4. ASSUME gen' = gen + 1, docs' = docs, summ' \in {summ, "processing"}
      PROVE  Register!Next
  <2>1. Stored' = Stored
    BY <1>4, StoredSame
  <2> QED
    BY <1>4, <2>1 DEF Register!Next, Register!Request, Register!Renumber
<1>5. \A m \in Ids : place[m] # "free" => summ # "none"
  BY DEF IInv, Asked
<1>6. CASE User
  <2>1. CASE ForceSummarize \/ SummarizeCommits \/ RetryCommits
    BY <1>4, <2>1 DEF ForceSummarize, SummarizeCommits, Begin, RetryCommits, Mint
  <2>2. CASE SummarizeChecks \/ SummarizeRefused \/ RetryRefused \/ CancelChecks \/ RetryLoads
    BY <1>2, <2>2 DEF SummarizeChecks, SummarizeRefused, RetryRefused, CancelChecks, RetryLoads, job
  <2>3. CASE CancelCommits
    BY <1>3, <2>3 DEF CancelCommits, IInv, Asked
  <2> QED
    BY <1>6, <2>1, <2>2, <2>3 DEF User
<1>7. CASE Reap \/ ConversionEnds \/ UNCHANGED vars
  BY <1>2, <1>7 DEF Reap, ConversionEnds, vars, job
<1>8. ASSUME NEW r \in RowIds, Publish(r) \/ PublishFails(r) PROVE [Register!Next]_(Register!vars)
  <2>1. CASE ClaimRow(r)
    BY <1>2, <1>4, <2>1 DEF ClaimRow, Mint
  <2> QED
    BY <1>2, <1>8, <2>1 DEF Publish, PublishFails, DropRow, SendRow, SendRefused,
       PublisherDies, PublisherDiesLate, ReclaimRow, job
<1>9. ASSUME NEW m \in Ids, GiveUp(m), place[m] # "free", UNCHANGED <<gen, docs>>
      PROVE  [Register!Next]_(Register!vars)
  BY <1>3, <1>5, <1>9 DEF GiveUp, FailOwned
<1>10. ASSUME NEW m \in Ids, Work(m) PROVE [Register!Next]_(Register!vars)
  <2>1. CASE Install(m)
    BY <1>2, <2>1 DEF Install, Installable
  <2>2. CASE TakeoverFails(m) \/ LanelessGivesUp(m)
    BY <1>9, <2>2 DEF TakeoverFails, LanelessGivesUp
  <2>3. CASE Prepare(m)
    <3>1. summ # "completed" /\ UNCHANGED <<gen, summ>>
      BY <2>3 DEF Prepare, Move, Newest, IInv, Settled, Running, job
    <3>2. Stored' \subseteq Stored
      BY <1>1, <2>3 DEF Prepare, Stored
    <3> QED
      BY <3>1, <3>2 DEF Register!Next, Register!Remove
  <2>4. CASE Save(m)
    <3>1. summ # "none" /\ UNCHANGED <<gen, summ>>
      BY <1>5, <2>4 DEF Save, Move, job
    <3>2. docs' = [docs EXCEPT ![gen] = docs[gen] + 1] /\ docs[gen] + 1 > 0
      BY <1>1, <2>4 DEF Save, Newest
    <3>3. Stored' = Stored \cup {gen}
      BY <1>1, <3>2 DEF Stored
    <3> QED
      BY <3>1, <3>3 DEF Register!Next, Register!Store
  <2>5. CASE Complete(m)
    <3>1. /\ place[m] = "saved" /\ mine[m] = gen /\ summ = "processing"
          /\ summ' = "completed" /\ UNCHANGED <<gen, docs>>
      BY <2>5 DEF Complete, Wanted, Newest
    <3>2. gen \in Stored /\ Stored' = Stored
      BY <1>1, <3>1, StoredSame DEF Stored, IInv, Kept
    <3> QED
      BY <3>1, <3>2 DEF Register!Next, Register!Complete
  <2>6. CASE Discard(m)
    <3>1. /\ UNCHANGED <<gen, summ>> /\ place[m] = "saved"
          /\ docs' = [docs EXCEPT ![mine[m]] = IF docs[mine[m]] > 0 THEN docs[mine[m]] - 1 ELSE 0]
      BY <2>6 DEF Discard, Move, job
    <3>2. \A g \in Gens : docs'[g] > 0 => docs[g] > 0
      BY <1>1, <3>1
    <3>3. Stored' \subseteq Stored
      BY <3>2 DEF Stored
    <3>4. summ = "completed" => mine[m] # gen
      BY <3>1 DEF IInv, Settled, Running
    <3>5. mine[m] # gen => docs'[gen] = docs[gen]
      BY <1>1, <3>1
    <3>6. summ = "completed" => (gen \in Stored => gen \in Stored')
      BY <1>1, <3>1, <3>4, <3>5 DEF Stored
    <3> QED
      BY <3>1, <3>3, <3>6 DEF Register!Next, Register!Remove
  <2> QED
    BY <1>2, <1>10, <2>1, <2>2, <2>3, <2>4, <2>5, <2>6
       DEF Work, Skip, Lease, ClaimStep, ClaimRefused, Superseded, Discarded, job
<1>11. ASSUME NEW m \in Ids, WorkFails(m) PROVE [Register!Next]_(Register!vars)
  <2>1. CASE NoSlot(m)
    BY <1>9, <2>1 DEF NoSlot
  <2>2. CASE WorkCancelled(m) \/ Raises(m)
    <3>1. place[m] # "free" /\ UNCHANGED <<gen, docs>> /\ summ' \in {summ, "failed"}
      BY <2>2 DEF WorkCancelled, Raises, FailOwned
    <3> QED
      BY <1>3, <1>5, <3>1
  <2> QED
    BY <1>2, <1>11, <2>1, <2>2 DEF WorkFails, LaneGone, Die, TimeOut, Revoke, job
<1> QED
  BY <1>6, <1>7, <1>8, <1>10, <1>11 DEF Next

\* The newest request decides: whatever is late, lost, revoked or reaped, only a
\* delivery of the newest generation stores or completes anything.
THEOREM NewestWins == NoRepeats => (Spec => ImplementsLatestWins)
<1> SUFFICES ASSUME NoRepeats PROVE Spec => ImplementsLatestWins
  OBVIOUS
<1>1. Init => Register!Init
  BY DEF Init, Register!Init, Stored
<1>2. Types /\ IInv /\ [Next]_vars => [Register!Next]_(Register!vars)
  BY RegisterStep
<1> QED
  BY <1>1, <1>2, Invariance, PTL DEF Spec, ImplementsLatestWins, Register!Spec
=================================================================================
