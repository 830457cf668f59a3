------------------------ MODULE DeliveryQueueProofs ------------------------
(***************************************************************************)
(* Proofs about DeliveryQueue, for every number of rows and workers, every *)
(* lease, schedule and limit.                                              *)
(***************************************************************************)
EXTENDS DeliveryQueue, FiniteSetTheorems, TLAPS

\* Row ids are natural numbers, so Nil is none of them and NoJob is no job.
LEMMA EventsNat == Events \subseteq Nat /\ Nil \notin Events /\ Nil \notin Nat
BY EventsAssumption DEF Events, Nil

LEMMA NoJobIsNoJob == NoJob \notin Jobs
BY EventsNat DEF NoJob, Jobs

LEMMA NoStateIsNoState == NoState \notin DeliveryState
BY DEF NoState, DeliveryState

\* Every entry of a batch is a time and the id of a row of the table.
LEMMA DueTyped ==
  ASSUME TypeOK, NEW p \in Processors
  PROVE  dueEventIDs(p) \subseteq Time \X Events
<1>1. Table(p) \subseteq Events
  BY DEF Table, Events
<1> QED
  BY <1>1 DEF dueEventIDs, TypeOK

\* The schedule always gives a next attempt (retryPlan.next).
LEMMA PlanNextNat ==
  ASSUME now \in Nat, NEW n \in Nat
  PROVE  PlanNext(n) \in Nat
<1> DEFINE i == MinOf(MaxOf(n - 1, 0), Len(RetryDelays) - 1) + 1
<1>1. Len(RetryDelays) \in Nat /\ Len(RetryDelays) > 0
  BY QueueAssumption
<1>2. i \in 1 .. Len(RetryDelays)
  BY <1>1 DEF MinOf, MaxOf
<1>3. RetryDelays[i] \in Nat
  BY <1>2, QueueAssumption
<1> QED
  BY <1>3, QueueAssumption DEF PlanNext

LEMMA PlanLimitNat == PlanLimit \in Nat /\ PlanLimit >= 1
BY QueueAssumption DEF PlanLimit

\* What deliver may decide after having read the counter n.
Decisions(n) ==
  {d \in DeliveryState :
     \/ d.status = "failed" /\ d.next = Nil /\ d.attempts \in {Nil, n + 1}
     \/ d.status = "delivered" /\ d.next = Nil /\ d.attempts = n + 1
     \/ d.status = "retrying" /\ d.next # Nil /\ d.attempts = n + 1 /\ n + 1 < PlanLimit}

LEMMA DecisionsOf ==
  ASSUME now \in Nat, NEW n \in Nat
  PROVE  /\ finalState \in Decisions(n)
         /\ deliveredState(n) \in Decisions(n)
         /\ retryState(n) \in Decisions(n)
<1>1. Nil \in Time /\ n + 1 \in Time /\ n + 1 \in Nat
  BY DEF Time
<1>2. finalState \in Decisions(n)
  BY <1>1 DEF finalState, Decisions, DeliveryState
<1>3. deliveredState(n) \in Decisions(n)
  BY <1>1 DEF deliveredState, Decisions, DeliveryState
<1>4. retryState(n) \in Decisions(n)
  <2>1. CASE n + 1 >= PlanLimit
    BY <2>1, <1>1 DEF retryState, Decisions, DeliveryState
  <2>2. CASE ~(n + 1 >= PlanLimit)
    <3>1. PlanNext(n + 1) \in Nat
      BY <1>1, PlanNextNat
    <3>2. PlanNext(n + 1) \in Time /\ PlanNext(n + 1) # Nil
      BY <3>1, EventsNat DEF Time
    <3> QED
      BY <2>2, <3>2, <1>1, PlanLimitNat DEF retryState, Decisions, DeliveryState
  <2> QED
    BY <2>1, <2>2
<1> QED
  BY <1>2, <1>3, <1>4

(***************************************************************************)
(* Type correctness.                                                       *)
(***************************************************************************)
LEMMA InitTypeOK == Init => TypeOK
<1>1. NoJob.state = NoState
  BY DEF NoJob
<1> QED
  BY <1>1 DEF Init, TypeOK, Status, Time, Processors, Holding

\* A runner that ends its batch has no job and holds no claim.
LEMMA EndBatchTypeOK ==
  ASSUME TypeOK, NEW w \in Workers,
         pc' = [pc EXCEPT ![w] = "ready"],
         proc' \in [Workers -> Processors],
         batch' = [batch EXCEPT ![w] = {}],
         job' = [job EXCEPT ![w] = NoJob],
         unrecorded' \in [Events -> Nat],
         acked' \in [Events -> Nat],
         faults' \in Nat,
         UNCHANGED <<rows, now, requeues>>
  PROVE  TypeOK'
<1>1. NoJob.state = NoState
  BY DEF NoJob
<1> QED
  BY <1>1 DEF TypeOK, Holding, rows

LEMMA DropResultTyped ==
  ASSUME TypeOK, NEW w \in Workers, DropResult(w)
  PROVE  unrecorded' \in [Events -> Nat]
<1>1. CASE job[w].state.status = "delivered"
  <2>1. job[w].state # NoState
    BY <1>1 DEF NoState
  <2>2. job[w] # NoJob
    BY <2>1 DEF NoJob
  <2>3. job[w].event \in Events
    BY <2>2 DEF TypeOK, Jobs
  <2> QED
    BY <2>3, <1>1 DEF DropResult, TypeOK
<1>2. CASE job[w].state.status # "delivered"
  BY <1>2 DEF DropResult, TypeOK
<1> QED
  BY <1>1, <1>2

LEMMA EndBatchProc ==
  ASSUME TypeOK, NEW w \in Workers, EndBatch(w)
  PROVE  proc' \in [Workers -> Processors]
BY DEF TypeOK, EndBatch, Processors

\* What deliver decides keeps the types, whatever it is.
LEMMA DecideTypeOK ==
  ASSUME TypeOK, NEW w \in Workers, NEW s \in DeliveryState, Decide(w, s),
         acked' \in [Events -> Nat]
  PROVE  TypeOK'
<1>1. job[w] \in Jobs /\ Holding(w)
  BY DEF TypeOK, Decide, Holding
<1>2. [job[w] EXCEPT !.state = s] \in Jobs
  BY <1>1 DEF Jobs
<1>3. job' = [job EXCEPT ![w] = [job[w] EXCEPT !.state = s]]
  BY DEF Decide
<1>4. job'[w].state = s /\ s # NoState
  BY <1>1, <1>3, NoStateIsNoState DEF TypeOK, Jobs
<1>5. job'[w] # NoJob
  BY <1>2, <1>3, NoJobIsNoJob DEF TypeOK
<1>6. job' \in [Workers -> Jobs \cup {NoJob}]
  BY <1>2, <1>3 DEF TypeOK
<1>7. \A v \in Workers : v # w => job'[v] = job[v]
  BY <1>3 DEF TypeOK
<1> QED
  BY <1>4, <1>5, <1>6, <1>7 DEF TypeOK, Decide, Holding, rows, bounds

LEMMA NextTypeOK ==
  ASSUME TypeOK, [Next]_vars
  PROVE  TypeOK'
<1> USE DEF rows, runner, ghosts, bounds
<1>1. ASSUME NEW w \in Workers, StartBatch(w)
      PROVE  TypeOK'
  <2>1. proc[w] \in Processors
    BY DEF TypeOK
  <2>2. dueEventIDs(proc[w]) \subseteq Time \X Events
    BY <2>1, DueTyped
  <2> QED
    BY <1>1, <2>2 DEF StartBatch, TypeOK, Holding
<1>2. ASSUME NEW w \in Workers, FinishBatch(w)
      PROVE  TypeOK'
  <2>1. proc' \in [Workers -> Processors]
    BY <1>2, EndBatchProc DEF FinishBatch
  <2> QED
    BY <1>2, <2>1, EndBatchTypeOK DEF FinishBatch, EndBatch, TypeOK
<1>3. ASSUME NEW w \in Workers, claimEvent(w)
      PROVE  TypeOK'
  <2>1. PICK k \in batch[w] :
          /\ status' = [status EXCEPT ![k[2]] = "delivering"]
          /\ nextAt' = [nextAt EXCEPT ![k[2]] = now + Lease]
          /\ batch' = [batch EXCEPT ![w] = @ \ {k}]
          /\ job' = [job EXCEPT ![w] = [NoJob EXCEPT !.event = k[2], !.lease = now + Lease]]
    BY <1>3 DEF claimEvent
  <2>2. k[2] \in Events
    BY DEF TypeOK
  <2>3. now + Lease \in Nat
    BY QueueAssumption DEF TypeOK
  <2> DEFINE j == [NoJob EXCEPT !.event = k[2], !.lease = now + Lease]
  <2>4. j \in Jobs /\ j.state = NoState
    BY <2>2, <2>3 DEF NoJob, Jobs
  <2>5. j # NoJob
    BY <2>4, NoJobIsNoJob
  <2>6. job' = [job EXCEPT ![w] = j]
    BY <2>1
  <2> HIDE DEF j
  <2>7. /\ job' \in [Workers -> Jobs \cup {NoJob}]
        /\ job'[w] = j
        /\ \A v \in Workers : v # w => job'[v] = job[v]
    BY <2>4, <2>6 DEF TypeOK
  <2>8. status' \in [Events -> Status] /\ nextAt' \in [Events -> Time]
    BY <2>1, <2>2, <2>3 DEF TypeOK, Status, Queued, Time
  <2>9. batch' \in [Workers -> SUBSET (Time \X Events)]
    BY <2>1 DEF TypeOK
  <2> QED
    BY <1>3, <2>4, <2>5, <2>7, <2>8, <2>9 DEF claimEvent, TypeOK, Holding
<1>4. ASSUME NEW w \in Workers, SkipEvent(w)
      PROVE  TypeOK'
  <2>1. PICK k \in batch[w] : batch' = [batch EXCEPT ![w] = @ \ {k}]
    BY <1>4 DEF SkipEvent
  <2>2. batch' \in [Workers -> SUBSET (Time \X Events)]
    BY <2>1 DEF TypeOK
  <2> QED
    BY <1>4, <2>2 DEF SkipEvent, TypeOK, Holding
<1>5. ASSUME NEW w \in Workers, LoadEvent(w)
      PROVE  TypeOK'
  <2>1. job[w] \in Jobs /\ job[w].state = NoState
    BY <1>5 DEF TypeOK, LoadEvent, Holding
  <2>2. job[w].event \in Events /\ attempts[job[w].event] \in Nat
    BY <2>1 DEF TypeOK, Jobs
  <2> DEFINE j == [job[w] EXCEPT !.seen = attempts[job[w].event]]
  <2>3. j \in Jobs /\ j.state = NoState
    BY <2>1, <2>2 DEF Jobs
  <2>4. j # NoJob
    BY <2>3, NoJobIsNoJob
  <2>5. job' = [job EXCEPT ![w] = j]
    BY <1>5 DEF LoadEvent
  <2> HIDE DEF j
  <2>6. /\ job' \in [Workers -> Jobs \cup {NoJob}]
        /\ job'[w] = j
        /\ \A v \in Workers : v # w => job'[v] = job[v]
    BY <2>3, <2>5 DEF TypeOK
  <2> QED
    BY <1>5, <2>3, <2>4, <2>6 DEF LoadEvent, TypeOK, Holding
<1>6. ASSUME NEW w \in Workers, LoadMissing(w)
      PROVE  TypeOK'
  <2>1. proc' \in [Workers -> Processors]
    BY <1>6, EndBatchProc DEF LoadMissing
  <2> QED
    BY <1>6, <2>1, EndBatchTypeOK DEF LoadMissing, EndBatch, TypeOK
<1>7. ASSUME NEW w \in Workers, Deliver(w)
      PROVE  TypeOK'
  <2>1. /\ pc[w] = "loaded"
        /\ \E s \in {finalState, deliveredState(job[w].seen), retryState(job[w].seen)} :
             Decide(w, s)
        /\ acked' = acked \/ acked' = [acked EXCEPT ![job[w].event] = @ + 1]
    BY <1>7 DEF Deliver, RefuseWebhook, PostWebhook, PostWebhookFails,
                RefuseEmail, SendEmail, SendEmailFails, Decide
  <2>2. job[w] \in Jobs
    BY <2>1 DEF TypeOK, Holding
  <2>3. job[w].seen \in Nat /\ job[w].event \in Events
    BY <2>2 DEF Jobs
  <2>4. {finalState, deliveredState(job[w].seen), retryState(job[w].seen)} \subseteq DeliveryState
    BY <2>3, DecisionsOf DEF Decisions, TypeOK
  <2>5. acked' \in [Events -> Nat]
    BY <2>1, <2>3 DEF TypeOK
  <2> QED
    BY <2>1, <2>4, <2>5, DecideTypeOK
<1>8. ASSUME NEW w \in Workers, saveClaimedState(w)
      PROVE  TypeOK'
  <2>1. job[w] \in Jobs /\ job[w].state # NoState
    BY <1>8 DEF saveClaimedState, TypeOK, Holding
  <2>2. job[w].event \in Events /\ job[w].state \in DeliveryState
    BY <2>1 DEF Jobs
  <2>3. /\ job[w].state.status \in Status
        /\ job[w].state.next \in Time
        /\ job[w].state.attempts \in Time
    BY <2>2 DEF DeliveryState, Status, Queued, Terminal
  <2>4. status' \in [Events -> Status] /\ nextAt' \in [Events -> Time]
    BY <1>8, <2>2, <2>3 DEF saveClaimedState, TypeOK
  <2>5. attempts' \in [Events -> Nat]
    BY <1>8, <2>2, <2>3 DEF saveClaimedState, TypeOK, Time
  <2>6. NoJob.state = NoState
    BY DEF NoJob
  <2> QED
    BY <1>8, <2>4, <2>5, <2>6 DEF saveClaimedState, TypeOK, Holding
<1>9. ASSUME NEW w \in Workers, ClaimLost(w)
      PROVE  TypeOK'
  <2>1. proc' \in [Workers -> Processors] /\ unrecorded' \in [Events -> Nat]
    BY <1>9, EndBatchProc, DropResultTyped DEF ClaimLost
  <2> QED
    BY <1>9, <2>1, EndBatchTypeOK DEF ClaimLost, EndBatch, TypeOK
<1>10. ASSUME NEW w \in Workers, DatabaseError(w)
       PROVE  TypeOK'
  <2>1. proc' \in [Workers -> Processors] /\ unrecorded' \in [Events -> Nat]
    BY <1>10, EndBatchProc, DropResultTyped DEF DatabaseError
  <2>2. faults' \in Nat
    BY <1>10 DEF DatabaseError, Fault, TypeOK
  <2> QED
    BY <1>10, <2>1, <2>2, EndBatchTypeOK DEF DatabaseError, EndBatch, Fault, TypeOK
<1>11. ASSUME NEW w \in Workers, Restart(w)
       PROVE  TypeOK'
  <2>1. proc' \in [Workers -> Processors] /\ unrecorded' \in [Events -> Nat]
    BY <1>11, DropResultTyped DEF Restart, TypeOK, Processors
  <2>2. faults' \in Nat
    BY <1>11 DEF Restart, Fault, TypeOK
  <2> QED
    BY <1>11, <2>1, <2>2, EndBatchTypeOK DEF Restart, Fault, TypeOK
<1>12. ASSUME NEW e \in Events, CreateEvent(e) \/ retryDeliveryEvent(e) \/ DeleteEvent(e)
       PROVE  TypeOK'
  BY <1>12 DEF CreateEvent, retryDeliveryEvent, DeleteEvent, TypeOK, Status, Queued, Time, Holding
<1>13. CASE Tick
  BY <1>13 DEF Tick, TypeOK, Holding
<1>14. CASE UNCHANGED vars
  BY <1>14 DEF vars, TypeOK, Holding
<1> QED
  BY <1>1, <1>2, <1>3, <1>4, <1>5, <1>6, <1>7, <1>8, <1>9, <1>10, <1>11, <1>12, <1>13, <1>14
  DEF Next, Work

\* Type correctness of the queue: a runner has a job exactly while it holds a
\* claim, and a decision exactly while it is about to save (ProcessBatch).
THEOREM QueueTypeOK == Spec => []TypeOK
BY InitTypeOK, NextTypeOK, PTL DEF Spec

(***************************************************************************)
(* Leases.  A claim is kept until it expires, and no two claims carry the  *)
(* lease of the same row.  The two need each other: a save takes the row   *)
(* from no other holder because only one holder owns the lease, and a new  *)
(* claim gets a lease nobody has because the old one has expired.          *)
(***************************************************************************)
LeaseInv == ClaimExclusive /\ LostOnlyByExpiry

\* Worker w enters no claim in this step.
KeepsClaims ==
  \A w \in Workers :
    Holding(w)' => /\ Holding(w)
                   /\ job'[w].event = job[w].event
                   /\ job'[w].lease = job[w].lease

\* The steps of a runner that leave the rows alone take no claim.
LEMMA RunnerKeepsClaims ==
  ASSUME TypeOK, NEW w \in Workers,
         \/ StartBatch(w) \/ FinishBatch(w) \/ SkipEvent(w)
         \/ LoadEvent(w) \/ LoadMissing(w) \/ Deliver(w)
         \/ ClaimLost(w) \/ DatabaseError(w) \/ Restart(w)
  PROVE  KeepsClaims /\ UNCHANGED <<status, attempts, nextAt, now>>
<1> USE DEF rows, runner, ghosts, bounds
<1>1. CASE StartBatch(w) \/ SkipEvent(w)
  BY <1>1 DEF StartBatch, SkipEvent, KeepsClaims, Holding, TypeOK
<1>2. CASE FinishBatch(w) \/ LoadMissing(w) \/ ClaimLost(w) \/ DatabaseError(w)
  BY <1>2 DEF FinishBatch, LoadMissing, ClaimLost, DatabaseError, EndBatch, KeepsClaims,
              Holding, TypeOK
<1>3. CASE Restart(w)
  BY <1>3 DEF Restart, KeepsClaims, Holding, TypeOK
<1>4. CASE LoadEvent(w)
  <2>1. job[w] \in Jobs
    BY <1>4 DEF TypeOK, LoadEvent, Holding
  <2>2. /\ job'[w].event = job[w].event
        /\ job'[w].lease = job[w].lease
        /\ \A v \in Workers : v # w => job'[v] = job[v]
    BY <1>4, <2>1 DEF LoadEvent, TypeOK, Jobs
  <2> QED
    BY <1>4, <2>2 DEF LoadEvent, KeepsClaims, Holding, TypeOK
<1>5. CASE Deliver(w)
  <2>1. PICK s : Decide(w, s)
    BY <1>5 DEF Deliver, RefuseWebhook, PostWebhook, PostWebhookFails,
                RefuseEmail, SendEmail, SendEmailFails
  <2>2. job[w] \in Jobs
    BY <2>1 DEF TypeOK, Decide, Holding
  <2>3. /\ job'[w].event = job[w].event
        /\ job'[w].lease = job[w].lease
        /\ \A v \in Workers : v # w => job'[v] = job[v]
    BY <2>1, <2>2 DEF Decide, TypeOK, Jobs
  <2> QED
    BY <2>1, <2>3 DEF Decide, KeepsClaims, Holding, TypeOK
<1> QED
  BY <1>1, <1>2, <1>3, <1>4, <1>5

LEMMA KeepsLeaseInv ==
  ASSUME TypeOK, TypeOK', LeaseInv, KeepsClaims, UNCHANGED <<status, nextAt>>,
         now' >= now
  PROVE  LeaseInv'
<1>1. \A w \in Workers : Holding(w)' => /\ OwnsLease(w)' <=> OwnsLease(w)
                                         /\ job'[w].lease = job[w].lease
                                         /\ job'[w].event = job[w].event
                                         /\ Holding(w)
  BY DEF KeepsClaims, OwnsLease
<1>2. \A w \in Workers : Holding(w) => job[w].lease \in Nat
  BY DEF TypeOK, Jobs
<1>3. ClaimExclusive'
  BY <1>1 DEF LeaseInv, ClaimExclusive
<1>4. LostOnlyByExpiry'
  <2> SUFFICES ASSUME NEW w \in Workers, Holding(w)'
               PROVE  \/ OwnsLease(w)'
                      \/ status'[job'[w].event] = "deleted"
                      \/ job'[w].lease <= now'
    BY DEF LostOnlyByExpiry
  <2>1. Holding(w) /\ job[w].lease \in Nat /\ now \in Nat /\ now' \in Nat
    BY <1>2 DEF TypeOK, KeepsClaims
  <2>2. \/ OwnsLease(w)
        \/ status[job[w].event] = "deleted"
        \/ job[w].lease <= now
    BY <2>1 DEF LeaseInv, LostOnlyByExpiry
  <2>3. job'[w].event = job[w].event /\ job'[w].lease = job[w].lease
    BY DEF KeepsClaims
  <2> QED
    BY <2>1, <2>2, <2>3 DEF OwnsLease
<1> QED
  BY <1>3, <1>4 DEF LeaseInv

\* What the operator and the requests do to a row takes it from nobody whose
\* lease still runs.
LEMMA RowStepLeaseInv ==
  ASSUME TypeOK, LeaseInv, NEW e \in Events, UNCHANGED <<now, pc, job>>,
         status[e] # "delivering" \/ status'[e] = "deleted",
         status'[e] # "delivering",
         status[e] # "deleted",
         \A d \in Events : d # e => status'[d] = status[d] /\ nextAt'[d] = nextAt[d]
  PROVE  LeaseInv'
<1>1. \A w \in Workers : Holding(w) => job[w].event \in Events
  BY DEF TypeOK, Jobs
<1>2. \A w \in Workers : Holding(w)' <=> Holding(w)
  BY DEF Holding
<1>3. \A w \in Workers : Holding(w) /\ OwnsLease(w)' => OwnsLease(w)
  BY <1>1 DEF OwnsLease
<1>4. ClaimExclusive'
  BY <1>2, <1>3 DEF LeaseInv, ClaimExclusive
<1>5. LostOnlyByExpiry'
  <2> SUFFICES ASSUME NEW w \in Workers, Holding(w)
               PROVE  \/ OwnsLease(w)'
                      \/ status'[job[w].event] = "deleted"
                      \/ job[w].lease <= now
    BY <1>2 DEF LostOnlyByExpiry
  <2>1. \/ OwnsLease(w)
        \/ status[job[w].event] = "deleted"
        \/ job[w].lease <= now
    BY DEF LeaseInv, LostOnlyByExpiry
  <2>2. CASE job[w].event # e
    BY <1>1, <2>1, <2>2 DEF OwnsLease
  <2>3. CASE job[w].event = e
    BY <2>1, <2>3 DEF OwnsLease
  <2> QED
    BY <2>2, <2>3
<1> QED
  BY <1>4, <1>5 DEF LeaseInv

\* What a claim does to the other holders of its row.
LEMMA ClaimFacts ==
  ASSUME TypeOK, LeaseInv, NEW w \in Workers, claimEvent(w)
  PROVE  \E e \in Events :
           /\ Due(e)
           /\ status' = [status EXCEPT ![e] = "delivering"]
           /\ nextAt' = [nextAt EXCEPT ![e] = now + Lease]
           /\ job'[w].event = e /\ job'[w].lease = now + Lease
           /\ job'[w].state = NoState
           /\ pc'[w] = "claimed"
           /\ UNCHANGED <<attempts, now, acked>>
           /\ \A v \in Workers \ {w} :
                /\ job'[v] = job[v] /\ pc'[v] = pc[v]
                /\ Holding(v) /\ job[v].event = e => job[v].lease <= now
<1>1. PICK k \in batch[w] :
        /\ Due(k[2])
        /\ status' = [status EXCEPT ![k[2]] = "delivering"]
        /\ nextAt' = [nextAt EXCEPT ![k[2]] = now + Lease]
        /\ job' = [job EXCEPT ![w] = [NoJob EXCEPT !.event = k[2], !.lease = now + Lease]]
  BY DEF claimEvent
<1> DEFINE e == k[2]
<1>2. e \in Events
  BY DEF TypeOK
<1>3. job'[w].event = e /\ job'[w].lease = now + Lease /\ job'[w].state = NoState
  BY <1>1 DEF NoJob, TypeOK
<1>4. \A v \in Workers \ {w} : job'[v] = job[v] /\ pc'[v] = pc[v]
  BY <1>1 DEF TypeOK, claimEvent
<1>5. \A v \in Workers : Holding(v) /\ job[v].event = e => job[v].lease <= now
  BY <1>1 DEF Due, Queued, LeaseInv, LostOnlyByExpiry, OwnsLease
<1>6. pc'[w] = "claimed" /\ UNCHANGED <<attempts, now, acked>>
  BY DEF claimEvent, ghosts, TypeOK
<1> WITNESS e \in Events
<1> QED
  BY <1>1, <1>2, <1>3, <1>4, <1>5, <1>6

LEMMA NextLeaseInv ==
  ASSUME TypeOK, TypeOK', LeaseInv, [Next]_vars
  PROVE  LeaseInv'
<1> USE DEF rows, runner, ghosts, bounds
<1>1. ASSUME NEW w \in Workers,
             \/ StartBatch(w) \/ FinishBatch(w) \/ SkipEvent(w)
             \/ LoadEvent(w) \/ LoadMissing(w) \/ Deliver(w)
             \/ ClaimLost(w) \/ DatabaseError(w) \/ Restart(w)
      PROVE  LeaseInv'
  BY <1>1, RunnerKeepsClaims, KeepsLeaseInv DEF TypeOK
<1>2. ASSUME NEW w \in Workers, claimEvent(w)
      PROVE  LeaseInv'
  <2>1. PICK e \in Events :
           /\ Due(e)
           /\ status' = [status EXCEPT ![e] = "delivering"]
           /\ nextAt' = [nextAt EXCEPT ![e] = now + Lease]
           /\ job'[w].event = e /\ job'[w].lease = now + Lease
           /\ now' = now
           /\ \A v \in Workers \ {w} :
                /\ job'[v] = job[v] /\ pc'[v] = pc[v]
                /\ Holding(v) /\ job[v].event = e => job[v].lease <= now
    BY <1>2, ClaimFacts
  <2>2. now \in Nat /\ Lease \in Nat /\ Lease > 0
    BY QueueAssumption DEF TypeOK
  <2>3. \A v \in Workers : Holding(v) => job[v].event \in Events /\ job[v].lease \in Nat
    BY DEF TypeOK, Jobs
  <2>4. OwnsLease(w)'
    BY <2>1 DEF OwnsLease, TypeOK
  <2>5. \A v \in Workers \ {w} : Holding(v)' /\ job[v].event = e => ~OwnsLease(v)'
    BY <2>1, <2>2, <2>3 DEF OwnsLease, Holding, TypeOK
  <2>6. \A v \in Workers \ {w} :
          Holding(v)' /\ job[v].event # e =>
            /\ OwnsLease(v)' <=> OwnsLease(v)
            /\ status'[job[v].event] = status[job[v].event]
    BY <2>1, <2>3 DEF OwnsLease, Holding, TypeOK
  <2>7. \A v \in Workers \ {w} : Holding(v)' <=> Holding(v)
    BY <2>1 DEF Holding
  <2>8. ClaimExclusive'
    BY <2>1, <2>5, <2>6, <2>7 DEF LeaseInv, ClaimExclusive
  <2>9. LostOnlyByExpiry'
    <3> SUFFICES ASSUME NEW v \in Workers, Holding(v)'
                 PROVE  \/ OwnsLease(v)'
                        \/ status'[job'[v].event] = "deleted"
                        \/ job'[v].lease <= now'
      BY DEF LostOnlyByExpiry
    <3>1. CASE v = w
      BY <3>1, <2>4
    <3>2. CASE v # w /\ job[v].event = e
      BY <3>2, <2>1, <2>7
    <3>3. CASE v # w /\ job[v].event # e
      BY <3>3, <2>1, <2>6, <2>7 DEF LeaseInv, LostOnlyByExpiry
    <3> QED
      BY <3>1, <3>2, <3>3
  <2> QED
    BY <2>8, <2>9 DEF LeaseInv
<1>3. ASSUME NEW w \in Workers, saveClaimedState(w)
      PROVE  LeaseInv'
  <2> DEFINE e == job[w].event
  <2>1. Holding(w) /\ OwnsLease(w) /\ e \in Events /\ job[w].state \in DeliveryState
    BY <1>3 DEF saveClaimedState, TypeOK, Holding, Jobs
  <2>2. /\ ~Holding(w)'
        /\ now' = now
        /\ \A v \in Workers \ {w} : job'[v] = job[v] /\ pc'[v] = pc[v]
        /\ \A d \in Events : d # e => status'[d] = status[d] /\ nextAt'[d] = nextAt[d]
        /\ status'[e] # "delivering"
    BY <1>3, <2>1 DEF saveClaimedState, Holding, TypeOK, DeliveryState
  <2>3. \A v \in Workers : Holding(v) => job[v].event \in Events
    BY DEF TypeOK, Jobs
  <2>4. \A v \in Workers \ {w} :
          Holding(v) /\ job[v].event = e => job[v].lease <= now /\ ~OwnsLease(v)
    BY <2>1 DEF LeaseInv, ClaimExclusive, LostOnlyByExpiry, OwnsLease
  <2>5. \A v \in Workers \ {w} : Holding(v)' <=> Holding(v)
    BY <2>2 DEF Holding
  <2>6. \A v \in Workers \ {w} :
          Holding(v) /\ job[v].event # e =>
            /\ OwnsLease(v)' <=> OwnsLease(v)
            /\ status'[job[v].event] = status[job[v].event]
    BY <2>2, <2>3 DEF OwnsLease
  <2>7. \A v \in Workers \ {w} :
          Holding(v) /\ job[v].event = e => ~OwnsLease(v)'
    BY <2>2 DEF OwnsLease
  <2>8. ClaimExclusive'
    BY <2>2, <2>5, <2>6, <2>7 DEF LeaseInv, ClaimExclusive
  <2>9. LostOnlyByExpiry'
    <3> SUFFICES ASSUME NEW v \in Workers \ {w}, Holding(v)
                 PROVE  \/ OwnsLease(v)'
                        \/ status'[job[v].event] = "deleted"
                        \/ job[v].lease <= now
      BY <2>2, <2>5 DEF LostOnlyByExpiry
    <3>1. CASE job[v].event = e
      BY <3>1, <2>4
    <3>2. CASE job[v].event # e
      BY <3>2, <2>6 DEF LeaseInv, LostOnlyByExpiry
    <3> QED
      BY <3>1, <3>2
  <2> QED
    BY <2>8, <2>9 DEF LeaseInv
<1>4. ASSUME NEW e \in Events, CreateEvent(e) \/ retryDeliveryEvent(e) \/ DeleteEvent(e)
      PROVE  LeaseInv'
  BY <1>4, RowStepLeaseInv DEF CreateEvent, retryDeliveryEvent, DeleteEvent, TypeOK
<1>5. CASE Tick
  BY <1>5, KeepsLeaseInv DEF Tick, KeepsClaims, Holding, TypeOK
<1>6. CASE UNCHANGED vars
  BY <1>6, KeepsLeaseInv DEF vars, KeepsClaims, Holding, TypeOK
<1> QED
  BY <1>1, <1>2, <1>3, <1>4, <1>5, <1>6 DEF Next, Work

LEMMA InitLeaseInv == Init => LeaseInv
BY DEF Init, LeaseInv, ClaimExclusive, LostOnlyByExpiry, Holding

\* At most one worker can record a result for a row (saveClaimedState).
THEOREM QueueClaimExclusive == Spec => []ClaimExclusive
<1>1. LeaseInv => ClaimExclusive
  BY DEF LeaseInv
<1> QED
  BY <1>1, InitTypeOK, NextTypeOK, InitLeaseInv, NextLeaseInv, PTL DEF Spec

\* A worker loses its claim only to the clock or to a deletion, whatever other
\* workers, crashes, requests and the operator do.
THEOREM QueueLostOnlyByExpiry == Spec => []LostOnlyByExpiry
<1>1. LeaseInv => LostOnlyByExpiry
  BY DEF LeaseInv
<1> QED
  BY <1>1, InitTypeOK, NextTypeOK, InitLeaseInv, NextLeaseInv, PTL DEF Spec

(***************************************************************************)
(* Rows.  A save writes what was decided from the counter the worker read; *)
(* that it is still the counter of the row follows from the lease.         *)
(***************************************************************************)
Fresh ==
  \A w \in Workers :
    pc[w] \in {"loaded", "save"} /\ OwnsLease(w) => job[w].seen = attempts[job[w].event]

Decided ==
  \A w \in Workers : pc[w] = "save" => job[w].state \in Decisions(job[w].seen)

NewRows == \A e \in Events : status[e] = "absent" => attempts[e] = 0

RowsInv == RowsConsistent /\ NewRows /\ Fresh /\ Decided

\* A runner that neither loads nor decides anything in this step.
KeepsDecisions ==
  \A w \in Workers :
    pc'[w] \in {"loaded", "save"} => pc'[w] = pc[w] /\ job'[w] = job[w]

LEMMA RunnerKeepsDecisions ==
  ASSUME TypeOK, NEW w \in Workers,
         \/ StartBatch(w) \/ FinishBatch(w) \/ SkipEvent(w) \/ LoadMissing(w)
         \/ ClaimLost(w) \/ DatabaseError(w) \/ Restart(w)
  PROVE  KeepsDecisions /\ UNCHANGED <<status, attempts, nextAt, acked>>
<1> USE DEF rows, runner, ghosts, bounds
<1>1. CASE StartBatch(w) \/ SkipEvent(w)
  BY <1>1 DEF StartBatch, SkipEvent, KeepsDecisions, TypeOK
<1>2. CASE FinishBatch(w) \/ LoadMissing(w) \/ ClaimLost(w) \/ DatabaseError(w)
  BY <1>2 DEF FinishBatch, LoadMissing, ClaimLost, DatabaseError, EndBatch, KeepsDecisions, TypeOK
<1>3. CASE Restart(w)
  BY <1>3 DEF Restart, KeepsDecisions, TypeOK
<1> QED
  BY <1>1, <1>2, <1>3

LEMMA KeepsRowsInv ==
  ASSUME TypeOK, RowsInv, KeepsDecisions, UNCHANGED <<status, attempts, nextAt>>
  PROVE  RowsInv'
<1>1. RowsConsistent' /\ NewRows'
  BY DEF RowsInv, RowsConsistent, NewRows
<1>2. Fresh'
  BY DEF RowsInv, Fresh, KeepsDecisions, OwnsLease
<1>3. Decided'
  BY DEF RowsInv, Decided, KeepsDecisions, Decisions
<1> QED
  BY <1>1, <1>2, <1>3 DEF RowsInv

\* A step that changes one row which no worker owns afterwards.
LEMMA RowStepRowsInv ==
  ASSUME TypeOK, RowsInv, NEW e \in Events, KeepsDecisions,
         status'[e] # "delivering",
         \A d \in Events : d # e => /\ status'[d] = status[d]
                                    /\ nextAt'[d] = nextAt[d]
                                    /\ attempts'[d] = attempts[d],
         status'[e] # "absent",
         status'[e] \in Terminal => nextAt'[e] = Nil /\ attempts'[e] <= PlanLimit,
         status'[e] \in Queued => nextAt'[e] # Nil /\ attempts'[e] < PlanLimit,
         status'[e] \in {"delivered", "retrying"} => attempts'[e] >= 1
  PROVE  RowsInv'
<1>1. RowsConsistent'
  BY DEF RowsInv, RowsConsistent
<1>2. NewRows'
  BY DEF RowsInv, NewRows
<1>3. Fresh'
  <2> SUFFICES ASSUME NEW w \in Workers, pc'[w] \in {"loaded", "save"}, OwnsLease(w)'
               PROVE  job'[w].seen = attempts'[job'[w].event]
    BY DEF Fresh
  <2>1. job'[w] = job[w] /\ pc'[w] = pc[w] /\ pc[w] \in {"loaded", "save"}
    BY DEF KeepsDecisions
  <2>2. job[w].event \in Events
    BY <2>1 DEF TypeOK, Holding, Jobs
  <2>3. job[w].event # e
    BY <2>1 DEF OwnsLease
  <2>4. OwnsLease(w)
    BY <2>1, <2>2, <2>3 DEF OwnsLease
  <2> QED
    BY <2>1, <2>2, <2>3, <2>4 DEF RowsInv, Fresh
<1>4. Decided'
  BY DEF RowsInv, Decided, KeepsDecisions, Decisions
<1> QED
  BY <1>1, <1>2, <1>3, <1>4 DEF RowsInv

LEMMA NextRowsInv ==
  ASSUME TypeOK, TypeOK', LeaseInv, RowsInv, [Next]_vars
  PROVE  RowsInv'
<1> USE DEF rows, runner, ghosts, bounds
<1>1. ASSUME NEW w \in Workers,
             \/ StartBatch(w) \/ FinishBatch(w) \/ SkipEvent(w) \/ LoadMissing(w)
             \/ ClaimLost(w) \/ DatabaseError(w) \/ Restart(w)
      PROVE  RowsInv'
  BY <1>1, RunnerKeepsDecisions, KeepsRowsInv
<1>2. ASSUME NEW w \in Workers, LoadEvent(w)
      PROVE  RowsInv'
  <2>1. job[w] \in Jobs
    BY <1>2 DEF TypeOK, LoadEvent, Holding
  <2>2. /\ job'[w].event = job[w].event
        /\ job'[w].seen = attempts[job[w].event]
        /\ pc'[w] = "loaded"
        /\ \A v \in Workers : v # w => job'[v] = job[v] /\ pc'[v] = pc[v]
        /\ UNCHANGED <<status, attempts, nextAt>>
    BY <1>2, <2>1 DEF LoadEvent, TypeOK, Jobs
  <2>3. RowsConsistent' /\ NewRows'
    BY <2>2 DEF RowsInv, RowsConsistent, NewRows
  <2>4. Fresh'
    BY <2>2 DEF RowsInv, Fresh, OwnsLease
  <2>5. Decided'
    BY <2>2 DEF RowsInv, Decided, Decisions
  <2> QED
    BY <2>3, <2>4, <2>5 DEF RowsInv
<1>3. ASSUME NEW w \in Workers, Deliver(w)
      PROVE  RowsInv'
  <2>1. PICK s \in {finalState, deliveredState(job[w].seen), retryState(job[w].seen)} :
          Decide(w, s)
    BY <1>3 DEF Deliver, RefuseWebhook, PostWebhook, PostWebhookFails,
                RefuseEmail, SendEmail, SendEmailFails
  <2>2. job[w] \in Jobs /\ pc[w] = "loaded"
    BY <2>1 DEF TypeOK, Decide, Holding
  <2>3. s \in Decisions(job[w].seen)
    BY <2>1, <2>2, DecisionsOf DEF Jobs, TypeOK
  <2>4. /\ job'[w].event = job[w].event
        /\ job'[w].lease = job[w].lease
        /\ job'[w].seen = job[w].seen
        /\ job'[w].state = s
        /\ \A v \in Workers : v # w => job'[v] = job[v] /\ pc'[v] = pc[v]
        /\ UNCHANGED <<status, attempts, nextAt>>
    BY <2>1, <2>2 DEF Decide, TypeOK, Jobs
  <2>5. RowsConsistent' /\ NewRows'
    BY <2>4 DEF RowsInv, RowsConsistent, NewRows
  <2>6. Fresh'
    BY <2>2, <2>4 DEF RowsInv, Fresh, OwnsLease
  <2>7. Decided'
    <3> SUFFICES ASSUME NEW v \in Workers, pc'[v] = "save"
                 PROVE  job'[v].state \in Decisions(job'[v].seen)
      BY DEF Decided, Decisions
    <3>1. CASE v = w
      BY <3>1, <2>3, <2>4
    <3>2. CASE v # w
      BY <3>2, <2>4 DEF RowsInv, Decided
    <3> QED
      BY <3>1, <3>2
  <2> QED
    BY <2>5, <2>6, <2>7 DEF RowsInv
<1>4. ASSUME NEW w \in Workers, claimEvent(w)
      PROVE  RowsInv'
  <2>1. PICK e \in Events :
           /\ Due(e)
           /\ status' = [status EXCEPT ![e] = "delivering"]
           /\ nextAt' = [nextAt EXCEPT ![e] = now + Lease]
           /\ pc'[w] = "claimed"
           /\ attempts' = attempts
           /\ \A v \in Workers \ {w} :
                /\ job'[v] = job[v] /\ pc'[v] = pc[v]
                /\ Holding(v) /\ job[v].event = e => job[v].lease <= now
    BY <1>4, ClaimFacts
  <2>2. now \in Nat /\ Lease \in Nat /\ Lease > 0 /\ now + Lease # Nil
    BY QueueAssumption DEF TypeOK, Nil
  <2>3. RowsConsistent' /\ NewRows'
    BY <2>1, <2>2 DEF RowsInv, RowsConsistent, NewRows, Due, Queued, Terminal, TypeOK
  <2>4. Fresh'
    <3> SUFFICES ASSUME NEW v \in Workers, pc'[v] \in {"loaded", "save"}, OwnsLease(v)'
                 PROVE  job'[v].seen = attempts'[job'[v].event]
      BY DEF Fresh
    <3>1. v # w
      BY <2>1
    <3>2. job'[v] = job[v] /\ pc'[v] = pc[v] /\ Holding(v)
      BY <3>1, <2>1 DEF Holding
    <3>3. job[v].event \in Events /\ job[v].lease \in Nat
      BY <3>2 DEF TypeOK, Jobs
    <3>4. job[v].event # e
      <4> SUFFICES ASSUME job[v].event = e
                   PROVE  FALSE
        OBVIOUS
      <4>1. job[v].lease <= now
        BY <3>1, <3>2, <2>1
      <4>2. nextAt'[e] = now + Lease
        BY <2>1 DEF TypeOK
      <4> QED
        BY <3>2, <3>3, <4>1, <4>2, <2>2 DEF OwnsLease
    <3>5. OwnsLease(v)
      BY <3>2, <3>3, <3>4, <2>1 DEF OwnsLease, TypeOK
    <3> QED
      BY <3>2, <3>5, <2>1 DEF RowsInv, Fresh
  <2>5. Decided'
    BY <2>1 DEF RowsInv, Decided, Decisions
  <2> QED
    BY <2>3, <2>4, <2>5 DEF RowsInv
<1>5. ASSUME NEW w \in Workers, saveClaimedState(w)
      PROVE  RowsInv'
  <2> DEFINE e == job[w].event
             s == job[w].state
  <2>1. OwnsLease(w) /\ e \in Events /\ pc[w] = "save" /\ job[w].seen \in Nat
    BY <1>5 DEF saveClaimedState, TypeOK, Holding, Jobs
  <2>2. s \in Decisions(attempts[e])
    BY <2>1 DEF RowsInv, Decided, Fresh
  <2>3. attempts[e] \in Nat /\ attempts[e] < PlanLimit
    BY <2>1 DEF RowsInv, RowsConsistent, OwnsLease, Queued, TypeOK
  <2>4. /\ status'[e] = s.status /\ nextAt'[e] = s.next
        /\ attempts'[e] = IF s.attempts = Nil THEN attempts[e] ELSE s.attempts
        /\ \A d \in Events : d # e => /\ status'[d] = status[d]
                                       /\ nextAt'[d] = nextAt[d]
                                       /\ attempts'[d] = attempts[d]
    BY <1>5, <2>1 DEF saveClaimedState, TypeOK
  <2>5. KeepsDecisions
    BY <1>5 DEF saveClaimedState, KeepsDecisions, TypeOK
  <2>6. PlanLimit \in Nat
    BY PlanLimitNat
  <2>7. attempts[e] + 1 # Nil
    BY <2>3 DEF Nil
  <2>8. /\ status'[e] \notin {"delivering", "absent"}
        /\ status'[e] \in Terminal => nextAt'[e] = Nil /\ attempts'[e] <= PlanLimit
        /\ status'[e] \in Queued => nextAt'[e] # Nil /\ attempts'[e] < PlanLimit
        /\ status'[e] \in {"delivered", "retrying"} => attempts'[e] >= 1
    <3> HIDE DEF e, s
    <3>1. CASE s.status = "failed" /\ s.next = Nil /\ s.attempts \in {Nil, attempts[e] + 1}
      BY <3>1, <2>3, <2>4, <2>6, <2>7 DEF Terminal, Queued
    <3>2. CASE s.status = "delivered" /\ s.next = Nil /\ s.attempts = attempts[e] + 1
      BY <3>2, <2>3, <2>4, <2>6, <2>7 DEF Terminal, Queued
    <3>3. CASE /\ s.status = "retrying" /\ s.next # Nil
               /\ s.attempts = attempts[e] + 1 /\ attempts[e] + 1 < PlanLimit
      BY <3>3, <2>3, <2>4, <2>6, <2>7 DEF Terminal, Queued
    <3> QED
      BY <3>1, <3>2, <3>3, <2>2 DEF Decisions
  <2> HIDE DEF e, s
  <2> QED
    BY <2>1, <2>4, <2>5, <2>8, RowStepRowsInv
<1>6. ASSUME NEW e \in Events, CreateEvent(e) \/ retryDeliveryEvent(e) \/ DeleteEvent(e)
      PROVE  RowsInv'
  <2>1. KeepsDecisions
    BY <1>6 DEF CreateEvent, retryDeliveryEvent, DeleteEvent, KeepsDecisions
  <2>2. now # Nil
    BY DEF TypeOK, Nil
  <2>3. CASE CreateEvent(e)
    BY <2>1, <2>2, <2>3, RowStepRowsInv, PlanLimitNat
    DEF CreateEvent, RowsInv, NewRows, TypeOK, Queued, Terminal
  <2>4. CASE retryDeliveryEvent(e)
    BY <2>1, <2>2, <2>4, RowStepRowsInv, PlanLimitNat
    DEF retryDeliveryEvent, TypeOK, Queued, Terminal
  <2>5. CASE DeleteEvent(e)
    BY <2>1, <2>5, RowStepRowsInv DEF DeleteEvent, TypeOK, Queued, Terminal
  <2> QED
    BY <1>6, <2>3, <2>4, <2>5
<1>7. CASE Tick \/ UNCHANGED vars
  BY <1>7, KeepsRowsInv DEF Tick, vars, KeepsDecisions
<1> QED
  BY <1>1, <1>2, <1>3, <1>4, <1>5, <1>6, <1>7 DEF Next, Work

LEMMA InitRowsInv == Init => RowsInv
BY DEF Init, RowsInv, RowsConsistent, NewRows, Fresh, Decided, Terminal, Queued

\* The attempt counter never passes the limit, and rows keep the shape the due
\* query relies on, over every interleaving of runners, crashes, manual retries
\* and late results (retryState, saveClaimedState).
THEOREM QueueRowsConsistent == Spec => []RowsConsistent
<1>1. RowsInv => RowsConsistent
  BY DEF RowsInv
<1> QED
  BY <1>1, InitTypeOK, NextTypeOK, InitLeaseInv, NextLeaseInv, InitRowsInv, NextRowsInv, PTL DEF Spec

\* Types and the shape of the rows together, as the steps of the queue use them.
THEOREM QueueInv == Spec => []Inv
BY QueueTypeOK, QueueRowsConsistent, PTL DEF Inv

(***************************************************************************)
(* Settled rows.                                                           *)
(***************************************************************************)
LEMMA NextKeepsSettled ==
  ASSUME TypeOK, LeaseInv, [Next]_vars
  PROVE  KeepsSettled
<1> USE DEF rows, runner, ghosts, bounds
<1>1. ASSUME NEW w \in Workers,
             \/ StartBatch(w) \/ FinishBatch(w) \/ SkipEvent(w)
             \/ LoadEvent(w) \/ LoadMissing(w) \/ Deliver(w)
             \/ ClaimLost(w) \/ DatabaseError(w) \/ Restart(w)
      PROVE  KeepsSettled
  BY <1>1, RunnerKeepsClaims DEF KeepsSettled
<1>2. ASSUME NEW w \in Workers, claimEvent(w)
      PROVE  KeepsSettled
  <2>1. PICK d \in Events :
           /\ Due(d)
           /\ status' = [status EXCEPT ![d] = "delivering"]
           /\ nextAt' = [nextAt EXCEPT ![d] = now + Lease]
           /\ attempts' = attempts
    BY <1>2, ClaimFacts
  <2> QED
    BY <2>1 DEF KeepsSettled, Due, Queued, Terminal, TypeOK
<1>3. ASSUME NEW w \in Workers, saveClaimedState(w)
      PROVE  KeepsSettled
  BY <1>3 DEF saveClaimedState, OwnsLease, KeepsSettled, Terminal, TypeOK
<1>4. ASSUME NEW e \in Events, CreateEvent(e) \/ retryDeliveryEvent(e) \/ DeleteEvent(e)
      PROVE  KeepsSettled
  BY <1>4 DEF CreateEvent, retryDeliveryEvent, DeleteEvent, KeepsSettled, Terminal, TypeOK
<1>5. CASE Tick \/ UNCHANGED vars
  BY <1>5 DEF Tick, vars, KeepsSettled
<1> QED
  BY <1>1, <1>2, <1>3, <1>4, <1>5 DEF Next, Work

\* No worker touches a settled row, however late its result comes; only the
\* operator reopens one, only a failed one, and only with a fresh counter.
THEOREM QueueSettledIsStable == Spec => SettledIsStable
BY InitTypeOK, NextTypeOK, InitLeaseInv, NextLeaseInv, NextKeepsSettled, PTL
DEF Spec, SettledIsStable

(***************************************************************************)
(* The queue implements the ledger.  Recording a delivery needs an         *)
(* acknowledgement: every decision "delivered" was made after one.         *)
(***************************************************************************)
AckInv ==
  /\ \A w \in Workers : Holding(w) => status[job[w].event] # "absent"
  /\ \A w \in Workers : pc[w] = "save" /\ job[w].state.status = "delivered" =>
                           acked[job[w].event] > 0

LEMMA InitAckInv == Init => AckInv
BY DEF Init, AckInv, Holding

\* A send decides one of three states, and "delivered" only when acknowledged.
LEMMA DeliverFacts ==
  ASSUME TypeOK, NEW w \in Workers, Deliver(w)
  PROVE  /\ pc[w] = "loaded" /\ job[w] \in Jobs
         /\ pc' = [pc EXCEPT ![w] = "save"]
         /\ job'[w].event = job[w].event
         /\ \A v \in Workers : v # w => job'[v] = job[v]
         /\ UNCHANGED <<status, attempts, nextAt>>
         /\ \/ acked' = acked /\ job'[w].state.status # "delivered"
            \/ acked' = [acked EXCEPT ![job[w].event] = @ + 1]
<1>1. PICK s : /\ Decide(w, s)
               /\ \/ acked' = acked /\ s.status # "delivered"
                  \/ acked' = [acked EXCEPT ![job[w].event] = @ + 1]
  BY DEF Deliver, RefuseWebhook, PostWebhook, PostWebhookFails,
         RefuseEmail, SendEmail, SendEmailFails, finalState, retryState
<1>2. pc[w] = "loaded" /\ job[w] \in Jobs
  BY <1>1 DEF TypeOK, Decide, Holding
<1>3. /\ job'[w].event = job[w].event
      /\ job'[w].state = s
      /\ \A v \in Workers : v # w => job'[v] = job[v]
      /\ pc' = [pc EXCEPT ![w] = "save"]
      /\ UNCHANGED <<status, attempts, nextAt>>
  BY <1>1, <1>2 DEF Decide, TypeOK, Jobs, rows
<1> QED
  BY <1>1, <1>2, <1>3

LEMMA NextAckInv ==
  ASSUME TypeOK, TypeOK', LeaseInv, AckInv, [Next]_vars
  PROVE  AckInv'
<1> USE DEF rows, runner, ghosts, bounds
<1>0. \A w \in Workers : Holding(w) => job[w].event \in Events
  BY DEF TypeOK, Jobs
<1>1. ASSUME NEW w \in Workers,
             \/ StartBatch(w) \/ FinishBatch(w) \/ SkipEvent(w) \/ LoadMissing(w)
             \/ ClaimLost(w) \/ DatabaseError(w) \/ Restart(w)
      PROVE  AckInv'
  <2>1. KeepsClaims /\ KeepsDecisions /\ UNCHANGED <<status, acked>>
    BY <1>1, RunnerKeepsClaims, RunnerKeepsDecisions
  <2> QED
    BY <2>1 DEF AckInv, KeepsClaims, KeepsDecisions
<1>2. ASSUME NEW w \in Workers, LoadEvent(w)
      PROVE  AckInv'
  <2>1. KeepsClaims /\ UNCHANGED <<status, acked>>
    BY <1>2, RunnerKeepsClaims DEF LoadEvent
  <2>2. \A v \in Workers : pc'[v] = "save" => pc[v] = "save" /\ job'[v] = job[v]
    BY <1>2 DEF LoadEvent, TypeOK
  <2> QED
    BY <2>1, <2>2 DEF AckInv, KeepsClaims
<1>3. ASSUME NEW w \in Workers, Deliver(w)
      PROVE  AckInv'
  <2>1. KeepsClaims
    BY <1>3, RunnerKeepsClaims
  <2>2. /\ pc[w] = "loaded" /\ job[w] \in Jobs
        /\ pc' = [pc EXCEPT ![w] = "save"]
        /\ job'[w].event = job[w].event
        /\ \A v \in Workers : v # w => job'[v] = job[v]
        /\ UNCHANGED <<status, attempts, nextAt>>
        /\ \/ acked' = acked /\ job'[w].state.status # "delivered"
           \/ acked' = [acked EXCEPT ![job[w].event] = @ + 1]
    BY <1>3, DeliverFacts
  <2>3. job[w].event \in Events
    BY <2>2 DEF Jobs
  <2>4. ASSUME NEW v \in Workers, pc'[v] = "save", job'[v].state.status = "delivered"
        PROVE  acked'[job'[v].event] > 0
    <3>1. CASE v = w
      BY <3>1, <2>2, <2>3, <2>4 DEF TypeOK
    <3>2. CASE v # w
      <4>1. pc[v] = "save" /\ job'[v] = job[v]
        BY <3>2, <2>2, <2>4 DEF TypeOK
      <4>2. job[v].event \in Events /\ acked[job[v].event] > 0
        BY <4>1, <2>4, <1>0 DEF AckInv, Holding
      <4>3. acked \in [Events -> Nat]
        BY DEF TypeOK
      <4>4. acked'[job[v].event] >= acked[job[v].event]
        <5> HIDE DEF AckInv, TypeOK
        <5>1. CASE acked' = acked
          BY <5>1, <4>2, <4>3
        <5>2. CASE acked' = [acked EXCEPT ![job[w].event] = @ + 1]
          BY <5>2, <4>2, <4>3, <2>3
        <5> QED
          BY <5>1, <5>2, <2>2
      <4>5. acked'[job[v].event] \in Nat
        BY <4>2 DEF TypeOK
      <4> QED
        BY <4>1, <4>2, <4>3, <4>4, <4>5
    <3> QED
      BY <3>1, <3>2
  <2> QED
    BY <2>1, <2>2, <2>4 DEF AckInv, KeepsClaims
<1>4. ASSUME NEW w \in Workers, claimEvent(w)
      PROVE  AckInv'
  <2>1. PICK e \in Events :
           /\ Due(e)
           /\ status' = [status EXCEPT ![e] = "delivering"]
           /\ job'[w].event = e
           /\ pc'[w] = "claimed"
           /\ acked' = acked
           /\ \A v \in Workers \ {w} : job'[v] = job[v] /\ pc'[v] = pc[v]
    BY <1>4, ClaimFacts
  <2> QED
    BY <2>1, <1>0 DEF AckInv, Holding, TypeOK
<1>5. ASSUME NEW w \in Workers, saveClaimedState(w)
      PROVE  AckInv'
  <2>1. job[w].event \in Events /\ job[w].state \in DeliveryState
    BY <1>5 DEF saveClaimedState, TypeOK, Holding, Jobs
  <2>2. /\ status' = [status EXCEPT ![job[w].event] = job[w].state.status]
        /\ job[w].state.status # "absent"
        /\ acked' = acked
        /\ pc'[w] = "batch"
        /\ \A v \in Workers \ {w} : job'[v] = job[v] /\ pc'[v] = pc[v]
    BY <1>5, <2>1 DEF saveClaimedState, TypeOK, DeliveryState
  <2> QED
    BY <2>1, <2>2, <1>0 DEF AckInv, Holding, TypeOK
<1>6. ASSUME NEW e \in Events, CreateEvent(e) \/ retryDeliveryEvent(e) \/ DeleteEvent(e)
      PROVE  AckInv'
  BY <1>6, <1>0 DEF CreateEvent, retryDeliveryEvent, DeleteEvent, AckInv, Holding, TypeOK
<1>7. CASE Tick \/ UNCHANGED vars
  BY <1>7 DEF Tick, vars, AckInv, Holding
<1> QED
  BY <1>1, <1>2, <1>3, <1>4, <1>5, <1>6, <1>7 DEF Next, Work

LEMMA InitLedger == Init => Ledger!LedgerInit
<1> SUFFICES ASSUME Init
             PROVE  Ledger!LedgerInit
  OBVIOUS
<1>1. LedgerFate = [e \in Events |-> "none"]
  BY DEF Init, LedgerFate, FateOf, Terminal
<1>2. LedgerReceived = [e \in Events |-> FALSE]
  <2>1. \A e \in Events : (acked[e] > 0) = FALSE
    BY DEF Init
  <2> QED
    BY <2>1 DEF LedgerReceived
<1> QED
  BY <1>1, <1>2 DEF Ledger!LedgerInit

\* A step that changes one row and acknowledges nothing changes one entry.
LEMMA OneFate ==
  ASSUME TypeOK, NEW e \in Events, NEW s, status' = [status EXCEPT ![e] = s],
         acked' = acked
  PROVE  /\ LedgerFate' = [LedgerFate EXCEPT ![e] = FateOf(s)]
         /\ LedgerFate[e] = FateOf(status[e])
         /\ LedgerReceived' = LedgerReceived
<1>1. LedgerFate' = [LedgerFate EXCEPT ![e] = FateOf(s)]
  <2>1. \A d \in Events : status'[d] = IF d = e THEN s ELSE status[d]
    BY DEF TypeOK
  <2>2. LedgerFate' = [d \in Events |-> FateOf(status'[d])]
    BY DEF LedgerFate, FateOf
  <2>3. LedgerFate' = [d \in Events |-> IF d = e THEN FateOf(s) ELSE FateOf(status[d])]
    BY <2>1, <2>2
  <2> QED
    BY <2>3 DEF LedgerFate
<1>2. LedgerFate[e] = FateOf(status[e])
  BY DEF LedgerFate
<1>3. LedgerReceived' = LedgerReceived
  BY DEF LedgerReceived
<1> QED
  BY <1>1, <1>2, <1>3

\* Rows that stay queued are not seen to change.
LEMMA SameFate ==
  ASSUME TypeOK, NEW e \in Events, NEW s \in Queued, status[e] \in Queued,
         status' = [status EXCEPT ![e] = s], acked' = acked
  PROVE  UNCHANGED Ledger!ledger
<1>1. FateOf(s) = "queued" /\ FateOf(status[e]) = "queued"
  BY DEF FateOf, Queued, Terminal
<1>2. [LedgerFate EXCEPT ![e] = "queued"] = LedgerFate
  BY <1>1, OneFate DEF LedgerFate
<1> QED
  BY <1>1, <1>2, OneFate DEF Ledger!ledger

LEMMA NextLedger ==
  ASSUME TypeOK, LeaseInv, AckInv, [Next]_vars
  PROVE  [Ledger!LedgerNext]_(Ledger!ledger)
<1> USE DEF rows, runner, ghosts, bounds
<1>1. ASSUME NEW w \in Workers,
             \/ StartBatch(w) \/ FinishBatch(w) \/ SkipEvent(w)
             \/ LoadEvent(w) \/ LoadMissing(w)
             \/ ClaimLost(w) \/ DatabaseError(w) \/ Restart(w)
      PROVE  UNCHANGED Ledger!ledger
  <2>1. UNCHANGED <<status, acked>>
    BY <1>1, RunnerKeepsClaims DEF StartBatch, FinishBatch, SkipEvent, LoadEvent, LoadMissing,
                                   ClaimLost, DatabaseError, Restart
  <2> QED
    BY <2>1 DEF Ledger!ledger, LedgerFate, LedgerReceived, FateOf
<1>2. ASSUME NEW w \in Workers, Deliver(w)
      PROVE  [Ledger!LedgerNext]_(Ledger!ledger)
  <2> DEFINE e == job[w].event
  <2>1. /\ pc[w] = "loaded" /\ job[w] \in Jobs
        /\ status' = status
        /\ acked' = acked \/ acked' = [acked EXCEPT ![e] = @ + 1]
    BY <1>2, DeliverFacts
  <2>2. e \in Events /\ status[e] # "absent" /\ acked[e] \in Nat
    BY <2>1 DEF Jobs, AckInv, Holding, TypeOK
  <2>3. LedgerFate' = LedgerFate
    BY <2>1 DEF LedgerFate, FateOf
  <2>4. CASE acked' = acked
    BY <2>3, <2>4 DEF Ledger!ledger, LedgerReceived
  <2>5. CASE acked' = [acked EXCEPT ![e] = @ + 1]
    <3>1. \A d \in Events : acked'[d] = IF d = e THEN acked[d] + 1 ELSE acked[d]
      BY <2>5 DEF TypeOK
    <3>2. acked[e] + 1 > 0
      BY <2>2
    <3>3. LedgerReceived' = [d \in Events |-> IF d = e THEN TRUE ELSE acked[d] > 0]
      BY <3>1, <3>2, Zenon DEF LedgerReceived
    <3>4. LedgerReceived' = [LedgerReceived EXCEPT ![e] = TRUE]
      BY <3>3, Zenon DEF LedgerReceived
    <3>5. LedgerFate[e] # "none"
      BY <2>2 DEF LedgerFate, FateOf, Terminal
    <3>6. Ledger!Acknowledge(e)
      BY <2>3, <3>4, <3>5 DEF Ledger!Acknowledge
    <3> QED
      BY <3>6, <2>2 DEF Ledger!LedgerNext
  <2> QED
    BY <2>1, <2>4, <2>5
<1>3. ASSUME NEW w \in Workers, claimEvent(w)
      PROVE  UNCHANGED Ledger!ledger
  <2>1. PICK e \in Events :
           /\ Due(e)
           /\ status' = [status EXCEPT ![e] = "delivering"]
           /\ acked' = acked
    BY <1>3, ClaimFacts
  <2> QED
    BY <2>1, SameFate DEF Due, Queued
<1>4. ASSUME NEW w \in Workers, saveClaimedState(w)
      PROVE  [Ledger!LedgerNext]_(Ledger!ledger)
  <2> DEFINE e == job[w].event
             s == job[w].state.status
  <2>1. e \in Events /\ pc[w] = "save" /\ s \in {"delivered", "failed", "retrying"}
    BY <1>4 DEF saveClaimedState, TypeOK, Holding, Jobs, DeliveryState
  <2>2. status[e] = "delivering" /\ status' = [status EXCEPT ![e] = s] /\ acked' = acked
    BY <1>4 DEF saveClaimedState, OwnsLease
  <2>3. s = "delivered" => acked[e] > 0
    BY <2>1 DEF AckInv
  <2> HIDE DEF e, s
  <2>4. CASE s = "retrying"
    BY <2>1, <2>2, <2>4, SameFate DEF Queued
  <2>5. LedgerFate[e] = "queued"
    BY <2>1, <2>2 DEF LedgerFate, FateOf, Terminal
  <2>6. CASE s = "delivered"
    <3>1. FateOf(s) = "delivered"
      BY <2>6 DEF FateOf, Terminal
    <3>2. LedgerReceived[e]
      BY <2>1, <2>3, <2>6 DEF LedgerReceived
    <3>3. Ledger!RecordDelivered(e)
      BY <2>1, <2>2, <2>5, <3>1, <3>2, OneFate DEF Ledger!RecordDelivered, Ledger!Becomes
    <3> QED
      BY <3>3, <2>1 DEF Ledger!LedgerNext
  <2>7. CASE s = "failed"
    <3>1. FateOf(s) = "failed"
      BY <2>7 DEF FateOf, Terminal
    <3>2. Ledger!RecordFailed(e)
      BY <2>1, <2>2, <2>5, <3>1, OneFate DEF Ledger!RecordFailed, Ledger!Becomes
    <3> QED
      BY <3>2, <2>1 DEF Ledger!LedgerNext
  <2> QED
    BY <2>1, <2>4, <2>6, <2>7
<1>5. ASSUME NEW e \in Events, CreateEvent(e)
      PROVE  Ledger!LedgerNext
  <2>1. FateOf("pending") = "queued" /\ FateOf("absent") = "none"
    BY DEF FateOf, Terminal
  <2>2. status[e] = "absent" /\ status' = [status EXCEPT ![e] = "pending"] /\ acked' = acked
    BY <1>5 DEF CreateEvent
  <2>3. Ledger!Enqueue(e)
    BY <2>1, <2>2, OneFate DEF Ledger!Enqueue, Ledger!Becomes
  <2> QED
    BY <2>3 DEF Ledger!LedgerNext
<1>6. ASSUME NEW e \in Events, retryDeliveryEvent(e)
      PROVE  Ledger!LedgerNext
  <2>1. FateOf("pending") = "queued" /\ FateOf("failed") = "failed"
    BY DEF FateOf, Terminal
  <2>2. status[e] = "failed" /\ status' = [status EXCEPT ![e] = "pending"] /\ acked' = acked
    BY <1>6 DEF retryDeliveryEvent
  <2>3. Ledger!Reopen(e)
    BY <2>1, <2>2, OneFate DEF Ledger!Reopen, Ledger!Becomes
  <2> QED
    BY <2>3 DEF Ledger!LedgerNext
<1>7. ASSUME NEW e \in Events, DeleteEvent(e)
      PROVE  Ledger!LedgerNext
  <2>1. FateOf("deleted") = "gone"
    BY DEF FateOf, Terminal
  <2>2. /\ status[e] \in Queued \cup Terminal
        /\ status' = [status EXCEPT ![e] = "deleted"] /\ acked' = acked
    BY <1>7 DEF DeleteEvent, TypeOK, Status
  <2>3. FateOf(status[e]) \in {"queued", "delivered", "failed"}
    BY <2>2 DEF FateOf, Queued, Terminal
  <2>4. Ledger!Remove(e)
    BY <2>1, <2>2, <2>3, OneFate DEF Ledger!Remove, Ledger!Becomes
  <2> QED
    BY <2>4 DEF Ledger!LedgerNext
<1>8. CASE Tick \/ UNCHANGED vars
  BY <1>8 DEF Tick, vars, Ledger!ledger, LedgerFate, LedgerReceived, FateOf
<1> QED
  BY <1>1, <1>2, <1>3, <1>4, <1>5, <1>6, <1>7, <1>8 DEF Next, Work

\* The queue with its leases, crashes and retries implements the ledger: what
\* the administrator sees is queued until it is recorded, recorded as delivered
\* only after an acknowledgement, and never reopened once delivered.
THEOREM QueueImplementsLedger == Spec => ImplementsLedger
BY InitTypeOK, NextTypeOK, InitLeaseInv, NextLeaseInv, InitAckInv, NextAckInv,
   InitLedger, NextLedger, PTL DEF Spec, ImplementsLedger, Ledger!LedgerSpec

(***************************************************************************)
(* Acknowledgements.  The workers that have an acknowledgement in hand and *)
(* did not record it are counted; that they are finitely many is part of   *)
(* the invariant, so it need not be assumed of the workers.                *)
(***************************************************************************)
CountInv == AckAccounting /\ \A e \in Events : IsFiniteSet(AwaitingSave(e))

Has(w, e) == job[w].event = e /\ job[w].state.status = "delivered"
One(b) == IF b THEN 1 ELSE 0

\* What one worker has in hand is counted, and what others have stays.
LEMMA OneWorkerCounts ==
  ASSUME NEW w \in Workers, \A v \in Workers \ {w} : job'[v] = job[v], NEW e \in Events,
         IsFiniteSet(AwaitingSave(e))
  PROVE  /\ IsFiniteSet(AwaitingSave(e))'
         /\ Cardinality(AwaitingSave(e)) \in Nat /\ Cardinality(AwaitingSave(e))' \in Nat
         /\ Cardinality(AwaitingSave(e))' + One(Has(w, e)) =
              Cardinality(AwaitingSave(e)) + One(Has(w, e)')
<1> DEFINE A == AwaitingSave(e)
           B == AwaitingSave(e)'
           R == A \ {w}
<1>1. /\ A = IF Has(w, e) THEN R \cup {w} ELSE R
      /\ B = IF Has(w, e)' THEN R \cup {w} ELSE R
      /\ w \notin R
  BY DEF AwaitingSave, Has
<1> HIDE DEF A, B, R
<1>2. IsFiniteSet(A)
  BY DEF A
<1>3. IsFiniteSet(R) /\ Cardinality(R) \in Nat
  BY <1>2, FS_RemoveElement, FS_CardinalityType DEF R
<1>4. IsFiniteSet(R \cup {w}) /\ Cardinality(R \cup {w}) = Cardinality(R) + 1
  BY <1>1, <1>3, FS_AddElement
<1>5. IsFiniteSet(B) /\ Cardinality(A) = Cardinality(R) + One(Has(w, e))
      /\ Cardinality(B) = Cardinality(R) + One(Has(w, e)')
  BY <1>1, <1>3, <1>4 DEF One
<1>6. One(Has(w, e)) \in Nat /\ One(Has(w, e)') \in Nat
  BY DEF One
<1>7. /\ Cardinality(A) \in Nat /\ Cardinality(B) \in Nat
      /\ Cardinality(B) + One(Has(w, e)) = Cardinality(A) + One(Has(w, e)')
  BY <1>3, <1>5, <1>6
<1> QED
  BY <1>5, <1>7 DEF A, B

LEMMA Balance ==
  ASSUME NEW p \in Nat, NEW q \in Nat, NEW r \in Nat, NEW s \in Nat, NEW n \in Nat, NEW m \in Nat,
         NEW h \in Nat, NEW i \in Nat, NEW d \in Nat, NEW c \in Nat,
         q = s + n + d, p + s + h + d = q + r + i + c, m + h = n + i
  PROVE  p = r + m + c
OBVIOUS

\* The books stay balanced if what this worker has, what is recorded and what
\* is lost change with what is acknowledged.
LEMMA WorkerBalances ==
  ASSUME TypeOK, TypeOK', CountInv, NEW w \in Workers,
         \A v \in Workers \ {w} : job'[v] = job[v],
         \A e \in Events :
           /\ status[e] = "deleted" => status'[e] = "deleted"
           /\ status'[e] # "deleted" =>
                acked'[e] + unrecorded[e] + One(Has(w, e)) + One(status[e] = "delivered") =
                acked[e] + unrecorded'[e] + One(Has(w, e)') + One(status'[e] = "delivered")
  PROVE  CountInv'
<1>1. ASSUME NEW e \in Events
      PROVE  /\ IsFiniteSet(AwaitingSave(e))'
             /\ status'[e] # "deleted" =>
                  acked'[e] = unrecorded'[e] + Cardinality(AwaitingSave(e))'
                                + One(status'[e] = "delivered")
  <2>1. IsFiniteSet(AwaitingSave(e))
    BY DEF CountInv
  <2>2. /\ IsFiniteSet(AwaitingSave(e))'
        /\ Cardinality(AwaitingSave(e)) \in Nat /\ Cardinality(AwaitingSave(e))' \in Nat
        /\ Cardinality(AwaitingSave(e))' + One(Has(w, e)) =
             Cardinality(AwaitingSave(e)) + One(Has(w, e)')
    BY <2>1, OneWorkerCounts
  <2>3. status'[e] # "deleted" =>
          acked[e] = unrecorded[e] + Cardinality(AwaitingSave(e)) + One(status[e] = "delivered")
    BY DEF CountInv, AckAccounting, One
  <2>4. /\ acked[e] \in Nat /\ acked'[e] \in Nat /\ unrecorded[e] \in Nat /\ unrecorded'[e] \in Nat
    BY DEF TypeOK
  <2>5. /\ One(status[e] = "delivered") \in Nat /\ One(status'[e] = "delivered") \in Nat
        /\ One(Has(w, e)) \in Nat /\ One(Has(w, e)') \in Nat
    BY DEF One
  <2>6. PICK n \in Nat, m \in Nat, h \in Nat, i \in Nat, d \in Nat, c \in Nat :
          /\ n = Cardinality(AwaitingSave(e)) /\ m = Cardinality(AwaitingSave(e))'
          /\ h = One(Has(w, e)) /\ i = One(Has(w, e)')
          /\ d = One(status[e] = "delivered") /\ c = One(status'[e] = "delivered")
    BY <2>2, <2>5
  <2>7. status'[e] # "deleted" => acked'[e] = unrecorded'[e] + m + c
    <3>1. m + h = n + i
      BY <2>2, <2>6
    <3>2. status'[e] # "deleted" =>
            /\ acked[e] = unrecorded[e] + n + d
            /\ acked'[e] + unrecorded[e] + h + d = acked[e] + unrecorded'[e] + i + c
      BY <2>3, <2>6
    <3> SUFFICES ASSUME status'[e] # "deleted" PROVE acked'[e] = unrecorded'[e] + m + c
      OBVIOUS
    <3>3. PICK p \in Nat, q \in Nat, r \in Nat, s \in Nat :
            p = acked'[e] /\ q = acked[e] /\ r = unrecorded'[e] /\ s = unrecorded[e]
      BY <2>4
    <3>4. q = s + n + d /\ p + s + h + d = q + r + i + c
      BY <3>2, <3>3
    <3>5. p = r + m + c
      BY <3>1, <3>4, Balance
    <3> QED
      BY <3>3, <3>5
  <2> QED
    BY <2>2, <2>6, <2>7
<1> QED
  BY <1>1 DEF CountInv, AckAccounting, One

\* Steps in which no acknowledgement is got, recorded or lost.
LEMMA NothingInHand ==
  ASSUME TypeOK, TypeOK', CountInv, NEW w \in Workers,
         \A v \in Workers \ {w} : job'[v] = job[v],
         job[w].state.status # "delivered", job'[w].state.status # "delivered",
         UNCHANGED <<acked, unrecorded>>,
         \A e \in Events : /\ status[e] = "deleted" <=> status'[e] = "deleted"
                           /\ status[e] = "delivered" <=> status'[e] = "delivered"
  PROVE  CountInv'
<1>1. \A e \in Events : ~Has(w, e) /\ ~Has(w, e)'
  BY DEF Has
<1> QED
  BY <1>1, WorkerBalances DEF One, TypeOK

\* A row step touches no acknowledgement.
LEMMA RowStepBalances ==
  ASSUME TypeOK, TypeOK', CountInv, UNCHANGED <<job, acked, unrecorded>>,
         \A e \in Events :
           /\ status[e] = "deleted" => status'[e] = "deleted"
           /\ status'[e] # "deleted" => (status[e] = "delivered" <=> status'[e] = "delivered")
  PROVE  CountInv'
<1>1. \A e \in Events : AwaitingSave(e)' = AwaitingSave(e)
  BY DEF AwaitingSave
<1> QED
  BY <1>1 DEF CountInv, AckAccounting

LEMMA NextCountInv ==
  ASSUME TypeOK, TypeOK', CountInv, [Next]_vars
  PROVE  CountInv'
<1> USE DEF rows, runner, ghosts, bounds
<1>0. NoState.status = "none" /\ NoJob.state = NoState
  BY DEF NoState, NoJob
<1>1. ASSUME NEW w \in Workers, pc[w] # "save"
      PROVE  job[w].state.status # "delivered"
  BY <1>0, <1>1 DEF TypeOK
<1>2. ASSUME NEW w \in Workers,
             StartBatch(w) \/ SkipEvent(w) \/ FinishBatch(w) \/ LoadMissing(w)
      PROVE  CountInv'
  <2>1. pc[w] # "save" /\ UNCHANGED <<status, acked, unrecorded>>
        /\ (job' = job \/ job' = [job EXCEPT ![w] = NoJob])
    BY <1>2 DEF StartBatch, SkipEvent, FinishBatch, LoadMissing, EndBatch
  <2>2. /\ \A v \in Workers \ {w} : job'[v] = job[v]
        /\ job'[w].state.status # "delivered" /\ job[w].state.status # "delivered"
    BY <1>0, <1>1, <2>1 DEF TypeOK
  <2> QED
    BY <2>1, <2>2, NothingInHand
<1>3. ASSUME NEW w \in Workers, LoadEvent(w)
      PROVE  CountInv'
  <2>1. pc[w] = "claimed" /\ UNCHANGED <<status, acked, unrecorded>>
        /\ job' = [job EXCEPT ![w].seen = attempts[job[w].event]] /\ pc'[w] = "loaded"
    BY <1>3 DEF LoadEvent, TypeOK
  <2>2. \A v \in Workers \ {w} : job'[v] = job[v]
    BY <2>1 DEF TypeOK
  <2>3. job[w].state.status # "delivered"
    BY <1>1, <2>1
  <2>4. job'[w].state.status # "delivered"
    BY <1>0, <2>1 DEF TypeOK
  <2> QED
    BY <2>1, <2>2, <2>3, <2>4, NothingInHand
<1>4. ASSUME NEW w \in Workers, claimEvent(w)
      PROVE  CountInv'
  <2>1. PICK k \in batch[w] :
          /\ Due(k[2])
          /\ status' = [status EXCEPT ![k[2]] = "delivering"]
          /\ job' = [job EXCEPT ![w] = [NoJob EXCEPT !.event = k[2], !.lease = now + Lease]]
    BY <1>4 DEF claimEvent
  <2>2. pc[w] = "batch" /\ UNCHANGED <<acked, unrecorded>>
    BY <1>4 DEF claimEvent
  <2>3. /\ \A v \in Workers \ {w} : job'[v] = job[v]
        /\ job'[w].state = NoState
    BY <2>1 DEF TypeOK, NoJob
  <2>4. job[w].state.status # "delivered" /\ job'[w].state.status # "delivered"
    BY <1>0, <1>1, <2>2, <2>3
  <2>5. \A e \in Events : /\ status[e] = "deleted" <=> status'[e] = "deleted"
                          /\ status[e] = "delivered" <=> status'[e] = "delivered"
    BY <2>1 DEF TypeOK, Due, Queued
  <2> QED
    BY <2>2, <2>3, <2>4, <2>5, NothingInHand
<1>5. ASSUME NEW w \in Workers, NEW s, Decide(w, s), s.status # "delivered", acked' = acked
      PROVE  CountInv'
  <2>1. /\ pc[w] = "loaded" /\ UNCHANGED <<status, unrecorded>>
        /\ job' = [job EXCEPT ![w].state = s]
    BY <1>5 DEF Decide
  <2>2. job[w] \in Jobs
    BY <2>1 DEF TypeOK, Holding
  <2>3. (\A v \in Workers \ {w} : job'[v] = job[v]) /\ job'[w].state = s
    BY <2>1, <2>2 DEF TypeOK, Jobs
  <2>4. job[w].state.status # "delivered"
    BY <1>1, <2>1
  <2> QED
    BY <1>5, <2>1, <2>3, <2>4, NothingInHand
<1>6. ASSUME NEW w \in Workers, PostWebhook(w) \/ SendEmail(w)
      PROVE  CountInv'
  <2> DEFINE s == deliveredState(job[w].seen)
  <2>1. /\ pc[w] = "loaded" /\ UNCHANGED <<status, unrecorded>>
        /\ job' = [job EXCEPT ![w].state = s]
        /\ acked' = [acked EXCEPT ![job[w].event] = @ + 1]
    BY <1>6 DEF Decide, PostWebhook, SendEmail
  <2>2. job[w] \in Jobs /\ job[w].event \in Events
    BY <2>1 DEF TypeOK, Holding, Jobs
  <2>3. /\ \A v \in Workers \ {w} : job'[v] = job[v]
        /\ job'[w].state = s /\ job'[w].event = job[w].event
    BY <2>1, <2>2 DEF TypeOK, Jobs
  <2>4. s.status = "delivered"
    BY DEF deliveredState
  <2>5. \A e \in Events : ~Has(w, e) /\ (Has(w, e)' <=> e = job[w].event)
    BY <1>1, <2>1, <2>3, <2>4 DEF Has
  <2> QED
    BY <2>1, <2>2, <2>3, <2>5, WorkerBalances DEF One, TypeOK
<1>7. ASSUME NEW w \in Workers, saveClaimedState(w)
      PROVE  CountInv'
  <2> DEFINE f == job[w].event
  <2>1. /\ pc[w] = "save" /\ UNCHANGED <<acked, unrecorded>> /\ status[f] = "delivering"
        /\ status' = [status EXCEPT ![f] = job[w].state.status]
        /\ job' = [job EXCEPT ![w] = NoJob]
    BY <1>7 DEF saveClaimedState, OwnsLease
  <2>2. f \in Events /\ job[w].state \in DeliveryState
    BY <2>1 DEF TypeOK, Holding, Jobs
  <2>3. (\A v \in Workers \ {w} : job'[v] = job[v]) /\ job'[w].state = NoState
    BY <1>0, <2>1 DEF TypeOK
  <2>4. \A e \in Events : /\ Has(w, e) <=> e = f /\ job[w].state.status = "delivered"
                          /\ ~Has(w, e)'
    BY <1>0, <2>3 DEF Has
  <2>5. \A e \in Events : /\ status[e] = "deleted" => status'[e] = "deleted"
                          /\ e # f => status'[e] = status[e]
    BY <2>1, <2>2 DEF TypeOK
  <2>6. status'[f] = job[w].state.status
    BY <2>1, <2>2 DEF TypeOK
  <2>7. ASSUME NEW e \in Events
        PROVE  acked'[e] + unrecorded[e] + One(Has(w, e)) + One(status[e] = "delivered") =
               acked[e] + unrecorded'[e] + One(Has(w, e)') + One(status'[e] = "delivered")
    <3>1. acked[e] \in Nat /\ unrecorded[e] \in Nat
      BY DEF TypeOK
    <3> QED
      BY <2>1, <2>4, <2>5, <2>6, <3>1 DEF One
  <2> QED
    BY <2>3, <2>5, <2>7, WorkerBalances
<1>8. ASSUME NEW w \in Workers, ClaimLost(w) \/ DatabaseError(w) \/ Restart(w)
      PROVE  CountInv'
  <2>1. /\ UNCHANGED <<acked, status>> /\ DropResult(w)
        /\ job' = [job EXCEPT ![w] = NoJob]
    BY <1>8 DEF ClaimLost, DatabaseError, Restart, EndBatch
  <2>2. (\A v \in Workers \ {w} : job'[v] = job[v]) /\ job'[w].state = NoState
    BY <1>0, <2>1 DEF TypeOK
  <2>3. job[w].state.status = "delivered" => job[w].event \in Events
    BY <1>0, NoJobIsNoJob DEF TypeOK, Jobs
  <2>4. ASSUME NEW e \in Events
        PROVE  acked'[e] + unrecorded[e] + One(Has(w, e)) + One(status[e] = "delivered") =
               acked[e] + unrecorded'[e] + One(Has(w, e)') + One(status'[e] = "delivered")
    <3>1. acked[e] \in Nat /\ unrecorded[e] \in Nat /\ ~Has(w, e)'
      BY <1>0, <2>2 DEF TypeOK, Has
    <3>2. unrecorded'[e] = unrecorded[e] + One(Has(w, e))
      BY <2>1, <2>3, <3>1 DEF DropResult, Has, One, TypeOK
    <3> QED
      BY <2>1, <3>1, <3>2 DEF One
  <2> QED
    BY <2>1, <2>2, <2>4, WorkerBalances
<1>9. ASSUME NEW e \in Events, CreateEvent(e) \/ retryDeliveryEvent(e) \/ DeleteEvent(e)
      PROVE  CountInv'
  BY <1>9, RowStepBalances DEF CreateEvent, retryDeliveryEvent, DeleteEvent, TypeOK
<1>10. CASE Tick \/ UNCHANGED vars
  BY <1>10, RowStepBalances DEF Tick, vars
<1>11. ASSUME NEW w \in Workers, Deliver(w)
       PROVE  CountInv'
  <2>1. ASSUME NEW n
        PROVE  finalState.status # "delivered" /\ retryState(n).status # "delivered"
    BY DEF finalState, retryState
  <2>2. CASE RefuseWebhook(w) \/ RefuseEmail(w)
    BY <1>5, <2>1, <2>2 DEF RefuseWebhook, RefuseEmail
  <2>3. CASE PostWebhookFails(w) \/ SendEmailFails(w)
    <3>1. PICK n : n = job[w].seen
      OBVIOUS
    <3>2. retryState(job[w].seen).status # "delivered"
      BY <2>1, <3>1
    <3> QED
      BY <1>5, <2>3, <3>2 DEF PostWebhookFails, SendEmailFails
  <2>4. CASE PostWebhook(w) \/ SendEmail(w)
    BY <1>6, <2>4
  <2> QED
    BY <1>11, <2>2, <2>3, <2>4 DEF Deliver
<1> QED
  BY <1>2, <1>3, <1>4, <1>7, <1>8, <1>9, <1>10, <1>11 DEF Next, Work

LEMMA InitCountInv == Init => CountInv
<1> SUFFICES ASSUME Init PROVE CountInv
  OBVIOUS
<1>1. \A e \in Events : AwaitingSave(e) = {}
  BY DEF Init, AwaitingSave, NoJob, NoState
<1> QED
  BY <1>1, FS_EmptySet DEF Init, CountInv, AckAccounting

\* No acknowledgement is forgotten but by a crash, a failed save or an expired
\* lease, and no row says "delivered" without one, for any number of workers
\* (saveClaimedState, deliverEvent of internal/jobs).
THEOREM QueueAckAccounting == Spec => []AckAccounting
<1>1. CountInv => AckAccounting
  BY DEF CountInv
<1> QED
  BY <1>1, InitTypeOK, NextTypeOK, InitCountInv, NextCountInv, PTL DEF Spec
=============================================================================
