--------------------------- MODULE DeliveryQueue ---------------------------
(***************************************************************************)
(* The durable delivery queue of internal/jobs: rows of webhook_events and *)
(* email_events, the runners that poll them (one per server process), the  *)
(* expiring lease kept in next_attempt_at, and the operations of           *)
(* internal/forms that create, retry and delete rows.                      *)
(*                                                                         *)
(* A runner works on one row at a time: query the due ids, claim, load,    *)
(* send outside any transaction, save under the lease.  Every one of these *)
(* is a separate step here, because between two of them the clock moves    *)
(* and other processes write.                                              *)
(***************************************************************************)
EXTENDS Integers, FiniteSets, Sequences

CONSTANTS
  WebhookIDs, EmailIDs, \* row ids of the two tables (disjoint here)
  Workers,              \* server processes sharing the database
  Lease,                \* deliveryLease, in ticks
  BatchSize,            \* deliveryBatchSize
  RetryLimit,           \* MINIFORM_WEBHOOK_RETRY_LIMIT
  RetryDelays,          \* MINIFORM_WEBHOOK_BACKOFF_SCHEDULE, in ticks
  MaxTime,              \* bound: last value of the clock
  MaxFaults,            \* bound: crashes and database errors
  MaxRequeues           \* bound: manual retries

Events == WebhookIDs \cup EmailIDs
Nil == -1               \* SQL NULL, Go nil: no time, no count, no row

ASSUME EventsAssumption ==
  /\ WebhookIDs \subseteq Nat
  /\ EmailIDs \subseteq Nat
  /\ WebhookIDs \cap EmailIDs = {}
ASSUME QueueAssumption ==
  /\ Lease \in Nat \ {0}
  /\ BatchSize \in Nat \ {0}
  /\ RetryLimit \in Nat
  /\ RetryDelays \in Seq(Nat \ {0}) /\ RetryDelays # << >>
  /\ MaxTime \in Nat
  /\ MaxFaults \in Nat
  /\ MaxRequeues \in Nat

VARIABLES
  status, attempts, nextAt, \* the columns of the event rows
  now,                      \* time.Now(), non-decreasing
  pc, proc, batch, job,     \* one runner per worker
  acked,       \* ghost: sends of a row the endpoint acknowledged
  unrecorded,  \* ghost: acknowledged sends whose result was never saved
  faults,      \* ghost: faults so far, bounded by MaxFaults
  requeues     \* ghost: manual retries so far, bounded by MaxRequeues

rows == <<status, attempts, nextAt>>
runner == <<pc, proc, batch, job>>
ghosts == <<acked, unrecorded>>
bounds == <<faults, requeues>>
vars == <<rows, now, runner, ghosts, bounds>>

Queued == {"pending", "retrying", "delivering"}
Terminal == {"delivered", "failed"}
Status == Queued \cup Terminal \cup {"absent", "deleted"}
Processors == {"webhook", "email"}
Table(p) == IF p = "webhook" THEN WebhookIDs ELSE EmailIDs

Time == Nat \cup {Nil}
DeliveryState == [status : {"delivered", "failed", "retrying"},
                  next : Time, attempts : Time]
NoState == [status |-> "none", next |-> Nil, attempts |-> Nil]
NoJob == [event |-> Nil, lease |-> 0, seen |-> 0, state |-> NoState]
Jobs == [event : Events, lease : Nat, seen : Nat,
         state : DeliveryState \cup {NoState}]

Holding(w) == pc[w] \in {"claimed", "loaded", "save"}

(***************************************************************************)
(* Retry plan.                                                             *)
(***************************************************************************)
PlanLimit == IF RetryLimit < 1 THEN 3 ELSE RetryLimit

MaxOf(a, b) == IF a >= b THEN a ELSE b
MinOf(a, b) == IF a <= b THEN a ELSE b

\* retryPlan.next: the schedule entry of this attempt, the last one repeated
PlanNext(attempt) ==
  IF RetryDelays = << >> THEN Nil
  ELSE now + RetryDelays[MinOf(MaxOf(attempt - 1, 0), Len(RetryDelays) - 1) + 1]

deliveredState(previous) ==
  [status |-> "delivered", next |-> Nil, attempts |-> previous + 1]

finalState ==
  [status |-> "failed", next |-> Nil, attempts |-> Nil]

\* Mutant: one attempt too many.
retryState_OffByOne(previous) ==
  IF previous + 1 > PlanLimit
  THEN [status |-> "failed", next |-> Nil, attempts |-> previous + 1]
  ELSE [status |-> "retrying", next |-> PlanNext(previous + 1),
        attempts |-> previous + 1]

retryState(previous) ==
  IF previous + 1 >= PlanLimit
  THEN [status |-> "failed", next |-> Nil, attempts |-> previous + 1]
  ELSE [status |-> "retrying", next |-> PlanNext(previous + 1),
        attempts |-> previous + 1]

(***************************************************************************)
(* The due query.  A batch keeps the sort key each row had when it was     *)
(* queried: <<next_attempt_at, id>> (ids follow created_at, NULL first).   *)
(***************************************************************************)
\* Mutants: a lease does not protect its row, is short by one tick, or is
\* never given up.
Due_IgnoresLease(e) == status[e] = "delivering" \/ (status[e] \in Queued /\ nextAt[e] <= now)
Due_Early(e) == status[e] \in Queued /\ nextAt[e] <= now + 1
Due_NeverReclaims(e) == status[e] \in {"pending", "retrying"} /\ nextAt[e] <= now

Due(e) == status[e] \in Queued /\ nextAt[e] <= now

Before(k, l) == k[1] < l[1] \/ (k[1] = l[1] /\ k[2] < l[2])

dueEventIDs(p) ==
  LET keys == {<<nextAt[e], e>> : e \in {d \in Table(p) : Due(d)}}
  IN  {k \in keys : Cardinality({l \in keys : Before(l, k)}) < BatchSize}

(***************************************************************************)
(* Initial state: empty tables, every runner about to process.             *)
(***************************************************************************)
Init ==
  /\ status = [e \in Events |-> "absent"]
  /\ attempts = [e \in Events |-> 0]
  /\ nextAt = [e \in Events |-> Nil]
  /\ now = 0
  /\ pc = [w \in Workers |-> "ready"]
  /\ proc = [w \in Workers |-> "webhook"]
  /\ batch = [w \in Workers |-> {}]
  /\ job = [w \in Workers |-> NoJob]
  /\ acked = [e \in Events |-> 0]
  /\ unrecorded = [e \in Events |-> 0]
  /\ faults = 0
  /\ requeues = 0

(***************************************************************************)
(* Runner.                                                                 *)
(***************************************************************************)

\* Mutant: the job of the aborted iteration survives.
EndBatch_KeepsJob(w) ==
  /\ pc' = [pc EXCEPT ![w] = "ready"]
  /\ proc' = [proc EXCEPT ![w] = IF @ = "webhook" THEN "email" ELSE "webhook"]
  /\ batch' = [batch EXCEPT ![w] = {}]
  /\ UNCHANGED job

\* ProcessBatch returned: the runner turns to the next processor, and after
\* the last one waits for its ticker.  Nothing is due to the row it held.
EndBatch(w) ==
  /\ pc' = [pc EXCEPT ![w] = "ready"]
  /\ proc' = [proc EXCEPT ![w] = IF @ = "webhook" THEN "email" ELSE "webhook"]
  /\ batch' = [batch EXCEPT ![w] = {}]
  /\ job' = [job EXCEPT ![w] = NoJob]

\* An acknowledged result that is dropped without being saved.
DropResult(w) ==
  unrecorded' = IF job[w].state.status = "delivered"
                THEN [unrecorded EXCEPT ![job[w].event] = @ + 1]
                ELSE unrecorded

Fault == faults < MaxFaults /\ faults' = faults + 1 /\ UNCHANGED requeues

StartBatch(w) ==
  /\ pc[w] = "ready"
  /\ pc' = [pc EXCEPT ![w] = "batch"]
  /\ batch' = [batch EXCEPT ![w] = dueEventIDs(proc[w])]
  /\ UNCHANGED <<rows, now, proc, job, ghosts, bounds>>

FinishBatch(w) ==
  /\ pc[w] = "batch" /\ batch[w] = {}
  /\ EndBatch(w)
  /\ UNCHANGED <<rows, now, ghosts, bounds>>

\* The loop visits the ids in the order of the query.
IsNext(w, k) == k \in batch[w] /\ \A l \in batch[w] \ {k} : Before(k, l)

claimEvent(w) ==
  /\ pc[w] = "batch"
  /\ \E k \in batch[w] : LET e == k[2] IN
       /\ IsNext(w, k)
       /\ Due(e)
       /\ status' = [status EXCEPT ![e] = "delivering"]
       /\ nextAt' = [nextAt EXCEPT ![e] = now + Lease]
       /\ batch' = [batch EXCEPT ![w] = @ \ {k}]
       /\ job' = [job EXCEPT ![w] = [NoJob EXCEPT !.event = e, !.lease = now + Lease]]
  /\ pc' = [pc EXCEPT ![w] = "claimed"]
  /\ UNCHANGED <<attempts, now, proc, ghosts, bounds>>

\* The row stopped being due since the query: taken, settled, or deleted.
SkipEvent(w) ==
  /\ pc[w] = "batch"
  /\ \E k \in batch[w] :
       /\ IsNext(w, k)
       /\ ~Due(k[2])
       /\ batch' = [batch EXCEPT ![w] = @ \ {k}]
  /\ UNCHANGED <<rows, now, pc, proc, job, ghosts, bounds>>

\* First(&event, id): the row as it is now, whoever wrote it last.
LoadEvent(w) ==
  /\ pc[w] = "claimed"
  /\ status[job[w].event] # "deleted"
  /\ pc' = [pc EXCEPT ![w] = "loaded"]
  /\ job' = [job EXCEPT ![w].seen = attempts[job[w].event]]
  /\ UNCHANGED <<rows, now, proc, batch, ghosts, bounds>>

LoadMissing(w) ==
  /\ pc[w] = "claimed"
  /\ status[job[w].event] = "deleted"
  /\ EndBatch(w)
  /\ UNCHANGED <<rows, now, ghosts, bounds>>

\* deliver decides the state the row is to get.
Decide(w, state) ==
  /\ pc[w] = "loaded"
  /\ pc' = [pc EXCEPT ![w] = "save"]
  /\ job' = [job EXCEPT ![w].state = state]
  /\ UNCHANGED <<rows, now, proc, batch, unrecorded, bounds>>

\* No submission, or webhooks disabled for the form: never sent.
RefuseWebhook(w) ==
  /\ proc[w] = "webhook"
  /\ Decide(w, finalState)
  /\ UNCHANGED acked

\* No submission or notification, disabled, no usable mailer, sender,
\* recipient, reply-to or message: never sent.
RefuseEmail(w) ==
  /\ proc[w] = "email"
  /\ Decide(w, finalState)
  /\ UNCHANGED acked

\* The endpoint answered 2xx and the body was read.
PostWebhook(w) ==
  /\ proc[w] = "webhook"
  /\ Decide(w, deliveredState(job[w].seen))
  /\ acked' = [acked EXCEPT ![job[w].event] = @ + 1]

\* Transport error, timeout, unreadable body or any other status.
PostWebhookFails(w) ==
  /\ proc[w] = "webhook"
  /\ Decide(w, retryState(job[w].seen))
  /\ UNCHANGED acked

\* The server accepted DATA; QUIT is best effort.
SendEmail(w) ==
  /\ proc[w] = "email"
  /\ Decide(w, deliveredState(job[w].seen))
  /\ acked' = [acked EXCEPT ![job[w].event] = @ + 1]

SendEmailFails(w) ==
  /\ proc[w] = "email"
  /\ Decide(w, retryState(job[w].seen))
  /\ UNCHANGED acked

\* Mutant: the save is not conditional on the lease.
OwnsLease_Always(w) == status[job[w].event] # "deleted"

OwnsLease(w) ==
  LET e == job[w].event
  IN  status[e] = "delivering" /\ nextAt[e] = job[w].lease

saveClaimedState(w) ==
  LET e == job[w].event
      s == job[w].state IN
  /\ pc[w] = "save"
  /\ OwnsLease(w)
  /\ status' = [status EXCEPT ![e] = s.status]
  /\ nextAt' = [nextAt EXCEPT ![e] = s.next]
  /\ attempts' = [attempts EXCEPT ![e] = IF s.attempts = Nil THEN @ ELSE s.attempts]
  /\ pc' = [pc EXCEPT ![w] = "batch"]
  /\ job' = [job EXCEPT ![w] = NoJob]
  /\ UNCHANGED <<now, proc, batch, ghosts, bounds>>

\* errDeliveryClaimLost ends the batch.
ClaimLost(w) ==
  /\ pc[w] = "save"
  /\ ~OwnsLease(w)
  /\ EndBatch(w)
  /\ DropResult(w)
  /\ UNCHANGED <<rows, now, acked, bounds>>

\* A database error (or a cancelled context) in the query, claim, load or save
\* ends the batch and leaves the row as it is.
DatabaseError(w) ==
  /\ pc[w] \in {"ready", "batch", "claimed", "save"}
  /\ pc[w] = "batch" => batch[w] # {}
  /\ Fault
  /\ EndBatch(w)
  /\ DropResult(w)
  /\ UNCHANGED <<rows, now, acked>>

\* The process dies and a new one starts its runner from the first processor.
Restart(w) ==
  /\ pc[w] # "ready"
  /\ Fault
  /\ pc' = [pc EXCEPT ![w] = "ready"]
  /\ proc' = [proc EXCEPT ![w] = "webhook"]
  /\ batch' = [batch EXCEPT ![w] = {}]
  /\ job' = [job EXCEPT ![w] = NoJob]
  /\ DropResult(w)
  /\ UNCHANGED <<rows, now, acked>>

(***************************************************************************)
(* Requests and the operator.                                              *)
(***************************************************************************)

\* createDeliveryEvents: ids are handed out in increasing order.
CreateEvent(e) ==
  /\ status[e] = "absent"
  /\ \A d \in Events : d < e /\ (d \in WebhookIDs <=> e \in WebhookIDs) => status[d] # "absent"
  /\ status' = [status EXCEPT ![e] = "pending"]
  /\ nextAt' = [nextAt EXCEPT ![e] = now]
  /\ UNCHANGED <<attempts, now, runner, ghosts, bounds>>

\* Mutant: any settled row can be retried.
retryDeliveryEvent_AnySettled(e) ==
  /\ status[e] \in Terminal
  /\ requeues < MaxRequeues
  /\ requeues' = requeues + 1
  /\ status' = [status EXCEPT ![e] = "pending"]
  /\ attempts' = [attempts EXCEPT ![e] = 0]
  /\ nextAt' = [nextAt EXCEPT ![e] = now]
  /\ UNCHANGED <<now, runner, ghosts, faults>>

retryDeliveryEvent(e) ==
  /\ status[e] = "failed"
  /\ requeues < MaxRequeues
  /\ requeues' = requeues + 1
  /\ status' = [status EXCEPT ![e] = "pending"]
  /\ attempts' = [attempts EXCEPT ![e] = 0]
  /\ nextAt' = [nextAt EXCEPT ![e] = now]
  /\ UNCHANGED <<now, runner, ghosts, faults>>

\* The row goes with its submission or form.
DeleteEvent(e) ==
  /\ status[e] \notin {"absent", "deleted"}
  /\ status' = [status EXCEPT ![e] = "deleted"]
  /\ UNCHANGED <<attempts, nextAt, now, runner, ghosts, bounds>>

Tick ==
  /\ now < MaxTime
  /\ now' = now + 1
  /\ UNCHANGED <<rows, runner, ghosts, bounds>>

Deliver(w) ==
  \/ RefuseWebhook(w) \/ PostWebhook(w) \/ PostWebhookFails(w)
  \/ RefuseEmail(w) \/ SendEmail(w) \/ SendEmailFails(w)

Work(w) ==
  \/ StartBatch(w) \/ FinishBatch(w)
  \/ claimEvent(w) \/ SkipEvent(w)
  \/ LoadEvent(w) \/ LoadMissing(w)
  \/ Deliver(w)
  \/ saveClaimedState(w) \/ ClaimLost(w)

Next ==
  \/ \E w \in Workers : Work(w) \/ DatabaseError(w) \/ Restart(w)
  \/ \E e \in Events : CreateEvent(e) \/ retryDeliveryEvent(e) \/ DeleteEvent(e)
  \/ Tick

Spec == Init /\ [][Next]_vars

(***************************************************************************)
(* Properties.                                                             *)
(***************************************************************************)

\* Types: the columns and runner states have their types, and a runner has a
\* job exactly while it holds a claim (the variables of ProcessBatch are local
\* to one iteration of its loop).
TypeOK ==
  /\ status \in [Events -> Status]
  /\ attempts \in [Events -> Nat]
  /\ nextAt \in [Events -> Time]
  /\ now \in Nat
  /\ pc \in [Workers -> {"ready", "batch", "claimed", "loaded", "save"}]
  /\ proc \in [Workers -> Processors]
  /\ batch \in [Workers -> SUBSET (Time \X Events)]
  /\ job \in [Workers -> Jobs \cup {NoJob}]
  /\ \A w \in Workers : Holding(w) <=> job[w] # NoJob
  /\ \A w \in Workers : pc[w] = "save" <=> job[w].state # NoState
  /\ acked \in [Events -> Nat]
  /\ unrecorded \in [Events -> Nat]
  /\ faults \in Nat
  /\ requeues \in Nat

\* No two workers can both record a result: at most one of the claims that
\* workers hold on a row carries the lease the row has (retry.go:152).
ClaimExclusive ==
  \A v, w \in Workers :
    /\ Holding(v) /\ Holding(w)
    /\ job[v].event = job[w].event
    /\ OwnsLease(v) /\ OwnsLease(w)
    => v = w

\* A claim is taken from the worker that holds it only after its lease ran
\* out, or when the row itself was deleted: a worker that finishes within the
\* lease always records its result, whatever other workers and the operator do.
LostOnlyByExpiry ==
  \A w \in Workers :
    Holding(w) => \/ OwnsLease(w)
                  \/ status[job[w].event] = "deleted"
                  \/ job[w].lease <= now

\* Rows keep the shape the queue relies on: a settled row has no next attempt
\* and so is never due, a row that waits has one, and the counter stays within
\* the limit over any sequence of failures, reclaims and manual retries.
RowsConsistent ==
  \A e \in Events :
    /\ status[e] \in Terminal => nextAt[e] = Nil /\ attempts[e] <= PlanLimit
    /\ status[e] \in Queued => nextAt[e] # Nil /\ attempts[e] < PlanLimit
    /\ status[e] \in {"delivered", "retrying"} => attempts[e] >= 1

\* What every step relies on: types and the shape of the rows.
Inv == TypeOK /\ RowsConsistent

AwaitingSave(e) == {w \in Workers : job[w].event = e /\ job[w].state.status = "delivered"}

\* Every acknowledged send of a row is recorded, still to be recorded, or was
\* lost by a crash, a failed save or an expired lease.  So an endpoint gets a
\* notification twice only after such a loss, and a row says "delivered" only
\* if the endpoint acknowledged it.
AckAccounting ==
  \A e \in Events : status[e] # "deleted" =>
    acked[e] = unrecorded[e] + Cardinality(AwaitingSave(e))
                 + (IF status[e] = "delivered" THEN 1 ELSE 0)

KeepsSettled ==
  \A e \in Events : status[e] \in Terminal =>
    \/ status'[e] = status[e] /\ attempts'[e] = attempts[e] /\ nextAt'[e] = nextAt[e]
    \/ status'[e] = "deleted"
    \/ status[e] = "failed" /\ status'[e] = "pending" /\ attempts'[e] = 0

\* A settled row is not touched by any worker, however late its result comes:
\* a delivered row stays delivered until it is deleted, and a failed row is
\* reopened only with a fresh attempt counter.
SettledIsStable == [][KeepsSettled]_vars

FateOf(s) ==
  CASE s = "absent" -> "none"
    [] s = "deleted" -> "gone"
    [] s \in Terminal -> s
    [] OTHER -> "queued"
LedgerFate == [e \in Events |-> FateOf(status[e])]
LedgerReceived == [e \in Events |-> acked[e] > 0]

Ledger == INSTANCE DeliveryLedger WITH fate <- LedgerFate, received <- LedgerReceived

\* The queue implements the ledger of DeliveryLedger: what an administrator
\* sees of a notification changes only in the ways the ledger allows.
ImplementsLedger == Ledger!LedgerSpec
=============================================================================
