--------------------------- MODULE DeliveryLedger ---------------------------
(***************************************************************************)
(* What the delivery queue promises about a notification, without rows,    *)
(* clocks, leases or workers: it is queued, and stays queued until it is   *)
(* recorded as delivered, which needs an acknowledgement of the endpoint,  *)
(* or as failed.  Only the operator reopens a failed one, nobody reopens a *)
(* delivered one, and the endpoint may acknowledge it more than once.      *)
(***************************************************************************)
CONSTANT Events

VARIABLES
  fate,     \* what the administrator sees of each notification
  received  \* whether the endpoint ever acknowledged it

ledger == <<fate, received>>

LedgerTypeOK ==
  /\ fate \in [Events -> {"none", "queued", "delivered", "failed", "gone"}]
  /\ received \in [Events -> BOOLEAN]

LedgerInit ==
  /\ fate = [e \in Events |-> "none"]
  /\ received = [e \in Events |-> FALSE]

Becomes(e, from, to) ==
  /\ fate[e] \in from
  /\ fate' = [fate EXCEPT ![e] = to]
  /\ UNCHANGED received

Enqueue(e) == Becomes(e, {"none"}, "queued")

Acknowledge(e) ==
  /\ fate[e] # "none"
  /\ received' = [received EXCEPT ![e] = TRUE]
  /\ UNCHANGED fate

RecordDelivered(e) == received[e] /\ Becomes(e, {"queued"}, "delivered")

RecordFailed(e) == Becomes(e, {"queued"}, "failed")

Reopen(e) == Becomes(e, {"failed"}, "queued")

Remove(e) == Becomes(e, {"queued", "delivered", "failed"}, "gone")

LedgerNext ==
  \E e \in Events :
    \/ Enqueue(e) \/ Acknowledge(e) \/ RecordDelivered(e)
    \/ RecordFailed(e) \/ Reopen(e) \/ Remove(e)

LedgerSpec == LedgerInit /\ [][LedgerNext]_ledger
=============================================================================
