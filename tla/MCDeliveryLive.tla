--------------------------- MODULE MCDeliveryLive ---------------------------
(***************************************************************************)
(* Liveness instance of DeliveryQueue.  The clock never stops: at MaxTime  *)
(* every stored time moves one tick into the past instead, which keeps all *)
(* comparisons between times.  A send ends before its lease: the webhook   *)
(* client gives up after 10 seconds and SMTP after 15, the lease is one    *)
(* minute.  Faults and manual retries are finitely many (MaxFaults,        *)
(* MaxRequeues).                                                           *)
(***************************************************************************)
EXTENDS DeliveryQueue

MCDelays == <<1, 2>>

SendsInTime == \A w \in Workers : Holding(w) => now + 1 < job[w].lease

Earlier(t) == IF t <= 0 THEN t ELSE t - 1

ShiftTimes ==
  /\ now = MaxTime
  /\ nextAt' = [e \in Events |-> Earlier(nextAt[e])]
  /\ batch' = [w \in Workers |-> {<<Earlier(k[1]), k[2]>> : k \in batch[w]}]
  /\ job' = [w \in Workers |->
               [job[w] EXCEPT !.lease = Earlier(@), !.state.next = Earlier(@)]]
  /\ UNCHANGED <<status, attempts, now, pc, proc, ghosts, bounds>>

TimelyTick == SendsInTime /\ (Tick \/ ShiftTimes)

LiveNext ==
  \/ \E w \in Workers : Work(w) \/ DatabaseError(w) \/ Restart(w)
  \/ \E e \in Events : CreateEvent(e) \/ retryDeliveryEvent(e) \/ DeleteEvent(e)
  \/ TimelyTick

LiveSpec ==
  /\ Init /\ [][LiveNext]_vars
  /\ \A w \in Workers : WF_vars(Work(w))
  /\ WF_vars(TimelyTick)

\* Every notification that is queued is eventually settled or deleted, across
\* crashes, failed saves and a batch size smaller than the queue: an expired
\* lease is always found again by the due query, and nothing starves.
EventuallySettled ==
  \A e \in Events :
    status[e] \in Queued ~> status[e] \in Terminal \cup {"deleted"}
=============================================================================
