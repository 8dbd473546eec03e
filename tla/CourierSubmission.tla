-------------------------- MODULE CourierSubmission --------------------------
(***************************************************************************)
(* One order and the couriers it is offered to, with the windows that no   *)
(* database lock covers: between a submission's read of the leg, the       *)
(* courier's answer and the write that records it; between the read of the *)
(* courier's state and its application; between the request that asks the  *)
(* courier to cancel and the transaction that closes the leg               *)
(* (logistics/application).                                                *)
(*                                                                         *)
(* Legs are numbered in the order dispatch creates them.  A remote leg is  *)
(* submitted by an outbox event and progresses by what its courier         *)
(* reports; a leg of the in-house pool progresses at the counters.         *)
(***************************************************************************)
EXTENDS Naturals, Sequences, FiniteSets, OrderStatus, DeliveryLeg

CONSTANTS
  Workers,         \* outbox pollers
  Pollers,         \* webhook processing and reconciler polls
  RemoteAttempts,  \* legs routing allows external couriers
  MaxLegs,         \* bound: legs of the order
  MaxSequence,     \* bound: changes of a courier's delivery
  Duplicates       \* may an Admin retry a submission that is still queued?

ASSUME SubmissionAssumption ==
  /\ MaxLegs \in Nat \ {0} /\ RemoteAttempts \in 1 .. MaxLegs
  /\ MaxSequence \in Nat \ {0} /\ Duplicates \in BOOLEAN

VARIABLES
  status,  \* orders.status
  legs,    \* delivery_legs rows of the order
  queue,   \* logistics.submit events due, by leg
  submit,  \* what each worker is doing
  job,     \* the courier's own record of each leg's delivery
  poll,    \* the snapshot each poller holds
  cancel   \* the cancellation in progress, if any

vars == <<status, legs, queue, submit, job, poll, cancel>>

Nr == 1 .. MaxLegs
Row(remote) == [remote |-> remote, status |-> "requested", booked |-> FALSE, sequence |-> 0]
NoJob == [status |-> NoStatus, sequence |-> 0]
IdleWorker == [leg |-> 0, at |-> "idle"]
IdlePoller == [leg |-> 0, seen |-> NoJob]
NoCancel == [leg |-> 0, at |-> "idle"]

(* Every row, event and message is one the code can produce. *)
TypeOK ==
  /\ status \in OrderStatuses
  /\ legs \in Seq([remote : BOOLEAN, status : LegStatuses, booked : BOOLEAN,
                   sequence : 0 .. MaxSequence])
  /\ Len(legs) \in Nr
  /\ queue \in [Nr -> Nat]
  /\ submit \in [Workers -> [leg : 0 .. MaxLegs, at : {"idle", "asking", "accepted", "refused"}]]
  /\ job \in [Nr -> [status : LegStatuses \cup {NoStatus}, sequence : 0 .. MaxSequence]]
  /\ poll \in [Pollers -> [leg : 0 .. MaxLegs,
                           seen : [status : LegStatuses \cup {NoStatus},
                                   sequence : 0 .. MaxSequence]]]
  /\ cancel \in [leg : 0 .. MaxLegs, at : {"idle", "asking", "closing"}]

(* The parcel is at the counter and its first leg was just dispatched. *)
Init ==
  /\ status = "parcel_received_at_origin"
  /\ legs = <<Row(TRUE)>>
  /\ queue = [l \in Nr |-> IF l = 1 THEN 1 ELSE 0]
  /\ submit = [w \in Workers |-> IdleWorker]
  /\ job = [l \in Nr |-> NoJob]
  /\ poll = [p \in Pollers |-> IdlePoller]
  /\ cancel = NoCancel

-----------------------------------------------------------------------------
(* The order follows its leg: DeliveryProgressListener, where a transition *)
(* that is not guarded by the order's status throws.                       *)

Rolled == "rolled_back"

Moves(s, event) ==
  LET step(from, to) == IF s = from THEN to ELSE Rolled
  IN  CASE event = "assigned"  -> step("parcel_received_at_origin", "rider_assigned")
        [] event = "picked_up" -> step("rider_assigned", "in_transit")
        [] event = "delivered" -> step("in_transit", "arrived_at_destination")
        [] event = "returning" -> step("in_transit", "return_in_transit")
        [] event = "returned"  -> step("return_in_transit", "returned_to_origin")
        [] event \in {"released", "cancelled"} ->
             IF s = "rider_assigned" THEN "parcel_received_at_origin" ELSE s
        [] OTHER -> s

OrderAfter(path) ==
  LET after[k \in 0 .. Len(path)] == IF k = 0 THEN status ELSE Moves(after[k - 1], path[k])
  IN  after[Len(path)]

(* DeliveryDispatchService.dispatch on rows: an active leg is kept;        *)
(* otherwise a new leg for an external courier that has attempts left, or  *)
(* for the pool, or none.                                                  *)
Active(rows) == { l \in DOMAIN rows : rows[l].status \in ActiveLegStatuses }
Remote(rows) == { l \in DOMAIN rows : rows[l].remote }

DispatchTo(rows, remote) ==
  /\ legs' = Append(rows, Row(remote))
  /\ queue' = IF remote THEN [queue EXCEPT ![Len(rows) + 1] = 1] ELSE queue

(* Mutant: the active leg is not looked for. *)
DispatchAlways(rows) ==
  IF Len(rows) < MaxLegs THEN DispatchTo(rows, FALSE) ELSE legs' = rows /\ queue' = queue

Dispatch(rows) ==
  \/ Active(rows) # {} /\ legs' = rows /\ queue' = queue
  \/ Active(rows) = {} /\ legs' = rows /\ queue' = queue
  \/ /\ Active(rows) = {} /\ Len(rows) < MaxLegs
     /\ \/ Cardinality(Remote(rows)) < RemoteAttempts /\ DispatchTo(rows, TRUE)
        \/ DispatchTo(rows, FALSE)

-----------------------------------------------------------------------------
(* DeliveryDispatchService.submit. *)

Working(w, at) == submit[w].at = at
Outstanding(l) == queue[l] > 0 \/ \E w \in Workers : submit[w].leg = l

BeginSubmit(w, l) ==
  /\ Working(w, "idle") /\ queue[l] > 0
  /\ queue' = [queue EXCEPT ![l] = @ - 1]
  /\ submit' = IF legs[l].status = "requested" /\ ~legs[l].booked
               THEN [submit EXCEPT ![w] = [leg |-> l, at |-> "asking"]] ELSE submit
  /\ UNCHANGED <<status, legs, job, poll, cancel>>

(* External: the courier takes the booking; the leg's id is its            *)
(* idempotency key, so a replay of an active booking returns it.           *)
CourierAccepts(w) ==
  LET l == submit[w].leg IN
  /\ Working(w, "asking")
  /\ job[l].status \in ActiveLegStatuses \cup {NoStatus}
  /\ job' = IF job[l] = NoJob THEN [job EXCEPT ![l] = [status |-> "requested", sequence |-> 1]]
            ELSE job
  /\ submit' = [submit EXCEPT ![w].at = "accepted"]
  /\ UNCHANGED <<status, legs, queue, poll, cancel>>

(* No booking: the quote is too high, the wallet too low, the courier      *)
(* refuses.                                                                *)
CourierRefuses(w) ==
  /\ Working(w, "asking")
  /\ submit' = [submit EXCEPT ![w].at = "refused"]
  /\ UNCHANGED <<status, legs, queue, job, poll, cancel>>

(* A retryable error, an answer lost or a crash: the event comes due       *)
(* again, or has used up its attempts.                                     *)
SubmitFails(w) ==
  LET l == submit[w].leg IN
  /\ submit[w].at \in {"asking", "accepted", "refused"}
  /\ submit' = [submit EXCEPT ![w] = IdleWorker]
  /\ queue' \in {queue, [queue EXCEPT ![l] = @ + 1]}
  /\ UNCHANGED <<status, legs, job, poll, cancel>>

RecordAccepted(w) ==
  /\ Working(w, "accepted")
  /\ legs' = [legs EXCEPT ![submit[w].leg].booked = TRUE]
  /\ submit' = [submit EXCEPT ![w] = IdleWorker]
  /\ UNCHANGED <<status, queue, job, poll, cancel>>

(* The leg is closed whatever its status is by now, and nobody is told. *)
RecordRefused(w) ==
  /\ Working(w, "refused")
  /\ Dispatch([legs EXCEPT ![submit[w].leg].status = "cancelled"])
  /\ submit' = [submit EXCEPT ![w] = IdleWorker]
  /\ UNCHANGED <<status, job, poll, cancel>>

(* AdminLogisticsService.retry *)
Retry(l) ==
  /\ legs[l].remote /\ legs[l].status = "requested" /\ ~legs[l].booked
  /\ queue[l] = 0 /\ (Duplicates \/ ~Outstanding(l))
  /\ queue' = [queue EXCEPT ![l] = 1]
  /\ UNCHANGED <<status, legs, submit, job, poll, cancel>>

-----------------------------------------------------------------------------
(* A request to a courier is cut off after seconds (SENDII_WRITE_POLICY,   *)
(* SENDII_READ_POLICY); a parcel takes longer to cross the city.  So no    *)
(* delivery completes while a submission is unanswered.                    *)
CallsEndFirst(event) ==
  event \in {"delivered", "returned"} => \A w \in Workers : submit[w] = IdleWorker

(* External: the courier's delivery progresses, and each change has the    *)
(* next sequence number.                                                   *)
JobAfter(j, s) == [status |-> s, sequence |-> j.sequence + 1]

CourierProgresses(l, event) ==
  /\ job[l].sequence < MaxSequence /\ event # "attempt_failed" /\ CallsEndFirst(event)
  /\ NextLegStatus(job[l].status, event) # NoStatus
  /\ job' = [job EXCEPT ![l] = JobAfter(@, NextLegStatus(@.status, event))]
  /\ UNCHANGED <<status, legs, queue, submit, poll, cancel>>

(* A webhook's processing or a reconciler poll asks where the delivery is. *)
ReadJob(p, l) ==
  /\ poll[p] = IdlePoller
  /\ legs[l].booked
  /\ poll' = [poll EXCEPT ![p] = [leg |-> l, seen |-> job[l]]]
  /\ UNCHANGED <<status, legs, queue, submit, job, cancel>>

(* Mutant: snapshots are applied in whatever order they arrive. *)
ApplyAnySnapshot(p) ==
  LET l == poll[p].leg
      seen == poll[p].seen
      path == EventsToReach(legs[l].status, seen.status)
      row == [legs[l] EXCEPT !.sequence = seen.sequence,
                             !.status = IF path = << >> THEN @ ELSE seen.status]
  IN  /\ poll[p] # IdlePoller
      /\ poll' = [poll EXCEPT ![p] = IdlePoller]
      /\ IF OrderAfter(path) = Rolled
         THEN UNCHANGED <<status, legs, queue>>
         ELSE /\ status' = OrderAfter(path)
              /\ legs' = [legs EXCEPT ![l] = row] /\ queue' = queue
      /\ UNCHANGED <<submit, job, cancel>>

(* DeliveryEventsService.syncFromSnapshot, with the steps between our      *)
(* status and the courier's replayed in one transaction.                   *)
ApplySnapshot(p) ==
  LET l == poll[p].leg
      seen == poll[p].seen
      path == EventsToReach(legs[l].status, seen.status)
      row == [legs[l] EXCEPT !.sequence = seen.sequence,
                             !.status = IF path = << >> THEN @ ELSE seen.status]
      stale == legs[l].sequence # 0 /\ seen.sequence <= legs[l].sequence
  IN  /\ poll[p] # IdlePoller
      /\ poll' = [poll EXCEPT ![p] = IdlePoller]
      /\ IF stale \/ OrderAfter(path) = Rolled
         THEN UNCHANGED <<status, legs, queue>>
         ELSE /\ status' = OrderAfter(path)
              /\ IF path # << >> /\ seen.status = "cancelled"
                 THEN Dispatch([legs EXCEPT ![l] = row])
                 ELSE legs' = [legs EXCEPT ![l] = row] /\ queue' = queue
      /\ UNCHANGED <<submit, job, cancel>>

-----------------------------------------------------------------------------
(* DeliveryReconcilerService.expireUnassigned and                          *)
(* AdminLogisticsService.fallbackToInHouse: read the leg, cancel with the  *)
(* courier if the leg has its id, close the leg.                           *)
BeginCancel(l) ==
  /\ cancel = NoCancel
  /\ legs[l].remote /\ legs[l].status \in {"requested", "assigned"}
  /\ cancel' = [leg |-> l, at |-> IF legs[l].booked THEN "asking" ELSE "closing"]
  /\ UNCHANGED <<status, legs, queue, submit, job, poll>>

(* External: past pickup the courier refuses; then the caller gives up. *)
CourierCancels ==
  LET l == cancel.leg
      open == job[l].status \in {"requested", "assigned"} IN
  /\ cancel.at = "asking" /\ (open => job[l].sequence < MaxSequence)
  /\ job' = IF open THEN [job EXCEPT ![l] = JobAfter(@, "cancelled")] ELSE job
  /\ cancel' = IF job'[l].status = "cancelled" THEN [cancel EXCEPT !.at = "closing"] ELSE NoCancel
  /\ UNCHANGED <<status, legs, queue, submit, poll>>

(* Mutant: the leg is closed without an event. *)
CancelLegSilently ==
  LET l == cancel.leg IN
  /\ cancel.at = "closing"
  /\ cancel' = NoCancel
  /\ Dispatch([legs EXCEPT ![l].status = "cancelled"])
  /\ UNCHANGED <<status, submit, job, poll>>

(* Mutant: the leg is closed wherever it is by now. *)
CancelLegAnywhere ==
  LET l == cancel.leg IN
  /\ cancel.at = "closing"
  /\ cancel' = NoCancel
  /\ status' = OrderAfter(<<"cancelled">>)
  /\ Dispatch([legs EXCEPT ![l].status = "cancelled"])
  /\ UNCHANGED <<submit, job, poll>>

CancelLeg ==
  LET l == cancel.leg IN
  /\ cancel.at = "closing"
  /\ cancel' = NoCancel
  /\ IF NextLegStatus(legs[l].status, "cancelled") = NoStatus
     THEN UNCHANGED <<status, legs, queue>>
     ELSE /\ status' = OrderAfter(<<"cancelled">>)
          /\ Dispatch([legs EXCEPT ![l].status = "cancelled"])
  /\ UNCHANGED <<submit, job, poll>>

(* A rider claims the order from the pool and hands it over at the         *)
(* counters.                                                               *)
PoolProgresses(l, event) ==
  /\ ~legs[l].remote /\ NextLegStatus(legs[l].status, event) # NoStatus
  /\ OrderAfter(<<event>>) # Rolled /\ CallsEndFirst(event)
  /\ legs' = [legs EXCEPT ![l].status = NextLegStatus(@, event)]
  /\ status' = OrderAfter(<<event>>)
  /\ UNCHANGED <<queue, submit, job, poll, cancel>>

Next ==
  \/ \E l \in DOMAIN legs :
       \/ \E w \in Workers : BeginSubmit(w, l)
       \/ Retry(l)
       \/ \E event \in DeliveryEvents : CourierProgresses(l, event)
       \/ \E p \in Pollers : ReadJob(p, l)
       \/ BeginCancel(l)
       \/ \E event \in {"assigned", "picked_up", "delivered"} : PoolProgresses(l, event)
  \/ \E w \in Workers :
       \/ CourierAccepts(w)
       \/ CourierRefuses(w)
       \/ SubmitFails(w)
       \/ RecordAccepted(w)
       \/ RecordRefused(w)
  \/ \E p \in Pollers : ApplySnapshot(p)
  \/ CourierCancels
  \/ CancelLeg

Spec == Init /\ [][Next]_vars

-----------------------------------------------------------------------------
(* What must hold. *)

Latest == legs[Len(legs)]

StatusOf(legStatus) ==
  CASE legStatus \in {"requested", "cancelled"} -> "parcel_received_at_origin"
    [] legStatus = "assigned"  -> "rider_assigned"
    [] legStatus = "picked_up" -> "in_transit"
    [] legStatus = "delivered" -> "arrived_at_destination"
    [] legStatus = "returning" -> "return_in_transit"
    [] legStatus = "returned"  -> "returned_to_origin"

(* "The leg never moves without the order moving with it"                  *)
(* (delivery-event-bus.ts): the order is where its latest leg is, through  *)
(* every race of refusals, reports and cancellations.                      *)
LegAndOrderAgree == status = StatusOf(Latest.status)

(* One courier at a time: a late answer for an abandoned leg never opens a *)
(* second active one, so the one-active-leg index has nothing to reject.   *)
OneActiveLeg == TypeOK /\ Cardinality(Active(legs)) <= 1

(* A leg that has seen the courier's latest change is where the courier    *)
(* is, unless we ended it, and stays there: no order of arrival of         *)
(* webhooks and polls puts an older report in place of a newer one.        *)
LegIsWhereCourierIs ==
  [][\A l \in DOMAIN legs :
       legs[l].sequence > 0 /\ legs[l].sequence = job[l].sequence =>
         /\ legs[l].status \in {job[l].status, "cancelled"}
         /\ legs'[l].sequence = legs[l].sequence /\ legs'[l].status \in {legs[l].status, "cancelled"}]_vars
==============================================================================
