----------------------------- MODULE Fulfilment ------------------------------
(***************************************************************************)
(* An order from checkout to collection, with everything its handlers keep *)
(* in step: the order row, its delivery leg, the shelf it lies on, the     *)
(* origin Node's slot counter and the rider's delivery counter.            *)
(*                                                                         *)
(* One action per handler.  Each is one database transaction that starts   *)
(* by locking the order's row or its leg's row, so it is atomic here; the  *)
(* windows that no lock covers (the payment provider's answer, the         *)
(* courier's answer to a booking) are the subject of PaymentIntents and    *)
(* CourierSubmission.                                                      *)
(*                                                                         *)
(* A transaction works on a view of the rows it touches and commits it if  *)
(* nothing in it threw: an exception anywhere rolls everything back.       *)
(***************************************************************************)
EXTENDS Integers, FiniteSets, Sequences, OrderStatus, DeliveryLeg

CONSTANTS
  Orders, Nodes, Riders,
  Providers,        \* courier providers, the in-house pool included
  InHouse,          \* the pool of Locoomo riders
  TimedProviders,   \* those configured with an assignTimeoutMinutes
  MaxAttempts,      \* legs per order routing allows a provider
  Capacity,         \* parcels a Node can hold
  MaxActiveOrders,  \* MAX_ACTIVE_ORDERS_PER_RIDER
  Origin, Destination,
  NoRider, NoNode, NoProvider

ASSUME FulfilmentAssumption ==
  /\ IsFiniteSet(Orders)
  /\ InHouse \in Providers /\ TimedProviders \subseteq Providers
  /\ MaxAttempts \in [Providers -> Nat]
  /\ Capacity \in [Nodes -> Nat] /\ MaxActiveOrders \in Nat
  /\ Origin \in [Orders -> Nodes] /\ Destination \in [Orders -> Nodes]
  /\ \A o \in Orders : Origin[o] # Destination[o]
  /\ NoRider \notin Riders /\ NoNode \notin Nodes /\ NoProvider \notin Providers

VARIABLES
  intent,        \* payment intent of each order-to-be
  status,        \* orders.status
  riderId,       \* orders.riderId
  shelf,         \* orders.shelfNodeId, shelfNumber
  leg,           \* the order's latest delivery leg; earlier ones are terminal
  attempts,      \* legs created per order and provider
  currentCount,  \* nodes.currentCount
  activeOrders   \* rider_profiles.currentActiveOrderCount

orderVars == <<status, riderId, shelf, leg, attempts>>
vars == <<intent, orderVars, currentCount, activeOrders>>

NoOrder == "no_order"
NoShelf == [node |-> NoNode, number |-> 0]
NoLeg   == [provider |-> NoProvider, status |-> NoStatus,
            courier |-> NoRider, booked |-> FALSE]

Shelves == [node : Nodes \cup {NoNode}, number : Nat]
Legs == [provider : Providers \cup {NoProvider},
         status : LegStatuses \cup {NoStatus},
         courier : Riders \cup {NoRider}, booked : BOOLEAN]

(* Every field holds what its column or enum can hold. *)
TypeOK ==
  /\ intent \in [Orders -> {"none", "pending", "paid", "expired"}]
  /\ status \in [Orders -> OrderStatuses \cup {NoOrder}]
  /\ riderId \in [Orders -> Riders \cup {NoRider}]
  /\ shelf \in [Orders -> Shelves]
  /\ leg \in [Orders -> Legs]
  /\ attempts \in [Orders -> [Providers -> Nat]]
  /\ currentCount \in [Nodes -> Nat]
  /\ activeOrders \in [Riders -> Nat]

Init ==
  /\ intent = [o \in Orders |-> "none"]
  /\ status = [o \in Orders |-> NoOrder]
  /\ riderId = [o \in Orders |-> NoRider]
  /\ shelf = [o \in Orders |-> NoShelf]
  /\ leg = [o \in Orders |-> NoLeg]
  /\ attempts = [o \in Orders |-> [p \in Providers |-> 0]]
  /\ currentCount = [n \in Nodes |-> 0]
  /\ activeOrders = [r \in Riders |-> 0]

-----------------------------------------------------------------------------
(* Transactions.  "held" is the origin Node's counter. *)

View(o) ==
  [status |-> status[o], riderId |-> riderId[o], shelf |-> shelf[o],
   leg |-> leg[o], attempts |-> attempts[o],
   held |-> currentCount[Origin[o]], active |-> activeOrders, ok |-> TRUE]

Commit(o, v) ==
  /\ v.ok
  /\ status' = [status EXCEPT ![o] = v.status]
  /\ riderId' = [riderId EXCEPT ![o] = v.riderId]
  /\ shelf' = [shelf EXCEPT ![o] = v.shelf]
  /\ leg' = [leg EXCEPT ![o] = v.leg]
  /\ attempts' = [attempts EXCEPT ![o] = v.attempts]
  /\ currentCount' = [currentCount EXCEPT ![Origin[o]] = v.held]
  /\ activeOrders' = v.active
  /\ UNCHANGED intent

(* GREATEST(count - 1, 0): a release never takes a counter below zero. *)
Released(count) == IF count > 0 THEN count - 1 ELSE 0

(* OrdersService.transition: the guarded UPDATE; anything else throws. *)
Transition(v, from, to) ==
  [v EXCEPT !.status = to,
            !.ok = v.ok /\ IsLegalTransition(from, to) /\ v.status = from]

(* Mutant: one more than the parcels there, which may be a number in use. *)
CountedShelf(n) == Cardinality({ o \in Orders : shelf[o].node = n }) + 1

(* The lowest number no parcel at the Node has; the advisory lock makes    *)
(* reading and taking it one step.                                         *)
LowestFreeShelf(n) ==
  LET here == { o \in Orders : shelf[o].node = n }
      free == { k \in 1 .. (Cardinality(here) + 1) :
                  \A o \in here : shelf[o].number # k }
  IN  CHOOSE k \in free : \A j \in free : k <= j

PlaceOnShelf(v, n) == [v EXCEPT !.shelf = [node |-> n, number |-> LowestFreeShelf(n)]]
ClearShelf(v) == [v EXCEPT !.shelf = NoShelf]

ReleaseNodeSlot(v) == [v EXCEPT !.held = Released(@)]
HoldReturnedParcel(v) == [v EXCEPT !.held = @ + 1]
ReleaseRiderSlot(v, r) == IF r = NoRider THEN v
                          ELSE [v EXCEPT !.active[r] = Released(@)]

IsActive(l) == l.status \in ActiveLegStatuses

(* A new leg, waiting for a courier. *)
Request(v, p) ==
  [v EXCEPT !.leg = [provider |-> p, status |-> "requested",
                     courier |-> NoRider, booked |-> FALSE],
            !.attempts[p] = @ + 1]

(* The views DeliveryDispatchService.dispatch can end in.  An active leg   *)
(* is kept.  Otherwise routing picks a provider with attempts left, which  *)
(* one depending on what is enabled and serves the route today, or none,   *)
(* and the order waits; an Admin's fallback names the provider.            *)
Dispatch(v, routeTo) ==
  IF IsActive(v.leg) THEN {v}
  ELSE IF routeTo # NoProvider THEN {Request(v, routeTo)}
  ELSE {v} \cup { Request(v, p) : p \in { q \in Providers : v.attempts[q] < MaxAttempts[q] } }

-----------------------------------------------------------------------------
(* DeliveryProgressListener: what a leg's event does to the order, the     *)
(* Node and the rider, in the leg's own transaction.                       *)

(* Mutant: the order forgets which rider claimed it. *)
OnAssignedAnonymously(v) == Transition(v, "parcel_received_at_origin", "rider_assigned")

OnAssigned(v) ==
  LET w == Transition(v, "parcel_received_at_origin", "rider_assigned")
  IN  IF v.leg.courier = NoRider THEN w
      ELSE [w EXCEPT !.riderId = v.leg.courier, !.ok = w.ok /\ v.riderId = NoRider]

OnPickedUp(v) ==
  ReleaseNodeSlot(ClearShelf(Transition(v, "rider_assigned", "in_transit")))

(* Mutant: the rider's slot is never given back. *)
OnDeliveredStillBusy(v) == Transition(v, "in_transit", "arrived_at_destination")

OnDelivered(v) ==
  ReleaseRiderSlot(Transition(v, "in_transit", "arrived_at_destination"), v.leg.courier)

(* Mutant: the listener ignores a dropped job. *)
OnReleasedUnnoticed(v) == v

OnReleasedOrCancelled(v) ==
  IF v.status # "rider_assigned" THEN v
  ELSE [Transition(v, "rider_assigned", "parcel_received_at_origin")
          EXCEPT !.riderId = NoRider]

OnReturning(v) ==
  Transition(Transition(v, "in_transit", "return_initiated"),
             "return_initiated", "return_in_transit")

(* Mutant: a parcel that comes back takes no slot. *)
OnReturnedWithoutSlot(v) ==
  ReleaseRiderSlot(Transition(v, "return_in_transit", "returned_to_origin"), v.leg.courier)

OnReturned(v) ==
  ReleaseRiderSlot(
    HoldReturnedParcel(Transition(v, "return_in_transit", "returned_to_origin")),
    v.leg.courier)

OnDeliveryEvent(v, event) ==
  CASE event = "assigned"  -> OnAssigned(v)
    [] event = "picked_up" -> OnPickedUp(v)
    [] event = "delivered" -> OnDelivered(v)
    [] event \in {"released", "cancelled"} -> OnReleasedOrCancelled(v)
    [] event = "returning" -> OnReturning(v)
    [] event = "returned"  -> OnReturned(v)
    [] OTHER -> v

(* DeliveryEventsService.apply, but for the re-dispatch after a            *)
(* cancellation: an event that does not apply changes nothing.             *)
Apply(v, event) ==
  LET next == NextLegStatus(v.leg.status, event)
      moved == [v.leg EXCEPT !.status = next,
                             !.courier = IF event = "released" THEN NoRider ELSE @]
  IN  IF next = NoStatus THEN v ELSE OnDeliveryEvent([v EXCEPT !.leg = moved], event)

(* A path of at most MaxCatchUp events, applied in order. *)
Replay(v, path) ==
  LET event(k) == IF k <= Len(path) THEN path[k] ELSE NoStatus
  IN  Apply(Apply(Apply(Apply(v, event(1)), event(2)), event(3)), event(4))

-----------------------------------------------------------------------------
(* Checkout.  PaymentIntents has the steps these stand for. *)

(* Mutant: an off-by-one in the capacity check. *)
CreateWhenFull(o) ==
  /\ intent[o] = "none"
  /\ currentCount[Origin[o]] <= Capacity[Origin[o]]
  /\ intent' = [intent EXCEPT ![o] = "pending"]
  /\ currentCount' = [currentCount EXCEPT ![Origin[o]] = @ + 1]
  /\ UNCHANGED <<orderVars, activeOrders>>

CreatePaymentIntent(o) ==
  /\ intent[o] = "none"
  /\ currentCount[Origin[o]] < Capacity[Origin[o]]
  /\ intent' = [intent EXCEPT ![o] = "pending"]
  /\ currentCount' = [currentCount EXCEPT ![Origin[o]] = @ + 1]
  /\ UNCHANGED <<orderVars, activeOrders>>

ConfirmPaymentIntentPaid(o) ==
  /\ intent[o] = "pending"
  /\ intent' = [intent EXCEPT ![o] = "paid"]
  /\ status' = [status EXCEPT ![o] = "awaiting_drop_off"]
  /\ UNCHANGED <<riderId, shelf, leg, attempts, currentCount, activeOrders>>

ExpirePaymentIntent(o) ==
  /\ intent[o] = "pending"
  /\ intent' = [intent EXCEPT ![o] = "expired"]
  /\ currentCount' = [currentCount EXCEPT ![Origin[o]] = Released(@)]
  /\ UNCHANGED <<orderVars, activeOrders>>

(* The counters.  Each confirmation is named twice: the view its           *)
(* transaction ends in, which is ok if the server accepts the              *)
(* confirmation, and the handler that commits it.                          *)

DroppedOff(o) ==
  LET v == PlaceOnShelf(Transition(View(o), "awaiting_drop_off", "parcel_received_at_origin"),
                        Origin[o])
  IN  Dispatch(v, NoProvider)
ConfirmDropOff(o) == \E w \in DroppedOff(o) : Commit(o, w)

(* Mutant: the parcel is shelved at the wrong Node. *)
ShelvedAtOrigin(o) ==
  Commit(o, PlaceOnShelf(Transition(View(o), "arrived_at_destination", "ready_for_collection"),
                         Origin[o]))

TakenIn(o) ==
  PlaceOnShelf(Transition(View(o), "arrived_at_destination", "ready_for_collection"),
               Destination[o])
ConfirmIntake(o) == Commit(o, TakenIn(o))

HandedOut(o) == ClearShelf(Transition(View(o), "ready_for_collection", "completed"))
ConfirmCollection(o) == Commit(o, HandedOut(o))

TakenBack(o) ==
  PlaceOnShelf(Transition(View(o), "returned_to_origin", "ready_for_sender_collection"),
               Origin[o])
ReturnIntake(o) == Commit(o, TakenBack(o))

HandedBack(o) ==
  ReleaseNodeSlot(ClearShelf(
    Transition(View(o), "ready_for_sender_collection", "return_completed")))
ReturnCollection(o) == Commit(o, HandedBack(o))

(* The in-house pool. *)

Offered(o, r) ==
  LET reserved == [View(o) EXCEPT !.active[r] = @ + 1]
  IN  IF IsActive(leg[o]) THEN reserved ELSE Request(reserved, InHouse)
Claimed(o, r) == Apply([Offered(o, r) EXCEPT !.leg.courier = r], "assigned")

MayClaim(o, r) ==
  /\ activeOrders[r] < MaxActiveOrders
  /\ Offered(o, r).leg.provider = InHouse /\ Offered(o, r).leg.status = "requested"
  /\ Claimed(o, r).ok
AcceptOrder(o, r) == MayClaim(o, r) /\ Commit(o, Claimed(o, r))

(* An operator enters the code that was issued to the order's rider. *)
Carried(o, event) ==
  LET legacy == [Request(View(o), InHouse) EXCEPT
                   !.leg.status = IF event = "picked_up" THEN "assigned" ELSE "picked_up",
                   !.leg.courier = riderId[o]]
  IN  IF IsActive(leg[o]) THEN View(o) ELSE legacy
HandedOver(o, event) == Apply(Carried(o, event), event)

MayHandOver(o, event) ==
  /\ riderId[o] # NoRider
  /\ Carried(o, event).leg.provider = InHouse
  /\ NextLegStatus(Carried(o, event).leg.status, event) # NoStatus
  /\ HandedOver(o, event).ok
ConfirmHandoff(o, event) == MayHandOver(o, event) /\ Commit(o, HandedOver(o, event))

(* External couriers. *)

(* The booking was accepted: the leg has the courier's id from now on. *)
SubmitAccepted(o) ==
  /\ leg[o].provider \in Providers \ {InHouse} /\ ~leg[o].booked
  /\ leg[o].status \in {"requested", "cancelled"}
  /\ leg' = [leg EXCEPT ![o].booked = TRUE]
  /\ UNCHANGED <<intent, status, riderId, shelf, attempts, currentCount, activeOrders>>

(* Mutant: a late refusal closes a leg the courier already works on. *)
RefuseAtAnyTime(o) ==
  /\ leg[o].provider \in Providers \ {InHouse}
  /\ \E w \in Dispatch([View(o) EXCEPT !.leg.status = "cancelled"], NoProvider) : Commit(o, w)

(* The booking was refused: the leg is closed by a plain UPDATE, with no   *)
(* event for the listener, and the order routed onward.                    *)
SubmitRefused(o) ==
  /\ leg[o].provider \in Providers \ {InHouse} /\ ~leg[o].booked
  /\ leg[o].status \in {"requested", "cancelled"}
  /\ \E w \in Dispatch([View(o) EXCEPT !.leg.status = "cancelled"], NoProvider) : Commit(o, w)

(* A webhook or a poll says where the delivery is now. *)
SyncFromSnapshot(o, reported) ==
  LET path == EventsToReach(leg[o].status, reported)
      v == Replay(View(o), path)
  IN  /\ leg[o].provider \in Providers \ {InHouse} /\ leg[o].booked
      /\ path # << >>
      /\ \E w \in IF v.leg.status = "cancelled" THEN Dispatch(v, NoProvider) ELSE {v} :
           Commit(o, w)

(* No rider in time.  The leg was read while "requested", before the       *)
(* courier was asked to cancel, so it may be "assigned" by now.            *)
ExpireUnassigned(o) ==
  /\ leg[o].provider \in TimedProviders
  /\ NextLegStatus(leg[o].status, "cancelled") # NoStatus
  /\ \E w \in Dispatch(Apply(View(o), "cancelled"), NoProvider) : Commit(o, w)

(* An Admin takes the order away from an external courier. *)
FallbackToInHouse(o) ==
  /\ leg[o].provider \in Providers \ {InHouse}
  /\ NextLegStatus(leg[o].status, "cancelled") # NoStatus
  /\ \E w \in Dispatch(Apply(View(o), "cancelled"), InHouse) : Commit(o, w)

Next ==
  \E o \in Orders :
    \/ CreatePaymentIntent(o)
    \/ ConfirmPaymentIntentPaid(o)
    \/ ExpirePaymentIntent(o)
    \/ ConfirmDropOff(o)
    \/ ConfirmIntake(o)
    \/ ConfirmCollection(o)
    \/ ReturnIntake(o)
    \/ ReturnCollection(o)
    \/ \E r \in Riders : AcceptOrder(o, r)
    \/ \E event \in {"picked_up", "delivered"} : ConfirmHandoff(o, event)
    \/ SubmitAccepted(o)
    \/ SubmitRefused(o)
    \/ \E reported \in LegStatuses : SyncFromSnapshot(o, reported)
    \/ ExpireUnassigned(o)
    \/ FallbackToInHouse(o)

Spec == Init /\ [][Next]_vars

-----------------------------------------------------------------------------
(* What must hold. *)

(* The leg statuses an order's status allows. *)
LegStatusesOf(s) ==
  CASE s \in {NoOrder, "awaiting_drop_off"} -> {NoStatus}
    [] s = "parcel_received_at_origin" -> {NoStatus, "requested", "cancelled"}
    [] s = "rider_assigned" -> {"assigned"}
    [] s = "in_transit" -> {"picked_up"}
    [] s \in {"arrived_at_destination", "ready_for_collection", "completed"} -> {"delivered"}
    [] s = "return_in_transit" -> {"returning"}
    [] s \in {"returned_to_origin", "ready_for_sender_collection", "return_completed"} -> {"returned"}
    [] OTHER -> {}

(* The order and its leg move together: whatever mix of webhooks, polls,   *)
(* counter confirmations, refusals and timeouts arrives, an order's status *)
(* is the one its leg's status implies ("the leg never moves without the   *)
(* order moving with it", delivery-event-bus.ts).                          *)
LegAndOrderAgree == \A o \in Orders : leg[o].status \in LegStatusesOf(status[o])

OutboundHolding == {"awaiting_drop_off", "parcel_received_at_origin", "rider_assigned"}
ReturnHolding == {"returned_to_origin", "ready_for_sender_collection"}

HoldsOutboundSlot(o) ==
  intent[o] = "pending" \/ (intent[o] = "paid" /\ status[o] \in OutboundHolding)
HoldsSlot(o) ==
  HoldsOutboundSlot(o) \/ (intent[o] = "paid" /\ status[o] \in ReturnHolding)

(* The admin capacity audit finds no Node whose counter differs from the   *)
(* intents and orders that hold a slot there, after any sequence of        *)
(* reservations, pickups, expiries and returns.                            *)
NodeAuditClean ==
  \A n \in Nodes : currentCount[n] = Cardinality({o \in Orders : Origin[o] = n /\ HoldsSlot(o)})

Carries(r, o) == riderId[o] = r /\ status[o] \in {"rider_assigned", "in_transit"}

(* The rider half of the audit: a rider's counter is the number of orders  *)
(* the rider has claimed and not yet handed over.                          *)
RiderAuditClean ==
  \A r \in Riders : activeOrders[r] = Cardinality({o \in Orders : Carries(r, o)})

WithinCapacity ==
  \A n \in Nodes :
    Cardinality({o \in Orders : Origin[o] = n /\ HoldsOutboundSlot(o)}) <= Capacity[n]

(* Every row holds what its column can, no counter is negative, and a Node *)
(* is never promised to more outgoing parcels than it can hold: parcels    *)
(* coming back may push the counter over capacity, bookings never.         *)
NeverOverbooked == TypeOK /\ WithinCapacity

(* Two parcels at a Node never share a shelf number (the unique index is   *)
(* only the backstop), and a parcel has a shelf number exactly while it    *)
(* lies at a counter, at the Node where it lies.                           *)
ShelfOf(o) ==
  CASE status[o] \in {"parcel_received_at_origin", "rider_assigned",
                      "ready_for_sender_collection"} -> Origin[o]
    [] status[o] = "ready_for_collection" -> Destination[o]
    [] OTHER -> NoNode

ShelvesConsistent ==
  /\ \A o \in Orders : shelf[o].node = ShelfOf(o) /\ (ShelfOf(o) = NoNode => shelf[o] = NoShelf)
  /\ \A o1, o2 \in Orders :
       o1 # o2 /\ shelf[o1].node = shelf[o2].node /\ shelf[o1].node # NoNode
         => shelf[o1].number # shelf[o2].number

(* The rider whose share of the fare ConfirmCollection records is the one  *)
(* who carried the parcel: orders.riderId is the leg's courier, and is     *)
(* empty when an external courier has the leg.                             *)
RiderIsTheCourier ==
  \A o \in Orders :
    leg[o].status \in {"assigned", "picked_up", "delivered"} => riderId[o] = leg[o].courier

(* Once a parcel has left the origin counter it is never routed again, and *)
(* a finished order never changes.                                         *)
LeftOrigin == {"in_transit", "arrived_at_destination", "ready_for_collection", "completed",
               "return_in_transit", "returned_to_origin", "ready_for_sender_collection",
               "return_completed"}
NoSecondCourier ==
  [][\A o \in Orders :
       /\ status[o] \in LeftOrigin => attempts'[o] = attempts[o]
       /\ status[o] \in {"completed", "return_completed"} =>
            <<status[o], riderId[o], leg[o]>>' = <<status[o], riderId[o], leg[o]>>]_vars
==============================================================================
