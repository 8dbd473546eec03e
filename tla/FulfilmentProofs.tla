--------------------------- MODULE FulfilmentProofs ---------------------------
(***************************************************************************)
(* Theorems about Fulfilment and what it implements, shows and records     *)
(* (FulfilmentCustody, OrderViews, OrderHistory), for any number of        *)
(* orders, Nodes, riders and providers, any capacity and any limits.       *)
(*                                                                         *)
(* A handler turns the view of one order's rows into another.  Each lemma  *)
(* about a part of a handler says that it keeps the view in step with the  *)
(* rows the handler started from (InStep); the lemma about Commit turns    *)
(* that into the invariant of the whole system, where the counters are     *)
(* cardinalities of sets of orders.  Three parts: the legs and the Nodes'  *)
(* counters (NodeInv); riders and shelves, kept on top of NodeInv; the     *)
(* road of the parcel, which follows from shelf and leg, and from it what  *)
(* people are shown of the parcel and told about it.                       *)
(***************************************************************************)
EXTENDS OrderHistory, FiniteSetTheorems, TLAPS

Statuses == OrderStatuses \cup {NoOrder}

Views ==
  [status : Statuses, riderId : Riders \cup {NoRider}, shelf : Shelves, leg : Legs,
   attempts : [Providers -> Nat], held : Nat, active : [Riders -> Nat], ok : BOOLEAN]

Slot(s) == IF s \in OutboundHolding \cup ReturnHolding THEN 1 ELSE 0

(* A view that may still be committed agrees with its leg, and has changed *)
(* the counter exactly as it has changed what the order holds.             *)
InStep(o, v) ==
  v.ok =>
    /\ v.leg.status \in LegStatusesOf(v.status)
    /\ v.held + Slot(status[o]) = currentCount[Origin[o]] + Slot(v.status)
    /\ v.held >= Slot(v.status)
    /\ v.status \in OutboundHolding => status[o] \in OutboundHolding
    /\ (v.status = NoOrder) <=> (status[o] = NoOrder)

PaidHasOrder == \A o \in Orders : intent[o] = "paid" <=> status[o] # NoOrder

(* The inductive invariant of the Node's half.  NodeAuditClean and         *)
(* LegAndOrderAgree need each other: a pickup gives back a slot because    *)
(* the leg was "assigned", and only LegAndOrderAgree says that the order   *)
(* still held one.                                                         *)
NodeInv ==
  TypeOK /\ PaidHasOrder /\ LegAndOrderAgree /\ NodeAuditClean /\ WithinCapacity

-----------------------------------------------------------------------------
(* Counting. *)

(* Two sets that differ at most in x differ in size by x's membership. *)
LEMMA CountChange ==
  ASSUME NEW S, IsFiniteSet(S), NEW T, NEW x, S \ {x} = T \ {x}
  PROVE  /\ IsFiniteSet(T)
         /\ Cardinality(S) \in Nat /\ Cardinality(T) \in Nat
         /\ Cardinality(T) + (IF x \in S THEN 1 ELSE 0)
              = Cardinality(S) + (IF x \in T THEN 1 ELSE 0)
         /\ x \in S => Cardinality(S) >= 1
<1>1. IsFiniteSet(S \ {x}) /\ Cardinality(S \ {x}) =
        IF x \in S THEN Cardinality(S) - 1 ELSE Cardinality(S)
  BY FS_RemoveElement
<1>2. IsFiniteSet(T)
  <2>1. CASE x \in T
    <3>1. T = (S \ {x}) \cup {x}
      BY <2>1
    <3> QED BY <1>1, <3>1, FS_AddElement
  <2>2. CASE x \notin T
    BY <1>1, <2>2, T = S \ {x}
  <2> QED BY <2>1, <2>2
<1>3. Cardinality(T \ {x}) = IF x \in T THEN Cardinality(T) - 1 ELSE Cardinality(T)
  BY <1>2, FS_RemoveElement
<1>4. /\ Cardinality(S) \in Nat /\ Cardinality(T) \in Nat
      /\ Cardinality(S \ {x}) \in Nat
  BY <1>1, <1>2, FS_CardinalityType
<1> QED BY <1>1, <1>2, <1>3, <1>4

(* Every set of naturals that has a member has a least one. *)
LEMMA LeastNatural ==
  ASSUME NEW S \in SUBSET Nat, S # {}
  PROVE  \E k \in S : \A j \in S : k <= j
<1> DEFINE less == { p \in Nat \X Nat : p[1] < p[2] }
<1>1. OpToRel(<, Nat) = less
  BY DEF OpToRel
<1>2. IsWellFoundedOn(less, Nat)
  BY <1>1, NatLessThanWellFounded
<1> HIDE DEF less
<1>3. PICK k \in S : \A j \in S : ~ (<<j, k>> \in less)
  BY <1>2, WFMin
<1>4. \A j \in S : ~ (j < k)
  BY <1>3 DEF less
<1> QED BY <1>4

(* Among one more number than there are members, one is not taken. *)
LEMMA FreeNumber ==
  ASSUME NEW S, IsFiniteSet(S), NEW f \in [S -> Nat]
  PROVE  { k \in 1 .. (Cardinality(S) + 1) : \A x \in S : f[x] # k } # {}
<1> DEFINE taken == { f[x] : x \in S }
           all == 1 .. (Cardinality(S) + 1)
<1>1. f \in Surjection(S, taken)
  BY DEF Surjection
<1>2. IsFiniteSet(taken) /\ Cardinality(taken) <= Cardinality(S)
  BY <1>1, FS_Surjection
<1>3. Cardinality(S) \in Nat /\ Cardinality(taken) \in Nat
  BY <1>2, FS_CardinalityType
<1>4. Cardinality(all) = Cardinality(S) + 1
  BY <1>3, FS_Interval
<1>5. ~ (all \subseteq taken)
  <2>1. all \subseteq taken => Cardinality(all) <= Cardinality(taken)
    BY <1>2, FS_Subset
  <2> QED BY <1>2, <1>3, <1>4, <2>1
<1> QED BY <1>5

LEMMA LowestFreeShelfIsFree ==
  ASSUME TypeOK, NEW n
  PROVE  /\ LowestFreeShelf(n) \in Nat
         /\ \A o \in Orders : shelf[o].node = n => shelf[o].number # LowestFreeShelf(n)
<1> DEFINE here == { o \in Orders : shelf[o].node = n }
           f == [o \in here |-> shelf[o].number]
           free == { k \in 1 .. (Cardinality(here) + 1) : \A o \in here : shelf[o].number # k }
<1>1. IsFiniteSet(here)
  BY FulfilmentAssumption, FS_Subset
<1>2. f \in [here -> Nat]
  BY DEF TypeOK, Shelves
<1>3. { k \in 1 .. (Cardinality(here) + 1) : \A o \in here : f[o] # k } # {}
  <2> HIDE DEF here, f
  <2> QED BY <1>1, <1>2, FreeNumber
<1>4. free # {} /\ free \subseteq Nat
  <2>1. \A o \in here : f[o] = shelf[o].number
    OBVIOUS
  <2>2. Cardinality(here) \in Nat
    <3> HIDE DEF here
    <3> QED BY <1>1, FS_CardinalityType
  <2> HIDE DEF here, f
  <2> QED BY <1>3, <2>1, <2>2
<1>5. \E k \in free : \A j \in free : k <= j
  <2> HIDE DEF free
  <2> QED BY <1>4, LeastNatural
<1>6. LowestFreeShelf(n) \in free
  BY <1>5 DEF LowestFreeShelf
<1> QED BY <1>4, <1>6

-----------------------------------------------------------------------------
(* The legs' graph. *)

LEMMA NextLegStatusType ==
  ASSUME NEW s, NEW e
  PROVE  /\ NextLegStatus(s, e) \in LegStatuses \cup {NoStatus}
         /\ NextLegStatus(s, e) # NoStatus =>
              \E r \in LegTransitions : r.event = e /\ s \in r.from /\ NextLegStatus(s, e) = r.to
         /\ NextLegStatus(s, e) = NoStatus =>
              ~ \E r \in LegTransitions : r.event = e /\ s \in r.from
<1> DEFINE rules == { r \in LegTransitions : r.event = e /\ s \in r.from }
<1>1. CASE rules = {}
  BY <1>1 DEF NextLegStatus, NoStatus
<1>2. CASE rules # {}
  <2>1. PICK r \in rules : r = (CHOOSE q \in rules : TRUE)
    BY <1>2
  <2>2. NextLegStatus(s, e) = r.to
    BY <1>2, <2>1 DEF NextLegStatus
  <2>3. r \in LegTransitions /\ r.event = e /\ s \in r.from
    BY <2>1
  <2>4. \A q \in LegTransitions : q.to \in LegStatuses /\ q.to # NoStatus
    BY DEF LegTransitions, LegStatuses, NoStatus
  <2> QED BY <2>2, <2>3, <2>4
<1> QED BY <1>1, <1>2

(* What an event that applies means: where the leg was and where it is. *)
Moves(e, s, t) ==
  \/ e = "assigned"       /\ s = "requested" /\ t = "assigned"
  \/ e = "released"       /\ s = "assigned"  /\ t = "requested"
  \/ e = "picked_up"      /\ s = "assigned"  /\ t = "picked_up"
  \/ e = "attempt_failed" /\ s = "picked_up" /\ t = "picked_up"
  \/ e = "delivered"      /\ s = "picked_up" /\ t = "delivered"
  \/ e = "returning"      /\ s = "picked_up" /\ t = "returning"
  \/ e = "returned"       /\ s = "returning" /\ t = "returned"
  \/ e = "cancelled"      /\ s \in {"requested", "assigned"} /\ t = "cancelled"

LEMMA NextLegStatusCases ==
  ASSUME NEW s, NEW e, NextLegStatus(s, e) # NoStatus
  PROVE  Moves(e, s, NextLegStatus(s, e))
<1>1. PICK r \in LegTransitions : r.event = e /\ s \in r.from /\ NextLegStatus(s, e) = r.to
  BY NextLegStatusType
<1> QED BY <1>1 DEF LegTransitions, Moves

-----------------------------------------------------------------------------
(* What the parts of a handler do to a view. *)

LEMMA ReleasedType ==
  ASSUME NEW n \in Nat
  PROVE  Released(n) \in Nat /\ Released(n) <= n /\ (n >= 1 => Released(n) = n - 1)
BY DEF Released

Requested(v, q, w) ==
  /\ w \in Views
  /\ w.status = v.status /\ w.riderId = v.riderId /\ w.shelf = v.shelf
  /\ w.held = v.held /\ w.active = v.active /\ w.ok = v.ok
  /\ w.leg = [provider |-> q, status |-> "requested", courier |-> NoRider, booked |-> FALSE]

LEMMA RequestEffect ==
  ASSUME NEW v \in Views, NEW q \in Providers, NEW w, w = Request(v, q)
  PROVE  Requested(v, q, w)
<1> DEFINE l == [provider |-> q, status |-> "requested", courier |-> NoRider, booked |-> FALSE]
           a == [v.attempts EXCEPT ![q] = v.attempts[q] + 1]
<1>1. a \in [Providers -> Nat]
  BY DEF Views
<1>2. l \in Legs
  BY DEF Legs, LegStatuses
<1>3. w = [v EXCEPT !.leg = l, !.attempts = a]
  BY DEF Request, Views
<1> HIDE DEF l, a
<1>4. w \in Views
  BY <1>1, <1>2, <1>3 DEF Views
<1>5. /\ w.status = v.status /\ w.riderId = v.riderId /\ w.shelf = v.shelf
      /\ w.held = v.held /\ w.active = v.active /\ w.leg = l
  BY <1>3 DEF Views
<1>6. w.ok = v.ok
  BY <1>3 DEF Views
<1> QED BY <1>4, <1>5, <1>6 DEF l, Requested

LEMMA ReleaseRiderSlotEffect ==
  ASSUME NEW v \in Views, NEW r \in Riders \cup {NoRider}, NEW u, u = ReleaseRiderSlot(v, r)
  PROVE  /\ u \in Views
         /\ u.status = v.status /\ u.riderId = v.riderId /\ u.shelf = v.shelf
         /\ u.attempts = v.attempts
         /\ u.leg = v.leg /\ u.held = v.held /\ u.ok = v.ok
         /\ r = NoRider => u.active = v.active
         /\ r # NoRider => u.active = [v.active EXCEPT ![r] = Released(v.active[r])]
<1>1. CASE r = NoRider
  BY <1>1 DEF ReleaseRiderSlot, Views
<1>2. CASE r # NoRider
  <2>1. v.active \in [Riders -> Nat] /\ r \in Riders
    BY <1>2 DEF Views
  <2>2. [v.active EXCEPT ![r] = Released(v.active[r])] \in [Riders -> Nat]
    BY <2>1, ReleasedType
  <2>3. u = [v EXCEPT !.active = [v.active EXCEPT ![r] = Released(v.active[r])]]
    BY <1>2 DEF ReleaseRiderSlot, Views
  <2> QED BY <1>2, <2>2, <2>3 DEF Views
<1> QED BY <1>1, <1>2

(* What an event that applies does: to the leg, and through the listener   *)
(* to the order, the counter and the rider.                                *)
Effect(v, e, u) ==
  /\ u \in Views
  /\ u.ok => v.ok
  /\ u.leg.provider = v.leg.provider /\ u.leg.booked = v.leg.booked
  /\ u.shelf = IF e = "picked_up" THEN NoShelf ELSE v.shelf
  /\ u.attempts = v.attempts
  /\ e = "released" => u.leg.courier = NoRider
  /\ e # "released" => u.leg.courier = v.leg.courier
  /\ \/ /\ e = "assigned" /\ v.leg.status = "requested" /\ u.leg.status = "assigned"
        /\ u.status = "rider_assigned" /\ u.held = v.held /\ u.active = v.active
        /\ u.ok => /\ v.status = "parcel_received_at_origin"
                   /\ v.leg.courier = NoRider => u.riderId = v.riderId
                   /\ v.leg.courier # NoRider =>
                        v.riderId = NoRider /\ u.riderId = v.leg.courier
     \/ /\ \/ e = "released" /\ v.leg.status = "assigned" /\ u.leg.status = "requested"
           \/ /\ e = "cancelled" /\ v.leg.status \in {"requested", "assigned"}
              /\ u.leg.status = "cancelled"
        /\ u.held = v.held /\ u.active = v.active
        /\ \/ v.status # "rider_assigned" /\ u.status = v.status /\ u.riderId = v.riderId
           \/ /\ v.status = "rider_assigned"
              /\ u.status = "parcel_received_at_origin" /\ u.riderId = NoRider
     \/ /\ e = "picked_up" /\ v.leg.status = "assigned" /\ u.leg.status = "picked_up"
        /\ u.status = "in_transit" /\ u.riderId = v.riderId
        /\ u.held = Released(v.held) /\ u.active = v.active
        /\ u.ok => v.status = "rider_assigned"
     \/ /\ e = "attempt_failed" /\ v.leg.status = "picked_up" /\ u.leg.status = "picked_up"
        /\ u.status = v.status /\ u.riderId = v.riderId
        /\ u.held = v.held /\ u.active = v.active
     \/ /\ e = "delivered" /\ v.leg.status = "picked_up" /\ u.leg.status = "delivered"
        /\ u.status = "arrived_at_destination" /\ u.riderId = v.riderId
        /\ u.held = v.held
        /\ v.leg.courier = NoRider => u.active = v.active
        /\ v.leg.courier # NoRider =>
             u.active = [v.active EXCEPT ![v.leg.courier] = Released(v.active[v.leg.courier])]
        /\ u.ok => v.status = "in_transit"
     \/ /\ e = "returning" /\ v.leg.status = "picked_up" /\ u.leg.status = "returning"
        /\ u.status = "return_in_transit" /\ u.riderId = v.riderId
        /\ u.held = v.held /\ u.active = v.active
        /\ u.ok => v.status = "in_transit"
     \/ /\ e = "returned" /\ v.leg.status = "returning" /\ u.leg.status = "returned"
        /\ u.status = "returned_to_origin" /\ u.riderId = v.riderId
        /\ u.held = v.held + 1
        /\ v.leg.courier = NoRider => u.active = v.active
        /\ v.leg.courier # NoRider =>
             u.active = [v.active EXCEPT ![v.leg.courier] = Released(v.active[v.leg.courier])]
        /\ u.ok => v.status = "return_in_transit"

LEMMA ApplyEffect ==
  ASSUME NEW v \in Views, NEW e, NextLegStatus(v.leg.status, e) # NoStatus,
         NEW u, u = Apply(v, e)
  PROVE  Effect(v, e, u)
<1> DEFINE next == NextLegStatus(v.leg.status, e)
           courier == IF e = "released" THEN NoRider ELSE v.leg.courier
           w == [v EXCEPT !.leg = [v.leg EXCEPT !.status = next, !.courier = courier]]
<1>0. Moves(e, v.leg.status, next)
  BY NextLegStatusCases
<1>1. u = OnDeliveryEvent(w, e)
  BY DEF Apply
<1>2. next \in LegStatuses \cup {NoStatus}
  BY NextLegStatusType
<1>3. v.leg \in Legs /\ courier \in Riders \cup {NoRider}
  BY DEF Views, Legs
<1>4. /\ w \in Views /\ w.ok = v.ok /\ w.status = v.status /\ w.riderId = v.riderId
      /\ w.held = v.held /\ w.active = v.active /\ w.shelf = v.shelf
      /\ w.attempts = v.attempts
      /\ w.leg.provider = v.leg.provider /\ w.leg.courier = courier /\ w.leg.status = next
      /\ w.leg.booked = v.leg.booked
  BY <1>2, <1>3 DEF Views, Legs
<1> HIDE DEF w, next, courier
<1>5. /\ {"rider_assigned", "in_transit", "arrived_at_destination", "return_initiated",
          "return_in_transit", "returned_to_origin", "parcel_received_at_origin"}
           \subseteq Statuses
      /\ w.held \in Nat /\ Released(w.held) \in Nat /\ w.leg.courier \in Riders \cup {NoRider}
  <2>1. w.held \in Nat /\ w.leg.courier \in Riders \cup {NoRider}
    BY <1>4 DEF Views, Legs
  <2> QED BY <2>1, ReleasedType DEF Statuses, OrderStatuses
<1>6. CASE e = "assigned"
  <2> DEFINE t == Transition(w, "parcel_received_at_origin", "rider_assigned")
  <2>1. /\ t \in Views /\ t.status = "rider_assigned" /\ t.riderId = w.riderId
        /\ t.held = w.held /\ t.active = w.active /\ t.leg = w.leg /\ t.shelf = w.shelf
        /\ t.attempts = w.attempts
        /\ t.ok => w.ok /\ w.status = "parcel_received_at_origin"
    BY <1>4, <1>5 DEF Transition, Views
  <2>2. u = IF w.leg.courier = NoRider THEN t
            ELSE [t EXCEPT !.riderId = w.leg.courier, !.ok = t.ok /\ w.riderId = NoRider]
    BY <1>1, <1>6 DEF OnDeliveryEvent, OnAssigned
  <2> HIDE DEF t
  <2>3. CASE w.leg.courier = NoRider
    BY <1>0, <1>4, <1>6, <2>1, <2>2, <2>3 DEF courier, Effect, Moves
  <2>4. CASE w.leg.courier # NoRider
    <3>1. /\ u \in Views /\ u.status = t.status /\ u.riderId = w.leg.courier /\ u.leg = t.leg
          /\ u.held = t.held /\ u.active = t.active /\ u.shelf = t.shelf
          /\ u.attempts = t.attempts
          /\ u.ok => t.ok /\ w.riderId = NoRider
      BY <1>5, <2>1, <2>2, <2>4 DEF Views
    <3> QED BY <1>0, <1>4, <1>6, <2>1, <2>4, <3>1 DEF courier, Effect, Moves
  <2> QED BY <2>3, <2>4
<1>7. CASE e \in {"released", "cancelled"}
  <2> DEFINE t == Transition(w, "rider_assigned", "parcel_received_at_origin")
  <2>1. /\ t \in Views /\ t.status = "parcel_received_at_origin" /\ t.riderId = w.riderId
        /\ t.held = w.held /\ t.active = w.active /\ t.leg = w.leg /\ t.shelf = w.shelf
        /\ t.attempts = w.attempts
        /\ t.ok => w.ok
    BY <1>4, <1>5 DEF Transition, Views
  <2>2. u = IF w.status # "rider_assigned" THEN w ELSE [t EXCEPT !.riderId = NoRider]
    BY <1>1, <1>7 DEF OnDeliveryEvent, OnReleasedOrCancelled
  <2> HIDE DEF t
  <2> QED BY <1>0, <1>4, <1>5, <1>7, <2>1, <2>2 DEF Views, courier, Effect, Moves
<1>8. CASE e = "picked_up"
  <2> DEFINE t == Transition(w, "rider_assigned", "in_transit")
  <2>1. /\ t \in Views /\ t.status = "in_transit" /\ t.riderId = w.riderId
        /\ t.held = w.held /\ t.active = w.active /\ t.leg = w.leg /\ t.shelf = w.shelf
        /\ t.attempts = w.attempts
        /\ t.ok => w.ok /\ w.status = "rider_assigned"
    BY <1>4, <1>5 DEF Transition, Views
  <2>2. u = [t EXCEPT !.shelf = NoShelf, !.held = Released(t.held)]
    BY <1>1, <1>8, <2>1 DEF OnDeliveryEvent, OnPickedUp, ReleaseNodeSlot, ClearShelf, Views
  <2>3. NoShelf \in Shelves
    BY DEF NoShelf, Shelves
  <2> HIDE DEF t
  <2>4. /\ u \in Views /\ u.status = t.status /\ u.riderId = t.riderId /\ u.leg = t.leg
        /\ u.held = Released(t.held) /\ u.active = t.active /\ u.ok = t.ok
        /\ u.shelf = NoShelf
        /\ u.attempts = t.attempts
    <3>1. t \in Views /\ Released(t.held) \in Nat
      BY <1>5, <2>1
    <3> QED BY ONLY <2>2, <2>3, <3>1 DEF Views
  <2> QED BY <1>0, <1>4, <1>8, <2>1, <2>4 DEF courier, Effect, Moves
<1>9. CASE e = "attempt_failed"
  <2>1. u = w
    BY <1>1, <1>9 DEF OnDeliveryEvent
  <2> QED BY <1>0, <1>4, <1>9, <2>1 DEF courier, Effect, Moves
<1>10. CASE e = "delivered"
  <2> DEFINE t == Transition(w, "in_transit", "arrived_at_destination")
  <2>1. /\ t \in Views /\ t.status = "arrived_at_destination" /\ t.riderId = w.riderId
        /\ t.held = w.held /\ t.active = w.active /\ t.leg = w.leg /\ t.shelf = w.shelf
        /\ t.attempts = w.attempts
        /\ t.ok => w.ok /\ w.status = "in_transit"
    BY <1>4, <1>5 DEF Transition, Views
  <2>2. u = ReleaseRiderSlot(t, w.leg.courier)
    BY <1>1, <1>10 DEF OnDeliveryEvent, OnDelivered
  <2> HIDE DEF t
  <2>3. /\ u \in Views /\ u.status = t.status /\ u.riderId = t.riderId
        /\ u.leg = t.leg /\ u.held = t.held /\ u.ok = t.ok /\ u.shelf = t.shelf
        /\ u.attempts = t.attempts
        /\ w.leg.courier = NoRider => u.active = t.active
        /\ w.leg.courier # NoRider =>
             u.active = [t.active EXCEPT ![w.leg.courier] = Released(t.active[w.leg.courier])]
    <3>1. t \in Views /\ w.leg.courier \in Riders \cup {NoRider}
      BY <1>5, <2>1
    <3> QED BY ONLY <2>2, <3>1, ReleaseRiderSlotEffect
  <2> QED BY <1>0, <1>4, <1>10, <2>1, <2>3 DEF courier, Effect, Moves
<1>11. CASE e = "returning"
  <2> DEFINE t1 == Transition(w, "in_transit", "return_initiated")
             t == Transition(t1, "return_initiated", "return_in_transit")
  <2>1. /\ t1 \in Views /\ t1.riderId = w.riderId
        /\ t1.held = w.held /\ t1.active = w.active /\ t1.leg = w.leg /\ t1.shelf = w.shelf
        /\ t1.attempts = w.attempts
        /\ t1.ok => w.ok /\ w.status = "in_transit"
    BY <1>4, <1>5 DEF Transition, Views
  <2>2. /\ t \in Views /\ t.status = "return_in_transit" /\ t.riderId = t1.riderId
        /\ t.held = t1.held /\ t.active = t1.active /\ t.leg = t1.leg /\ t.shelf = t1.shelf
        /\ t.attempts = t1.attempts
        /\ t.ok => t1.ok
    <3> HIDE DEF t1
    <3> QED BY <1>5, <2>1 DEF Transition, Views
  <2>3. u = t
    BY <1>1, <1>11 DEF OnDeliveryEvent, OnReturning
  <2> HIDE DEF t, t1
  <2> QED BY <1>0, <1>4, <1>11, <2>1, <2>2, <2>3 DEF courier, Effect, Moves
<1>12. CASE e = "returned"
  <2> DEFINE t == Transition(w, "return_in_transit", "returned_to_origin")
             h == HoldReturnedParcel(t)
  <2>1. /\ t \in Views /\ t.status = "returned_to_origin" /\ t.riderId = w.riderId
        /\ t.held = w.held /\ t.active = w.active /\ t.leg = w.leg /\ t.shelf = w.shelf
        /\ t.attempts = w.attempts
        /\ t.ok => w.ok /\ w.status = "return_in_transit"
    BY <1>4, <1>5 DEF Transition, Views
  <2>2. u = ReleaseRiderSlot(h, w.leg.courier)
    BY <1>1, <1>12 DEF OnDeliveryEvent, OnReturned
  <2>3. /\ h \in Views /\ h.status = t.status /\ h.riderId = t.riderId
        /\ h.held = t.held + 1 /\ h.active = t.active /\ h.leg = t.leg /\ h.ok = t.ok
        /\ h.shelf = t.shelf
        /\ h.attempts = t.attempts
    <3> HIDE DEF t
    <3> QED BY <2>1 DEF HoldReturnedParcel, Views
  <2> HIDE DEF t, h
  <2>4. /\ u \in Views /\ u.status = h.status /\ u.riderId = h.riderId
        /\ u.leg = h.leg /\ u.held = h.held /\ u.ok = h.ok /\ u.shelf = h.shelf
        /\ u.attempts = h.attempts
        /\ w.leg.courier = NoRider => u.active = h.active
        /\ w.leg.courier # NoRider =>
             u.active = [h.active EXCEPT ![w.leg.courier] = Released(h.active[w.leg.courier])]
    <3>1. h \in Views /\ w.leg.courier \in Riders \cup {NoRider}
      BY <1>5, <2>3
    <3> QED BY ONLY <2>2, <3>1, ReleaseRiderSlotEffect
  <2> QED BY <1>0, <1>4, <1>12, <2>1, <2>3, <2>4 DEF courier, Effect, Moves
<1> QED BY <1>0, <1>6, <1>7, <1>8, <1>9, <1>10, <1>11, <1>12 DEF Moves

LEMMA ApplyNothing ==
  ASSUME NEW v, NEW e, NextLegStatus(v.leg.status, e) = NoStatus
  PROVE  Apply(v, e) = v
BY DEF Apply

-----------------------------------------------------------------------------
(* The Node's half: an order agrees with its leg and holds the slot the    *)
(* counter counts.                                                         *)

(* No event, whatever the courier reported, takes a view out of step. *)
LEMMA ApplyInStep ==
  ASSUME TypeOK, NEW o \in Orders, NEW v \in Views, InStep(o, v), NEW e
  PROVE  Apply(v, e) \in Views /\ InStep(o, Apply(v, e))
<1> DEFINE u == Apply(v, e)
<1>1. CASE NextLegStatus(v.leg.status, e) = NoStatus
  BY <1>1, ApplyNothing
<1>2. CASE NextLegStatus(v.leg.status, e) # NoStatus
  <2> HIDE DEF u
  <2>1. u = Apply(v, e)
    BY DEF u
  <2>2. Effect(v, e, u)
    BY <1>2, <2>1, ApplyEffect
  <2>3. v.held \in Nat /\ currentCount[Origin[o]] \in Nat /\ v.leg.status \in LegStatuses \cup {NoStatus}
    BY FulfilmentAssumption DEF TypeOK, Views, Legs
  <2>4. SUFFICES ASSUME u.ok PROVE
          /\ u.leg.status \in LegStatusesOf(u.status)
          /\ u.held + Slot(status[o]) = currentCount[Origin[o]] + Slot(u.status)
          /\ u.held >= Slot(u.status)
          /\ u.status \in OutboundHolding => status[o] \in OutboundHolding
          /\ (u.status = NoOrder) <=> (status[o] = NoOrder)
    BY <2>1, <2>2 DEF InStep, Effect
  <2>5. /\ v.leg.status \in LegStatusesOf(v.status)
        /\ v.held + Slot(status[o]) = currentCount[Origin[o]] + Slot(v.status)
        /\ v.held >= Slot(v.status)
        /\ v.status \in OutboundHolding => status[o] \in OutboundHolding
        /\ (v.status = NoOrder) <=> (status[o] = NoOrder)
    BY <2>2, <2>4 DEF InStep, Effect
  <2>6. Slot(status[o]) \in {0, 1}
    BY DEF Slot
  <2>7. CASE e = "assigned"
    <3>1. /\ u.leg.status = "assigned" /\ u.status = "rider_assigned"
          /\ v.status = "parcel_received_at_origin" /\ u.held = v.held
      BY <2>2, <2>4, <2>7 DEF Effect
    <3> QED BY <2>5, <2>6, <3>1
             DEF LegStatusesOf, Slot, OutboundHolding, ReturnHolding, NoOrder
  <2>8. CASE e \in {"released", "cancelled"}
    <3>1. /\ u.leg.status \in {"requested", "cancelled"} /\ u.held = v.held
          /\ v.leg.status \in {"requested", "assigned"}
          /\ \/ v.status # "rider_assigned" /\ u.status = v.status
             \/ v.status = "rider_assigned" /\ u.status = "parcel_received_at_origin"
      BY <2>2, <2>4, <2>8 DEF Effect
    <3>2. v.status \in {"parcel_received_at_origin", "rider_assigned"}
      BY <2>5, <3>1 DEF LegStatusesOf, NoStatus
    <3> QED BY <2>5, <2>6, <3>1, <3>2
             DEF LegStatusesOf, Slot, OutboundHolding, ReturnHolding, NoOrder
  <2>9. CASE e = "picked_up"
    <3>1. /\ u.leg.status = "picked_up" /\ u.status = "in_transit"
          /\ v.status = "rider_assigned" /\ u.held = Released(v.held)
      BY <2>2, <2>4, <2>9 DEF Effect
    <3>2. Slot(v.status) = 1 /\ Slot(u.status) = 0
      BY <3>1 DEF Slot, OutboundHolding, ReturnHolding
    <3>3. u.held = v.held - 1 /\ u.held \in Nat
      BY <2>3, <2>5, <3>1, <3>2, ReleasedType
    <3> QED BY <2>3, <2>5, <2>6, <3>1, <3>2, <3>3
             DEF LegStatusesOf, OutboundHolding, NoOrder
  <2>10. CASE e = "attempt_failed"
    BY <2>2, <2>4, <2>5, <2>10 DEF Effect
  <2>11. CASE e = "delivered"
    <3>1. /\ u.leg.status = "delivered" /\ u.status = "arrived_at_destination"
          /\ v.status = "in_transit" /\ u.held = v.held
      BY <2>2, <2>4, <2>11 DEF Effect
    <3> QED BY <2>5, <2>6, <3>1
             DEF LegStatusesOf, Slot, OutboundHolding, ReturnHolding, NoOrder
  <2>12. CASE e = "returning"
    <3>1. /\ u.leg.status = "returning" /\ u.status = "return_in_transit"
          /\ v.status = "in_transit" /\ u.held = v.held
      BY <2>2, <2>4, <2>12 DEF Effect
    <3> QED BY <2>5, <2>6, <3>1
             DEF LegStatusesOf, Slot, OutboundHolding, ReturnHolding, NoOrder
  <2>13. CASE e = "returned"
    <3>1. /\ u.leg.status = "returned" /\ u.status = "returned_to_origin"
          /\ v.status = "return_in_transit" /\ u.held = v.held + 1
      BY <2>2, <2>4, <2>13 DEF Effect
    <3> QED BY <2>3, <2>5, <2>6, <3>1
             DEF LegStatusesOf, Slot, OutboundHolding, ReturnHolding, NoOrder
  <2> QED BY <2>2, <2>7, <2>8, <2>9, <2>10, <2>11, <2>12, <2>13 DEF Effect
<1> QED BY <1>1, <1>2

(* A handler starts in step. *)
LEMMA HeldByCounter ==
  ASSUME NodeInv, NEW o \in Orders
  PROVE  /\ Slot(status[o]) \in {0, 1}
         /\ currentCount[Origin[o]] \in Nat
         /\ Slot(status[o]) = 1 => HoldsSlot(o)
         /\ HoldsSlot(o) => currentCount[Origin[o]] >= 1
<1> DEFINE S == { q \in Orders : Origin[q] = Origin[o] /\ HoldsSlot(q) }
<1>1. currentCount[Origin[o]] \in Nat /\ Origin[o] \in Nodes
  BY FulfilmentAssumption DEF NodeInv, TypeOK
<1>2. Slot(status[o]) = 1 => HoldsSlot(o)
  BY DEF Slot, NodeInv, PaidHasOrder, HoldsSlot, HoldsOutboundSlot, OutboundHolding,
         ReturnHolding, NoOrder
<1>3. ASSUME HoldsSlot(o) PROVE currentCount[Origin[o]] >= 1
  <2>1. IsFiniteSet(S) /\ o \in S
    BY <1>3, FulfilmentAssumption, FS_Subset
  <2>2. Cardinality(S) >= 1
    <3> HIDE DEF S
    <3>1. S \ {o} = (S \ {o}) \ {o}
      OBVIOUS
    <3> QED BY <2>1, <3>1, CountChange
  <2> QED BY <1>1, <2>2 DEF NodeInv, NodeAuditClean
<1> QED BY <1>1, <1>2, <1>3 DEF Slot

LEMMA ViewInStep ==
  ASSUME NodeInv, NEW o \in Orders
  PROVE  View(o) \in Views /\ InStep(o, View(o))
<1>1. View(o) \in Views
  BY FulfilmentAssumption DEF NodeInv, TypeOK, View, Views, Statuses
<1>2. leg[o].status \in LegStatusesOf(status[o])
  BY DEF NodeInv, LegAndOrderAgree
<1>3. currentCount[Origin[o]] >= Slot(status[o])
  BY HeldByCounter
<1> QED BY <1>1, <1>2, <1>3 DEF View, InStep

(* What an order holds, read off its status and its intent. *)
LEMMA HoldsBySlot ==
  ASSUME NodeInv, NEW o \in Orders, status[o] # NoOrder
  PROVE  /\ HoldsSlot(o) <=> Slot(status[o]) = 1
         /\ HoldsOutboundSlot(o) <=> status[o] \in OutboundHolding
BY DEF NodeInv, PaidHasOrder, HoldsSlot, HoldsOutboundSlot, Slot

(* A counter moves by what one order's holding moved; other orders' rows   *)
(* and other Nodes' counters are as they were.                             *)
LEMMA OneOrderMoves ==
  ASSUME NodeInv, TypeOK', PaidHasOrder', LegAndOrderAgree', NEW o \in Orders, NEW held \in Nat,
         currentCount' = [currentCount EXCEPT ![Origin[o]] = held],
         \A q \in Orders \ {o} : status'[q] = status[q] /\ intent'[q] = intent[q],
         held + (IF HoldsSlot(o) THEN 1 ELSE 0)
           = currentCount[Origin[o]] + (IF HoldsSlot(o)' THEN 1 ELSE 0),
         HoldsOutboundSlot(o)' =>
           HoldsOutboundSlot(o) \/ currentCount[Origin[o]] < Capacity[Origin[o]]
  PROVE  NodeInv'
<1> DEFINE S(n) == { q \in Orders : Origin[q] = n /\ HoldsSlot(q) }
           U(n) == { q \in Orders : Origin[q] = n /\ HoldsOutboundSlot(q) }
<1>1. \A q \in Orders \ {o} : /\ HoldsSlot(q)' <=> HoldsSlot(q)
                              /\ HoldsOutboundSlot(q)' <=> HoldsOutboundSlot(q)
  BY DEF HoldsSlot, HoldsOutboundSlot
<1>2. ASSUME NEW n \in Nodes
      PROVE  /\ IsFiniteSet(S(n)) /\ IsFiniteSet(U(n)) /\ IsFiniteSet(S(n)')
             /\ Cardinality(S(n)) = currentCount[n] /\ Cardinality(U(n)) <= Cardinality(S(n))
             /\ Cardinality(U(n)) <= Capacity[n]
             /\ Capacity[n] \in Nat /\ currentCount[n] \in Nat
  <2>1. S(n) \subseteq Orders /\ U(n) \subseteq S(n) /\ S(n)' \subseteq Orders
    BY DEF HoldsSlot
  <2>2. IsFiniteSet(S(n)) /\ IsFiniteSet(S(n)')
    <3> HIDE DEF S, U
    <3> QED BY <2>1, FulfilmentAssumption, FS_Subset
  <2>3. IsFiniteSet(U(n)) /\ Cardinality(U(n)) <= Cardinality(S(n))
    <3> HIDE DEF S, U
    <3> QED BY <2>1, <2>2, FS_Subset
  <2> QED BY <2>2, <2>3, FulfilmentAssumption DEF NodeInv, NodeAuditClean, WithinCapacity, TypeOK
<1>3. ASSUME NEW n \in Nodes, n # Origin[o]
      PROVE  S(n)' = S(n) /\ U(n)' = U(n) /\ currentCount'[n] = currentCount[n]
  BY <1>1, <1>3, FulfilmentAssumption DEF NodeInv, TypeOK
<1>4. Origin[o] \in Nodes /\ currentCount'[Origin[o]] = held
  BY FulfilmentAssumption DEF NodeInv, TypeOK
<1> DEFINE h == Origin[o]
<1>5. /\ S(h) \ {o} = S(h)' \ {o} /\ U(h) \ {o} = U(h)' \ {o}
      /\ o \in S(h) <=> HoldsSlot(o)
      /\ o \in S(h)' <=> HoldsSlot(o)'
      /\ o \in U(h) <=> HoldsOutboundSlot(o)
      /\ o \in U(h)' <=> HoldsOutboundSlot(o)'
  BY <1>1
<1>6. Cardinality(S(h)') = held
  <2> HIDE DEF S, U
  <2>1. /\ Cardinality(S(h)') \in Nat /\ Cardinality(S(h)) \in Nat
        /\ Cardinality(S(h)') + (IF o \in S(h) THEN 1 ELSE 0)
             = Cardinality(S(h)) + (IF o \in S(h)' THEN 1 ELSE 0)
    BY <1>2, <1>4, <1>5, CountChange
  <2> QED BY <1>2, <1>4, <1>5, <2>1
<1>7. Cardinality(U(h)') <= Capacity[h]
  <2> HIDE DEF S, U
  <2>1. /\ Cardinality(U(h)') \in Nat /\ Cardinality(U(h)) \in Nat
        /\ Cardinality(U(h)') + (IF o \in U(h) THEN 1 ELSE 0)
             = Cardinality(U(h)) + (IF o \in U(h)' THEN 1 ELSE 0)
    BY <1>2, <1>4, <1>5, CountChange
  <2> QED BY <1>2, <1>4, <1>5, <2>1
<1>8. NodeAuditClean'
  <2>1. \A n \in Nodes : currentCount'[n] = Cardinality(S(n)')
    <3> HIDE DEF S, U
    <3> QED BY <1>2, <1>3, <1>4, <1>6
  <2> QED BY <2>1 DEF NodeAuditClean
<1>9. WithinCapacity'
  <2>1. \A n \in Nodes : Cardinality(U(n)') <= Capacity[n]
    <3> HIDE DEF S, U
    <3> QED BY <1>2, <1>3, <1>4, <1>7
  <2> QED BY <2>1 DEF WithinCapacity
<1> QED BY <1>8, <1>9 DEF NodeInv

(* Committing a view that is in step keeps the invariant. *)
LEMMA CommitNodeInv ==
  ASSUME NodeInv, NEW o \in Orders, NEW v \in Views, InStep(o, v), Commit(o, v)
  PROVE  NodeInv'
<1>1. v.ok /\ v.held \in Nat
  BY DEF Commit, Views
<1>2. /\ v.leg.status \in LegStatusesOf(v.status)
      /\ v.held + Slot(status[o]) = currentCount[Origin[o]] + Slot(v.status)
      /\ v.status \in OutboundHolding => status[o] \in OutboundHolding
      /\ (v.status = NoOrder) <=> (status[o] = NoOrder)
  BY <1>1 DEF InStep
<1>3. TypeOK'
  BY FulfilmentAssumption DEF NodeInv, TypeOK, Commit, Views, Statuses
<1>4. /\ status'[o] = v.status /\ leg'[o] = v.leg /\ intent' = intent
      /\ \A q \in Orders \ {o} : status'[q] = status[q] /\ leg'[q] = leg[q]
      /\ currentCount' = [currentCount EXCEPT ![Origin[o]] = v.held]
  BY DEF Commit, NodeInv, TypeOK
<1>5. PaidHasOrder'
  BY <1>2, <1>4 DEF NodeInv, PaidHasOrder
<1>6. LegAndOrderAgree'
  BY <1>2, <1>4 DEF NodeInv, LegAndOrderAgree, LegStatusesOf
<1>7. /\ v.held + (IF HoldsSlot(o) THEN 1 ELSE 0)
           = currentCount[Origin[o]] + (IF HoldsSlot(o)' THEN 1 ELSE 0)
      /\ HoldsOutboundSlot(o)' => HoldsOutboundSlot(o)
  <2>1. CASE status[o] = NoOrder
    <3>1. v.held = currentCount[Origin[o]] /\ status'[o] = status[o]
      BY <1>1, <1>2, <1>4, <2>1, HeldByCounter DEF Slot, OutboundHolding, ReturnHolding, NoOrder
    <3>2. (HoldsSlot(o)' <=> HoldsSlot(o)) /\ (HoldsOutboundSlot(o)' <=> HoldsOutboundSlot(o))
      BY <1>4, <3>1 DEF HoldsSlot, HoldsOutboundSlot
    <3> QED BY <3>1, <3>2
  <2>2. CASE status[o] # NoOrder
    <3>1. intent[o] = "paid" /\ intent'[o] = "paid"
      BY <1>4, <2>2 DEF NodeInv, PaidHasOrder
    <3>2. /\ HoldsSlot(o) <=> Slot(status[o]) = 1
          /\ HoldsSlot(o)' <=> Slot(v.status) = 1
          /\ HoldsOutboundSlot(o) <=> status[o] \in OutboundHolding
          /\ HoldsOutboundSlot(o)' <=> v.status \in OutboundHolding
      BY <1>4, <3>1 DEF HoldsSlot, HoldsOutboundSlot, Slot
    <3>3. Slot(v.status) \in {0, 1} /\ Slot(status[o]) \in {0, 1}
      BY DEF Slot
    <3> QED BY <1>2, <3>2, <3>3
  <2> QED BY <2>1, <2>2
<1> QED BY <1>1, <1>3, <1>4, <1>5, <1>6, <1>7, OneOrderMoves

(* Routing an order that waits at the counter keeps the view in step. *)
LEMMA DispatchInStep ==
  ASSUME NEW o \in Orders, NEW v \in Views, InStep(o, v), NEW p, p \in Providers \cup {NoProvider},
         v.ok /\ ~ IsActive(v.leg) => v.status = "parcel_received_at_origin",
         NEW w \in Dispatch(v, p)
  PROVE  w \in Views /\ InStep(o, w)
<1>1. w = v \/ (~ IsActive(v.leg) /\ \E q \in Providers : w = Request(v, q))
  BY DEF Dispatch
<1>2. ASSUME ~ IsActive(v.leg), NEW q \in Providers, w = Request(v, q)
      PROVE  w \in Views /\ InStep(o, w)
  <2>1. Requested(v, q, w)
    BY <1>2, RequestEffect
  <2>2. /\ w \in Views /\ w.status = v.status /\ w.leg.status = "requested"
        /\ w.held = v.held /\ w.ok = v.ok
    BY <2>1 DEF Requested
  <2> QED BY <1>2, <2>2 DEF InStep, LegStatusesOf
<1> QED BY <1>1, <1>2

LEMMA ReplayInStep ==
  ASSUME TypeOK, NEW o \in Orders, NEW v \in Views, InStep(o, v), NEW path
  PROVE  Replay(v, path) \in Views /\ InStep(o, Replay(v, path))
<1> DEFINE event(k) == IF k <= Len(path) THEN path[k] ELSE NoStatus
           v1 == Apply(v, event(1))
           v2 == Apply(v1, event(2))
           v3 == Apply(v2, event(3))
           v4 == Apply(v3, event(4))
<1>1. v1 \in Views /\ InStep(o, v1)
  BY ApplyInStep
<1>2. v2 \in Views /\ InStep(o, v2)
  <2> HIDE DEF v1, event
  <2> QED BY <1>1, ApplyInStep
<1>3. v3 \in Views /\ InStep(o, v3)
  <2> HIDE DEF v2, event
  <2> QED BY <1>2, ApplyInStep
<1>4. v4 \in Views /\ InStep(o, v4)
  <2> HIDE DEF v3, event
  <2> QED BY <1>3, ApplyInStep
<1>5. Replay(v, path) = v4
  BY DEF Replay
<1> QED BY <1>4, <1>5

(* A counter's move: a legal transition that leaves the leg and the slot   *)
(* as they are, and the parcel laid on a shelf or taken from one.          *)
LEMMA TransitionInStep ==
  ASSUME NEW o \in Orders, NEW v \in Views, InStep(o, v), NEW from, NEW to \in Statuses,
         from # NoOrder, to # NoOrder, LegStatusesOf(from) \subseteq LegStatusesOf(to),
         Slot(from) = Slot(to), to \in OutboundHolding => from \in OutboundHolding
  PROVE  /\ Transition(v, from, to) \in Views /\ InStep(o, Transition(v, from, to))
         /\ Transition(v, from, to).ok => v.status = from
         /\ Transition(v, from, to).status = to /\ Transition(v, from, to).leg = v.leg
<1> DEFINE t == Transition(v, from, to)
<1>1. t = Transition(v, from, to)
  OBVIOUS
<1> HIDE DEF t
<1>2. /\ t \in Views /\ t.status = to /\ t.leg = v.leg /\ t.held = v.held
      /\ t.ok => v.ok /\ v.status = from
  BY <1>1 DEF Transition, Views
<1>3. ASSUME t.ok PROVE InStep(o, t)
  BY <1>2, <1>3 DEF InStep
<1>4. InStep(o, t)
  BY <1>3 DEF InStep
<1> QED BY <1>1, <1>2, <1>4

LEMMA PlaceOnShelfInStep ==
  ASSUME TypeOK, NEW o \in Orders, NEW v \in Views, InStep(o, v), NEW n \in Nodes
  PROVE  /\ PlaceOnShelf(v, n) \in Views /\ InStep(o, PlaceOnShelf(v, n))
         /\ PlaceOnShelf(v, n).ok = v.ok
         /\ PlaceOnShelf(v, n).status = v.status /\ PlaceOnShelf(v, n).leg = v.leg
<1>1. [node |-> n, number |-> LowestFreeShelf(n)] \in Shelves
  BY LowestFreeShelfIsFree DEF Shelves
<1> QED BY <1>1 DEF PlaceOnShelf, Views, InStep

LEMMA ClearShelfInStep ==
  ASSUME NEW o \in Orders, NEW v \in Views, InStep(o, v)
  PROVE  ClearShelf(v) \in Views /\ InStep(o, ClearShelf(v))
<1>1. NoShelf \in Shelves
  BY DEF NoShelf, Shelves
<1> QED BY <1>1 DEF ClearShelf, Views, InStep

-----------------------------------------------------------------------------
(* One lemma per handler. *)

LEMMA CheckoutKeepsNodeInv ==
  ASSUME NodeInv, NEW o \in Orders,
         CreatePaymentIntent(o) \/ ConfirmPaymentIntentPaid(o) \/ ExpirePaymentIntent(o)
  PROVE  NodeInv'
<1> DEFINE h == Origin[o]
<1>1. /\ TypeOK /\ h \in Nodes /\ currentCount[h] \in Nat /\ Capacity[h] \in Nat
      /\ intent[o] # "paid" => status[o] = NoOrder
  BY FulfilmentAssumption DEF NodeInv, TypeOK, PaidHasOrder
<1>2. CASE CreatePaymentIntent(o)
  <2>1. TypeOK' /\ PaidHasOrder' /\ LegAndOrderAgree'
    BY <1>1, <1>2 DEF CreatePaymentIntent, NodeInv, TypeOK, PaidHasOrder, LegAndOrderAgree,
       LegStatusesOf, orderVars
  <2>2. /\ currentCount' = [currentCount EXCEPT ![h] = currentCount[h] + 1]
        /\ \A q \in Orders \ {o} : status'[q] = status[q] /\ intent'[q] = intent[q]
        /\ ~ HoldsSlot(o) /\ HoldsSlot(o)' /\ currentCount[h] < Capacity[h]
    BY <1>1, <1>2 DEF CreatePaymentIntent, TypeOK, HoldsSlot, HoldsOutboundSlot, orderVars
  <2>3. /\ currentCount[h] + 1 \in Nat
        /\ (currentCount[h] + 1) + (IF HoldsSlot(o) THEN 1 ELSE 0)
             = currentCount[h] + (IF HoldsSlot(o)' THEN 1 ELSE 0)
    BY <1>1, <2>2
  <2> HIDE DEF h
  <2> QED BY <2>1, <2>2, <2>3, OneOrderMoves DEF h
<1>3. CASE ConfirmPaymentIntentPaid(o)
  <2>1. intent[o] = "pending" /\ status[o] = NoOrder /\ leg[o].status = NoStatus
    BY <1>1, <1>3 DEF ConfirmPaymentIntentPaid, NodeInv, LegAndOrderAgree, LegStatusesOf,
       NoOrder, NoStatus
  <2>2. TypeOK' /\ PaidHasOrder' /\ LegAndOrderAgree'
    BY <1>1, <1>3, <2>1 DEF ConfirmPaymentIntentPaid, NodeInv, TypeOK, PaidHasOrder,
       LegAndOrderAgree, LegStatusesOf, OrderStatuses, NoOrder
  <2>3. /\ currentCount' = [currentCount EXCEPT ![h] = currentCount[h]]
        /\ \A q \in Orders \ {o} : status'[q] = status[q] /\ intent'[q] = intent[q]
        /\ HoldsOutboundSlot(o) /\ HoldsSlot(o) /\ HoldsSlot(o)'
    BY <1>1, <1>3 DEF ConfirmPaymentIntentPaid, TypeOK, HoldsSlot, HoldsOutboundSlot,
       OutboundHolding
  <2> QED BY <1>1, <2>2, <2>3, OneOrderMoves
<1>4. CASE ExpirePaymentIntent(o)
  <2>1. TypeOK' /\ PaidHasOrder' /\ LegAndOrderAgree'
    BY <1>1, <1>4, ReleasedType DEF ExpirePaymentIntent, NodeInv, TypeOK, PaidHasOrder,
       LegAndOrderAgree, LegStatusesOf, orderVars
  <2>2. /\ currentCount' = [currentCount EXCEPT ![h] = Released(currentCount[h])]
        /\ \A q \in Orders \ {o} : status'[q] = status[q] /\ intent'[q] = intent[q]
        /\ HoldsSlot(o) /\ ~ HoldsOutboundSlot(o)' /\ ~ HoldsSlot(o)'
    BY <1>1, <1>4 DEF ExpirePaymentIntent, TypeOK, HoldsSlot, HoldsOutboundSlot, orderVars
  <2>3. Released(currentCount[h]) = currentCount[h] - 1 /\ Released(currentCount[h]) \in Nat
    BY <1>1, <2>2, HeldByCounter, ReleasedType
  <2>4. Released(currentCount[h]) + (IF HoldsSlot(o) THEN 1 ELSE 0)
          = currentCount[h] + (IF HoldsSlot(o)' THEN 1 ELSE 0)
    BY <1>1, <2>2, <2>3
  <2> QED BY <2>1, <2>2, <2>3, <2>4, OneOrderMoves
<1> QED BY <1>2, <1>3, <1>4

LEMMA ConfirmDropOffKeepsNodeInv ==
  ASSUME NodeInv, NEW o \in Orders, ConfirmDropOff(o)
  PROVE  NodeInv'
<1> DEFINE t == Transition(View(o), "awaiting_drop_off", "parcel_received_at_origin")
           v == PlaceOnShelf(t, Origin[o])
<1>1. View(o) \in Views /\ InStep(o, View(o)) /\ TypeOK /\ Origin[o] \in Nodes
  BY ViewInStep, FulfilmentAssumption DEF NodeInv
<1>2. /\ LegStatusesOf("awaiting_drop_off") \subseteq LegStatusesOf("parcel_received_at_origin")
      /\ Slot("awaiting_drop_off") = Slot("parcel_received_at_origin")
      /\ "parcel_received_at_origin" \in Statuses /\ "awaiting_drop_off" \in OutboundHolding
  BY DEF LegStatusesOf, Slot, OutboundHolding, ReturnHolding, Statuses, OrderStatuses, NoOrder
<1>3. t \in Views /\ InStep(o, t) /\ t.status = "parcel_received_at_origin"
  BY <1>1, <1>2, TransitionInStep DEF NoOrder
<1>4. v \in Views /\ InStep(o, v) /\ v.status = "parcel_received_at_origin"
  <2> HIDE DEF t
  <2> QED BY <1>1, <1>3, PlaceOnShelfInStep
<1>5. PICK w \in Dispatch(v, NoProvider) : Commit(o, w)
  BY DEF ConfirmDropOff, DroppedOff
<1>6. w \in Views /\ InStep(o, w)
  <2> HIDE DEF v
  <2> QED BY <1>4, DispatchInStep
<1> QED BY <1>5, <1>6, CommitNodeInv

(* The counters that leave the slot alone. *)
LEMMA CounterKeepsNodeInv ==
  ASSUME NodeInv, NEW o \in Orders,
         ConfirmIntake(o) \/ ConfirmCollection(o) \/ ReturnIntake(o)
  PROVE  NodeInv'
<1>1. /\ View(o) \in Views /\ InStep(o, View(o)) /\ TypeOK
      /\ Origin[o] \in Nodes /\ Destination[o] \in Nodes
  BY ViewInStep, FulfilmentAssumption DEF NodeInv
<1>2. CASE ConfirmIntake(o)
  <2> DEFINE t == Transition(View(o), "arrived_at_destination", "ready_for_collection")
  <2>1. t \in Views /\ InStep(o, t)
    BY <1>1, TransitionInStep DEF LegStatusesOf, Slot, OutboundHolding, ReturnHolding, Statuses,
       OrderStatuses, NoOrder
  <2>2. Commit(o, PlaceOnShelf(t, Destination[o]))
    BY <1>2 DEF ConfirmIntake, TakenIn
  <2> HIDE DEF t
  <2> QED BY <1>1, <2>1, <2>2, PlaceOnShelfInStep, CommitNodeInv
<1>3. CASE ConfirmCollection(o)
  <2> DEFINE t == Transition(View(o), "ready_for_collection", "completed")
  <2>1. t \in Views /\ InStep(o, t)
    BY <1>1, TransitionInStep DEF LegStatusesOf, Slot, OutboundHolding, ReturnHolding, Statuses,
       OrderStatuses, NoOrder
  <2>2. Commit(o, ClearShelf(t))
    BY <1>3 DEF ConfirmCollection, HandedOut
  <2> HIDE DEF t
  <2> QED BY <1>1, <2>1, <2>2, ClearShelfInStep, CommitNodeInv
<1>4. CASE ReturnIntake(o)
  <2> DEFINE t == Transition(View(o), "returned_to_origin", "ready_for_sender_collection")
  <2>1. t \in Views /\ InStep(o, t)
    BY <1>1, TransitionInStep DEF LegStatusesOf, Slot, OutboundHolding, ReturnHolding, Statuses,
       OrderStatuses, NoOrder
  <2>2. Commit(o, PlaceOnShelf(t, Origin[o]))
    BY <1>4 DEF ReturnIntake, TakenBack
  <2> HIDE DEF t
  <2> QED BY <1>1, <2>1, <2>2, PlaceOnShelfInStep, CommitNodeInv
<1> QED BY <1>2, <1>3, <1>4

(* The sender takes the parcel back and the slot is free again. *)
LEMMA ReturnCollectionKeepsNodeInv ==
  ASSUME NodeInv, NEW o \in Orders, ReturnCollection(o)
  PROVE  NodeInv'
<1> DEFINE t == Transition(View(o), "ready_for_sender_collection", "return_completed")
           c == ClearShelf(t)
           v == ReleaseNodeSlot(c)
<1>1. View(o) \in Views /\ InStep(o, View(o)) /\ Commit(o, v)
  BY ViewInStep DEF ReturnCollection, HandedBack
<1>2. t = Transition(View(o), "ready_for_sender_collection", "return_completed")
  OBVIOUS
<1> HIDE DEF t
<1>3. /\ t \in Views /\ t.status = "return_completed" /\ t.leg = View(o).leg
      /\ t.held = View(o).held
      /\ t.ok => View(o).ok /\ View(o).status = "ready_for_sender_collection"
  <2>1. View(o) \in Views /\ "return_completed" \in Statuses
    BY <1>1 DEF Statuses, OrderStatuses
  <2> QED BY ONLY <1>2, <2>1 DEF Transition, Views
<1>4. NoShelf \in Shelves /\ t.held \in Nat /\ Released(t.held) \in Nat
  BY <1>3, ReleasedType DEF NoShelf, Shelves, Views
<1>5. /\ v \in Views /\ v.status = t.status /\ v.leg = t.leg
      /\ v.held = Released(t.held) /\ v.ok = t.ok
  BY <1>3, <1>4 DEF ClearShelf, ReleaseNodeSlot, Views
<1> HIDE DEF v
<1>6. ASSUME v.ok PROVE InStep(o, v)
  <2>1. View(o).ok /\ View(o).status = "ready_for_sender_collection"
    BY <1>3, <1>5, <1>6
  <2>2. /\ View(o).leg.status \in LegStatusesOf("ready_for_sender_collection")
        /\ View(o).held + Slot(status[o]) = currentCount[Origin[o]] + 1
        /\ View(o).held >= 1 /\ status[o] # NoOrder
    BY <1>1, <2>1 DEF InStep, Slot, ReturnHolding, NoOrder
  <2>3. Slot(v.status) = 0 /\ v.status \notin OutboundHolding /\ v.status # NoOrder
    BY <1>3, <1>5 DEF Slot, OutboundHolding, ReturnHolding, NoOrder
  <2>4. v.held = View(o).held - 1 /\ v.held \in Nat /\ View(o).held \in Nat
    BY <1>3, <1>4, <1>5, <2>2, ReleasedType
  <2>5. v.leg.status \in LegStatusesOf(v.status)
    BY <1>3, <1>5, <2>2 DEF LegStatusesOf
  <2>6. Slot(status[o]) \in {0, 1} /\ currentCount[Origin[o]] \in Nat
    BY HeldByCounter
  <2> QED BY <2>2, <2>3, <2>4, <2>5, <2>6 DEF InStep
<1>7. InStep(o, v)
  BY <1>6 DEF InStep
<1> QED BY <1>1, <1>5, <1>7, CommitNodeInv

(* The view m in which the rider has the leg, and u after the event.        *)
Accepted(o, r, m, u) ==
  /\ m \in Views /\ m.ok
  /\ m.status = status[o] /\ m.riderId = riderId[o] /\ m.shelf = shelf[o]
  /\ m.held = currentCount[Origin[o]]
  /\ m.active = [activeOrders EXCEPT ![r] = activeOrders[r] + 1]
  /\ m.leg.status = "requested" /\ m.leg.courier = r /\ m.leg.provider = InHouse
  /\ Effect(m, "assigned", u) /\ Commit(o, u)

LEMMA AcceptOrderAssigns ==
  ASSUME NodeInv, NEW o \in Orders, NEW r \in Riders, AcceptOrder(o, r)
  PROVE  \E m, u : Accepted(o, r, m, u)
<1> DEFINE active == [activeOrders EXCEPT ![r] = activeOrders[r] + 1]
           reserved == [View(o) EXCEPT !.active = active]
           v == IF IsActive(leg[o]) THEN reserved ELSE Request(reserved, InHouse)
           m == [v EXCEPT !.leg = [v.leg EXCEPT !.courier = r]]
           u == Apply(m, "assigned")
<1>1. View(o) \in Views /\ TypeOK
  BY ViewInStep DEF NodeInv
<1>2. /\ reserved \in Views /\ reserved.status = status[o] /\ reserved.leg = leg[o]
      /\ reserved.riderId = riderId[o] /\ reserved.shelf = shelf[o]
      /\ reserved.held = currentCount[Origin[o]] /\ reserved.active = active /\ reserved.ok
  BY <1>1, activeOrders[r] + 1 \in Nat DEF View, Views, TypeOK
<1>3. reserved = [View(o) EXCEPT !.active[r] = @ + 1]
  BY DEF View
<1>4. v.leg.status = "requested" /\ v.leg.provider = InHouse /\ Commit(o, u)
  BY <1>3 DEF AcceptOrder, MayClaim, Offered, Claimed
<1> HIDE DEF active
<1>5. /\ v \in Views /\ v.status = status[o] /\ v.riderId = riderId[o] /\ v.shelf = shelf[o]
      /\ v.held = currentCount[Origin[o]] /\ v.active = active /\ v.ok
  <2> HIDE DEF reserved
  <2>1. Requested(reserved, InHouse, Request(reserved, InHouse))
    BY <1>2, FulfilmentAssumption, RequestEffect
  <2> QED BY <1>2, <2>1 DEF Requested
<1> HIDE DEF reserved, v
<1>6. /\ m \in Views /\ m.status = v.status /\ m.riderId = v.riderId /\ m.shelf = v.shelf
      /\ m.held = v.held /\ m.active = v.active /\ m.ok = v.ok
      /\ m.leg.status = v.leg.status /\ m.leg.courier = r /\ m.leg.provider = v.leg.provider
  BY <1>5 DEF Views, Legs
<1>7. NextLegStatus("requested", "assigned") # NoStatus
  <2> DEFINE rule == [event |-> "assigned", from |-> {"requested"}, to |-> "assigned"]
  <2>1. rule \in LegTransitions /\ rule.event = "assigned" /\ "requested" \in rule.from
    BY DEF LegTransitions
  <2> HIDE DEF rule
  <2> QED BY <2>1, NextLegStatusType
<1> HIDE DEF m
<1>8. Effect(m, "assigned", u)
  BY <1>4, <1>6, <1>7, ApplyEffect
<1> HIDE DEF u
<1>9. Accepted(o, r, m, u)
  BY <1>4, <1>5, <1>6, <1>8 DEF Accepted, active
<1> QED BY <1>9

LEMMA AcceptOrderKeepsNodeInv ==
  ASSUME NodeInv, NEW o \in Orders, NEW r \in Riders, AcceptOrder(o, r)
  PROVE  NodeInv'
<1>1. PICK m, u : Accepted(o, r, m, u)
  BY AcceptOrderAssigns
<1>2. /\ u \in Views /\ u.status = "rider_assigned" /\ u.leg.status = "assigned"
      /\ u.held = m.held
      /\ u.ok => m.status = "parcel_received_at_origin"
  BY <1>1 DEF Accepted, Effect
<1>3. u.ok /\ Commit(o, u)
  BY <1>1 DEF Accepted, Commit
<1>4. status[o] = "parcel_received_at_origin" /\ m.held = currentCount[Origin[o]]
  BY <1>1, <1>2, <1>3 DEF Accepted
<1>5. u.held = currentCount[Origin[o]] /\ u.held >= 1
  <2>1. Slot(status[o]) = 1
    BY <1>4 DEF Slot, OutboundHolding
  <2> QED BY <1>2, <1>4, <2>1, HeldByCounter
<1>6. InStep(o, u)
  BY <1>2, <1>4, <1>5 DEF InStep, LegStatusesOf, Slot, OutboundHolding, NoOrder
<1> QED BY <1>2, <1>3, <1>6, CommitNodeInv

(* A rider's code moves the leg the rider has; an order without an active  *)
(* leg would be given one, but no order a rider can hold lacks one.        *)
LEMMA HandoffOfActiveLeg ==
  ASSUME NodeInv, NEW o \in Orders, NEW event \in {"picked_up", "delivered"},
         ConfirmHandoff(o, event)
  PROVE  IsActive(leg[o])
<1> SUFFICES ASSUME ~ IsActive(leg[o]) PROVE FALSE
  OBVIOUS
<1> DEFINE legacy == [Request(View(o), InHouse) EXCEPT
                        !.leg.status = IF event = "picked_up" THEN "assigned" ELSE "picked_up",
                        !.leg.courier = riderId[o]]
           u == Apply(legacy, event)
<1>1. View(o) \in Views /\ TypeOK
  BY ViewInStep DEF NodeInv
<1>2. Commit(o, u) /\ NextLegStatus(legacy.leg.status, event) # NoStatus
  BY DEF ConfirmHandoff, MayHandOver, Carried, HandedOver
<1>3. legacy \in Views /\ legacy.status = status[o]
  <2> DEFINE q == Request(View(o), InHouse)
             step == IF event = "picked_up" THEN "assigned" ELSE "picked_up"
  <2>1. q \in Views /\ q.status = status[o]
    <3>1. Requested(View(o), InHouse, q)
      BY <1>1, FulfilmentAssumption, RequestEffect
    <3> QED BY <3>1 DEF Requested, View
  <2>2. step \in LegStatuses /\ riderId[o] \in Riders \cup {NoRider}
    BY <1>1 DEF TypeOK, LegStatuses
  <2>3. legacy = [q EXCEPT !.leg = [q.leg EXCEPT !.status = step, !.courier = riderId[o]]]
    BY DEF Request
  <2> HIDE DEF q, step
  <2> DEFINE l == [q.leg EXCEPT !.status = step, !.courier = riderId[o]]
  <2>4. l \in Legs
    BY <2>1, <2>2 DEF Views, Legs
  <2> HIDE DEF l
  <2> QED BY <2>1, <2>3, <2>4 DEF Views, l
<1> HIDE DEF legacy
<1>4. Effect(legacy, event, u)
  BY <1>2, <1>3, ApplyEffect
<1>5. u.ok
  BY <1>2 DEF Commit
<1>6. status[o] \in {"rider_assigned", "in_transit"}
  <2> HIDE DEF u
  <2> QED BY <1>3, <1>4, <1>5 DEF Effect
<1> QED BY <1>6 DEF NodeInv, LegAndOrderAgree, LegStatusesOf, IsActive, ActiveLegStatuses

LEMMA ConfirmHandoffKeepsNodeInv ==
  ASSUME NodeInv, NEW o \in Orders, NEW event \in {"picked_up", "delivered"},
         ConfirmHandoff(o, event)
  PROVE  NodeInv'
<1>1. View(o) \in Views /\ InStep(o, View(o)) /\ TypeOK
  BY ViewInStep DEF NodeInv
<1>2. Commit(o, Apply(View(o), event))
  BY HandoffOfActiveLeg DEF ConfirmHandoff, MayHandOver, Carried, HandedOver
<1> QED BY <1>1, <1>2, ApplyInStep, CommitNodeInv

LEMMA SubmitKeepsNodeInv ==
  ASSUME NodeInv, NEW o \in Orders, SubmitAccepted(o) \/ SubmitRefused(o)
  PROVE  NodeInv'
<1>1. View(o) \in Views /\ InStep(o, View(o)) /\ TypeOK
  BY ViewInStep DEF NodeInv
<1>2. CASE SubmitAccepted(o)
  <2>1. /\ UNCHANGED <<intent, status, currentCount>>
        /\ \A q \in Orders : leg'[q].status = leg[q].status
    BY <1>1, <1>2 DEF SubmitAccepted, TypeOK, Legs
  <2>2. TypeOK'
    BY <1>1, <1>2 DEF SubmitAccepted, TypeOK, Legs
  <2> QED BY <2>1, <2>2 DEF NodeInv, PaidHasOrder, LegAndOrderAgree, NodeAuditClean,
          WithinCapacity, HoldsSlot, HoldsOutboundSlot
<1>3. CASE SubmitRefused(o)
  <2> DEFINE v == [View(o) EXCEPT !.leg = [leg[o] EXCEPT !.status = "cancelled"]]
  <2>1. leg[o].status \in {"requested", "cancelled"} /\ \E w \in Dispatch(v, NoProvider) : Commit(o, w)
    BY <1>3 DEF SubmitRefused, View
  <2>2. status[o] = "parcel_received_at_origin"
    BY <2>1 DEF NodeInv, LegAndOrderAgree, LegStatusesOf, NoStatus
  <2>3. /\ v \in Views /\ v.status = status[o] /\ v.held = View(o).held
        /\ v.leg.status = "cancelled" /\ v.ok = View(o).ok
    BY <1>1 DEF View, Views, Legs, LegStatuses, TypeOK
  <2> HIDE DEF v
  <2>4. InStep(o, v)
    BY <1>1, <2>2, <2>3 DEF InStep, LegStatusesOf, View
  <2>5. PICK w \in Dispatch(v, NoProvider) : Commit(o, w)
    BY <2>1
  <2>6. w \in Views /\ InStep(o, w)
    BY <2>2, <2>3, <2>4, DispatchInStep
  <2> QED BY <2>5, <2>6, CommitNodeInv
<1> QED BY <1>2, <1>3

(* What a courier reports, and taking an order away from one. *)
LEMMA CourierKeepsNodeInv ==
  ASSUME NodeInv, NEW o \in Orders,
         \/ \E reported \in LegStatuses : SyncFromSnapshot(o, reported)
         \/ ExpireUnassigned(o) \/ FallbackToInHouse(o)
  PROVE  NodeInv'
<1>1. View(o) \in Views /\ InStep(o, View(o)) /\ TypeOK
  BY ViewInStep DEF NodeInv
<1>2. PICK v \in Views, p \in Providers \cup {NoProvider} :
        /\ InStep(o, v)
        /\ \/ Commit(o, v)
           \/ v.leg.status = "cancelled" /\ \E w \in Dispatch(v, p) : Commit(o, w)
  <2>1. ASSUME NEW reported \in LegStatuses, SyncFromSnapshot(o, reported)
        PROVE  \E v \in Views, p \in Providers \cup {NoProvider} :
                 /\ InStep(o, v)
                 /\ \/ Commit(o, v)
                    \/ v.leg.status = "cancelled" /\ \E w \in Dispatch(v, p) : Commit(o, w)
    <3> DEFINE v == Replay(View(o), EventsToReach(leg[o].status, reported))
    <3>1. v \in Views /\ InStep(o, v)
      BY <1>1, ReplayInStep
    <3>2. \E w \in IF v.leg.status = "cancelled" THEN Dispatch(v, NoProvider) ELSE {v} : Commit(o, w)
      BY <2>1 DEF SyncFromSnapshot
    <3> HIDE DEF v
    <3> QED BY <3>1, <3>2
  <2>2. ASSUME ExpireUnassigned(o) \/ FallbackToInHouse(o)
        PROVE  \E v \in Views, p \in Providers \cup {NoProvider} :
                 /\ InStep(o, v) /\ v.leg.status = "cancelled"
                 /\ \E w \in Dispatch(v, p) : Commit(o, w)
    <3> DEFINE v == Apply(View(o), "cancelled")
    <3>1. v \in Views /\ InStep(o, v)
      BY <1>1, ApplyInStep
    <3>2. /\ NextLegStatus(leg[o].status, "cancelled") # NoStatus
          /\ \/ \E w \in Dispatch(v, NoProvider) : Commit(o, w)
             \/ \E w \in Dispatch(v, InHouse) : Commit(o, w)
      BY <2>2 DEF ExpireUnassigned, FallbackToInHouse
    <3>3. Effect(View(o), "cancelled", v)
      BY <1>1, <3>2, ApplyEffect DEF View
    <3> HIDE DEF v
    <3>4. v.leg.status = "cancelled"
      BY <3>3 DEF Effect
    <3> QED BY <3>1, <3>2, <3>4, FulfilmentAssumption
  <2> QED BY <2>1, <2>2
<1>3. CASE Commit(o, v)
  BY <1>2, <1>3, CommitNodeInv
<1>4. CASE v.leg.status = "cancelled" /\ \E w \in Dispatch(v, p) : Commit(o, w)
  <2>1. v.ok => v.status = "parcel_received_at_origin"
    BY <1>2, <1>4 DEF InStep, LegStatusesOf, NoStatus
  <2>2. PICK w \in Dispatch(v, p) : Commit(o, w)
    BY <1>4
  <2>3. w \in Views /\ InStep(o, w)
    BY <1>2, <2>1, DispatchInStep
  <2> QED BY <2>2, <2>3, CommitNodeInv
<1> QED BY <1>2, <1>3, <1>4

-----------------------------------------------------------------------------
(* Init and every step. *)

LEMMA InitNodeInv == Init => NodeInv
<1> SUFFICES ASSUME Init PROVE NodeInv
  OBVIOUS
<1>1. TypeOK
  BY FulfilmentAssumption
     DEF Init, TypeOK, NoShelf, Shelves, NoLeg, Legs, NoOrder
<1>2. PaidHasOrder /\ LegAndOrderAgree
  BY DEF Init, PaidHasOrder, LegAndOrderAgree, LegStatusesOf, NoLeg, NoOrder
<1>3. \A o \in Orders : ~ HoldsSlot(o) /\ ~ HoldsOutboundSlot(o)
  BY DEF Init, HoldsSlot, HoldsOutboundSlot
<1>4. NodeAuditClean
  <2>1. \A n \in Nodes : { o \in Orders : Origin[o] = n /\ HoldsSlot(o) } = {}
    BY <1>3
  <2> QED BY <2>1, FS_EmptySet DEF NodeAuditClean, Init
<1>5. WithinCapacity
  <2>1. \A n \in Nodes : { o \in Orders : Origin[o] = n /\ HoldsOutboundSlot(o) } = {}
    BY <1>3
  <2>2. \A n \in Nodes : 0 <= Capacity[n]
    BY FulfilmentAssumption
  <2> QED BY <2>1, <2>2, FS_EmptySet DEF WithinCapacity
<1> QED BY <1>1, <1>2, <1>4, <1>5 DEF NodeInv

LEMMA NextNodeInv == NodeInv /\ [Next]_vars => NodeInv'
<1> SUFFICES ASSUME NodeInv, [Next]_vars PROVE NodeInv'
  OBVIOUS
<1>1. CASE UNCHANGED vars
  BY <1>1 DEF vars, orderVars, NodeInv, TypeOK, PaidHasOrder, LegAndOrderAgree, NodeAuditClean,
     WithinCapacity, HoldsSlot, HoldsOutboundSlot
<1>2. ASSUME NEW o \in Orders,
             CreatePaymentIntent(o) \/ ConfirmPaymentIntentPaid(o) \/ ExpirePaymentIntent(o)
      PROVE  NodeInv'
  BY <1>2, CheckoutKeepsNodeInv
<1>3. ASSUME NEW o \in Orders, ConfirmDropOff(o) PROVE NodeInv'
  BY <1>3, ConfirmDropOffKeepsNodeInv
<1>4. ASSUME NEW o \in Orders, ConfirmIntake(o) \/ ConfirmCollection(o) \/ ReturnIntake(o)
      PROVE  NodeInv'
  BY <1>4, CounterKeepsNodeInv
<1>5. ASSUME NEW o \in Orders, ReturnCollection(o) PROVE NodeInv'
  BY <1>5, ReturnCollectionKeepsNodeInv
<1>6. ASSUME NEW o \in Orders, NEW r \in Riders, AcceptOrder(o, r) PROVE NodeInv'
  BY <1>6, AcceptOrderKeepsNodeInv
<1>7. ASSUME NEW o \in Orders, NEW event \in {"picked_up", "delivered"}, ConfirmHandoff(o, event)
      PROVE  NodeInv'
  BY <1>7, ConfirmHandoffKeepsNodeInv
<1>8. ASSUME NEW o \in Orders, SubmitAccepted(o) \/ SubmitRefused(o) PROVE NodeInv'
  BY <1>8, SubmitKeepsNodeInv
<1>9. ASSUME NEW o \in Orders,
             \/ \E reported \in LegStatuses : SyncFromSnapshot(o, reported)
             \/ ExpireUnassigned(o) \/ FallbackToInHouse(o)
      PROVE  NodeInv'
  BY <1>9, CourierKeepsNodeInv
<1> QED BY <1>1, <1>2, <1>3, <1>4, <1>5, <1>6, <1>7, <1>8, <1>9 DEF Next

(* The Node's half of the bookkeeping (module Fulfilment) is an invariant. *)
THEOREM NodeInvariant == Spec => []NodeInv
<1>1. Init => NodeInv
  BY InitNodeInv
<1>2. NodeInv /\ [Next]_vars => NodeInv'
  BY NextNodeInv
<1> QED BY <1>1, <1>2, PTL DEF Spec

(* Every row holds what its columns can hold, in every reachable state.    *)
THEOREM TypeCorrect == Spec => []TypeOK
<1>1. NodeInv => TypeOK
  BY DEF NodeInv
<1> QED BY <1>1, NodeInvariant, PTL

(* An order's status is always the one its delivery leg implies.           *)
THEOREM OrderFollowsLeg == Spec => []LegAndOrderAgree
<1>1. NodeInv => LegAndOrderAgree
  BY DEF NodeInv
<1> QED BY <1>1, NodeInvariant, PTL

(* The Node's half of the capacity audit never finds a difference, for any *)
(* number of orders, Nodes and couriers.                                   *)
THEOREM NodeAuditAlwaysClean == Spec => []NodeAuditClean
<1>1. NodeInv => NodeAuditClean
  BY DEF NodeInv
<1> QED BY <1>1, NodeInvariant, PTL

(* No Node is ever promised to more outgoing parcels than it can hold.     *)
THEOREM NodeNeverOverbooked == Spec => []NeverOverbooked
<1>1. NodeInv => NeverOverbooked
  BY DEF NodeInv, NeverOverbooked
<1> QED BY <1>1, NodeInvariant, PTL

-----------------------------------------------------------------------------
(* Riders and shelves: the rest of the bookkeeping.                        *)

(* One piece of a counter's handler: the order moves, and what it has of   *)
(* riders stays.                                                           *)
Moved(v, from, to, t) ==
  /\ t \in Views /\ t.status = to
  /\ t.riderId = v.riderId /\ t.leg = v.leg /\ t.active = v.active /\ t.shelf = v.shelf
  /\ t.attempts = v.attempts
  /\ t.ok => v.ok /\ v.status = from

LEMMA TransitionMoves ==
  ASSUME NEW v \in Views, NEW from, NEW to \in Statuses, NEW t, t = Transition(v, from, to)
  PROVE  Moved(v, from, to, t)
BY DEF Transition, Views, Moved

Shelved(v, n, t) ==
  /\ t \in Views /\ t.status = v.status
  /\ t.riderId = v.riderId /\ t.leg = v.leg /\ t.active = v.active /\ t.attempts = v.attempts
  /\ t.ok => v.ok
  /\ t.shelf = n

LEMMA PlacedOnShelf ==
  ASSUME TypeOK, NEW v \in Views, NEW n \in Nodes, NEW t, t = PlaceOnShelf(v, n)
  PROVE  Shelved(v, [node |-> n, number |-> LowestFreeShelf(n)], t)
<1> DEFINE s == [node |-> n, number |-> LowestFreeShelf(n)]
<1>1. s \in Shelves
  BY LowestFreeShelfIsFree DEF Shelves
<1>2. t = [v EXCEPT !.shelf = s]
  BY DEF PlaceOnShelf
<1> HIDE DEF s
<1>3. Shelved(v, s, t)
  BY <1>1, <1>2 DEF Shelved, Views
<1> QED BY <1>3 DEF s

LEMMA TakenFromShelf ==
  ASSUME NEW v \in Views, NEW t, t = ClearShelf(v)
  PROVE  Shelved(v, NoShelf, t)
<1>1. NoShelf \in Shelves
  BY DEF NoShelf, Shelves
<1>2. t = [v EXCEPT !.shelf = NoShelf]
  BY DEF ClearShelf
<1> QED BY <1>1, <1>2 DEF Shelved, Views

LEMMA SlotReleased ==
  ASSUME NEW t, NEW n, NEW c, Shelved(t, n, c)
  PROVE  Shelved(t, n, ReleaseNodeSlot(c))
<1>1. c.held \in Nat /\ c \in Views
  BY DEF Shelved, Views
<1>2. Released(c.held) \in Nat
  BY <1>1, ReleasedType
<1> QED BY <1>1, <1>2 DEF ReleaseNodeSlot, Shelved, Views

-----------------------------------------------------------------------------
(* Riders. *)

(* Only a leg of the pool has a rider, whom the order names; a leg nobody  *)
(* has taken has none; and the pool's legs never go back.                  *)
InHands(r, l) ==
  /\ r = l.courier
  /\ l.provider # InHouse => l.courier = NoRider
  /\ l.provider = InHouse => l.status \in {"requested", "assigned", "picked_up", "delivered"}
  /\ l.status \in {NoStatus, "requested", "cancelled"} => l.courier = NoRider

RiderInv == RiderAuditClean /\ \A o \in Orders : InHands(riderId[o], leg[o])

(* Is the order with the status s and the rider q one that r carries? *)
Carrying(r, s, q) == IF q = r /\ s \in {"rider_assigned", "in_transit"} THEN 1 ELSE 0

(* A rider's counter moves by what one order moved. *)
LEMMA RidersCount ==
  ASSUME TypeOK, RiderAuditClean, NEW o \in Orders,
         activeOrders' \in [Riders -> Nat],
         \A q \in Orders \ {o} : status'[q] = status[q] /\ riderId'[q] = riderId[q],
         \A r \in Riders : activeOrders'[r] + Carrying(r, status[o], riderId[o])
                             = activeOrders[r] + Carrying(r, status'[o], riderId'[o])
  PROVE  RiderAuditClean'
<1> DEFINE S(r) == { q \in Orders : Carries(r, q) }
<1>1. ASSUME NEW r \in Riders PROVE activeOrders'[r] = Cardinality(S(r)')
  <2>1. /\ o \in S(r) <=> Carrying(r, status[o], riderId[o]) = 1
        /\ o \in S(r)' <=> Carrying(r, status'[o], riderId'[o]) = 1
        /\ Carrying(r, status[o], riderId[o]) \in {0, 1}
        /\ Carrying(r, status'[o], riderId'[o]) \in {0, 1}
    BY DEF Carrying, Carries
  <2>2. S(r) \ {o} = S(r)' \ {o}
    BY DEF Carries
  <2>3. IsFiniteSet(S(r)) /\ activeOrders[r] = Cardinality(S(r))
    <3>1. S(r) \subseteq Orders
      OBVIOUS
    <3>2. IsFiniteSet(S(r))
      <4> HIDE DEF S
      <4> QED BY <3>1, FulfilmentAssumption, FS_Subset
    <3> QED BY <3>2 DEF RiderAuditClean
  <2>4. activeOrders[r] \in Nat /\ activeOrders'[r] \in Nat
    BY DEF TypeOK
  <2> HIDE DEF S
  <2>5. /\ Cardinality(S(r)) \in Nat /\ Cardinality(S(r)') \in Nat
        /\ Cardinality(S(r)') + (IF o \in S(r) THEN 1 ELSE 0)
             = Cardinality(S(r)) + (IF o \in S(r)' THEN 1 ELSE 0)
    BY <2>2, <2>3, CountChange
  <2> QED BY <2>1, <2>3, <2>4, <2>5
<1> QED BY <1>1 DEF RiderAuditClean

LEMMA CarrierIsCounted ==
  ASSUME TypeOK, RiderAuditClean, NEW o \in Orders, NEW r \in Riders,
         Carrying(r, status[o], riderId[o]) = 1
  PROVE  activeOrders[r] \in Nat /\ activeOrders[r] >= 1
<1> DEFINE S == { q \in Orders : Carries(r, q) }
<1>1. o \in S
  BY DEF Carrying, Carries
<1>2. IsFiniteSet(S)
  BY FulfilmentAssumption, FS_Subset
<1>3. Cardinality(S) >= 1
  <2> HIDE DEF S
  <2>1. S \ {o} = (S \ {o}) \ {o}
    OBVIOUS
  <2> QED BY <1>1, <1>2, <2>1, CountChange
<1> QED BY <1>3 DEF RiderAuditClean, TypeOK

LEMMA CommitRiderInv ==
  ASSUME TypeOK, RiderInv, NEW o \in Orders, NEW v \in Views, Commit(o, v),
         InHands(v.riderId, v.leg),
         \A r \in Riders : v.active[r] + Carrying(r, status[o], riderId[o])
                             = activeOrders[r] + Carrying(r, v.status, v.riderId)
  PROVE  RiderInv'
<1>1. /\ status'[o] = v.status /\ riderId'[o] = v.riderId /\ leg'[o] = v.leg
      /\ activeOrders' = v.active /\ activeOrders' \in [Riders -> Nat]
      /\ \A q \in Orders \ {o} :
           status'[q] = status[q] /\ riderId'[q] = riderId[q] /\ leg'[q] = leg[q]
  BY DEF Commit, TypeOK, Views
<1>2. RiderAuditClean'
  BY <1>1, RidersCount DEF RiderInv
<1>3. \A q \in Orders : InHands(riderId'[q], leg'[q])
  BY <1>1 DEF RiderInv
<1> QED BY <1>2, <1>3 DEF RiderInv

(* A view of which no rider has anything. *)
NobodyHas(v) ==
  v.ok => /\ v.riderId = NoRider /\ v.leg.courier = NoRider /\ v.active = activeOrders
          /\ v.leg.provider = InHouse => v.leg.status = "requested"

LEMMA NobodyCommits ==
  ASSUME TypeOK, RiderInv, NEW o \in Orders, NEW v \in Views, Commit(o, v), NobodyHas(v),
         riderId[o] = NoRider
  PROVE  RiderInv'
<1>1. /\ v.riderId = NoRider /\ v.leg.courier = NoRider /\ v.active = activeOrders
      /\ v.leg.provider = InHouse => v.leg.status = "requested"
  BY DEF Commit, NobodyHas
<1>2. InHands(v.riderId, v.leg)
  BY <1>1 DEF InHands
<1>3. \A r \in Riders : v.active[r] + Carrying(r, status[o], riderId[o])
                          = activeOrders[r] + Carrying(r, v.status, v.riderId)
  BY <1>1, FulfilmentAssumption DEF Carrying
<1> QED BY <1>2, <1>3, CommitRiderInv

(* An external courier's events leave the riders out of it. *)
Outside(v) == NobodyHas(v) /\ v.leg.provider # InHouse

LEMMA ApplyOutside ==
  ASSUME NEW v \in Views, Outside(v), NEW e
  PROVE  Apply(v, e) \in Views /\ Outside(Apply(v, e))
<1>1. CASE NextLegStatus(v.leg.status, e) = NoStatus
  BY <1>1, ApplyNothing
<1>2. CASE NextLegStatus(v.leg.status, e) # NoStatus
  <2> DEFINE u == Apply(v, e)
  <2>1. Effect(v, e, u)
    BY <1>2, ApplyEffect
  <2> HIDE DEF u
  <2>2. u \in Views /\ u.leg.provider # InHouse
    BY <2>1 DEF Effect, Outside
  <2>3. ASSUME u.ok
        PROVE  u.riderId = NoRider /\ u.leg.courier = NoRider /\ u.active = activeOrders
    <3>1. v.riderId = NoRider /\ v.leg.courier = NoRider /\ v.active = activeOrders
      BY <2>1, <2>3 DEF Effect, Outside, NobodyHas
    <3> QED BY <2>1, <2>3, <3>1 DEF Effect
  <2>4. NobodyHas(u)
    BY <2>2, <2>3 DEF NobodyHas
  <2> QED BY <2>2, <2>4 DEF Outside, u
<1> QED BY <1>1, <1>2

LEMMA ReplayOutside ==
  ASSUME NEW v \in Views, Outside(v), NEW path
  PROVE  Replay(v, path) \in Views /\ Outside(Replay(v, path))
<1> DEFINE event(k) == IF k <= Len(path) THEN path[k] ELSE NoStatus
           v1 == Apply(v, event(1))
           v2 == Apply(v1, event(2))
           v3 == Apply(v2, event(3))
           v4 == Apply(v3, event(4))
<1>1. v1 \in Views /\ Outside(v1)
  BY ApplyOutside
<1>2. v2 \in Views /\ Outside(v2)
  <2> HIDE DEF v1, event
  <2> QED BY <1>1, ApplyOutside
<1>3. v3 \in Views /\ Outside(v3)
  <2> HIDE DEF v2, event
  <2> QED BY <1>2, ApplyOutside
<1>4. v4 \in Views /\ Outside(v4)
  <2> HIDE DEF v3, event
  <2> QED BY <1>3, ApplyOutside
<1>5. Replay(v, path) = v4
  BY DEF Replay
<1> QED BY <1>4, <1>5

(* Nor does a new leg, which waits for somebody to take it. *)
LEMMA DispatchToNobody ==
  ASSUME NEW v \in Views, NobodyHas(v), NEW p \in Providers \cup {NoProvider},
         NEW w \in Dispatch(v, p)
  PROVE  w \in Views /\ NobodyHas(w)
<1>1. w = v \/ \E q \in Providers : w = Request(v, q)
  BY DEF Dispatch
<1>2. ASSUME NEW q \in Providers, w = Request(v, q)
      PROVE  w \in Views /\ NobodyHas(w)
  <2>1. Requested(v, q, w)
    BY <1>2, RequestEffect
  <2> QED BY <2>1 DEF Requested, NobodyHas
<1> QED BY <1>1, <1>2

-----------------------------------------------------------------------------
(* One lemma per kind of handler. *)

LEMMA ViewOutside ==
  ASSUME NodeInv, RiderInv, NEW o \in Orders, leg[o].provider # InHouse
  PROVE  View(o) \in Views /\ Outside(View(o)) /\ riderId[o] = NoRider
<1>1. InHands(riderId[o], leg[o])
  BY DEF RiderInv
<1>2. leg[o].courier = NoRider /\ riderId[o] = NoRider
  BY <1>1 DEF InHands
<1> QED BY <1>2, ViewInStep DEF View, Outside, NobodyHas

LEMMA CheckoutKeepsRiderInv ==
  ASSUME NodeInv, RiderInv, NEW o \in Orders,
         CreatePaymentIntent(o) \/ ConfirmPaymentIntentPaid(o) \/ ExpirePaymentIntent(o)
  PROVE  RiderInv'
<1>1. /\ UNCHANGED <<riderId, leg, activeOrders>>
      /\ \A q \in Orders \ {o} : status'[q] = status[q]
      /\ status'[o] = status[o] \/ (intent[o] # "paid" /\ status'[o] = "awaiting_drop_off")
  BY DEF CreatePaymentIntent, ConfirmPaymentIntentPaid, ExpirePaymentIntent, orderVars, NodeInv, TypeOK
<1>2. \A r \in Riders : Carrying(r, status[o], riderId[o]) = Carrying(r, status'[o], riderId'[o])
  <2>1. intent[o] # "paid" => status[o] = NoOrder
    BY DEF NodeInv, PaidHasOrder
  <2> QED BY <1>1, <2>1 DEF Carrying, NoOrder
<1>3. activeOrders' \in [Riders -> Nat]
  BY <1>1 DEF NodeInv, TypeOK
<1>4. RiderAuditClean'
  <2>1. \A r \in Riders : activeOrders'[r] = activeOrders[r] /\ activeOrders[r] \in Nat
    BY <1>1 DEF NodeInv, TypeOK
  <2> QED BY <1>1, <1>2, <1>3, <2>1, RidersCount DEF NodeInv, RiderInv
<1> QED BY <1>1, <1>4 DEF RiderInv

LEMMA DropOffKeepsRiderInv ==
  ASSUME NodeInv, RiderInv, NEW o \in Orders, ConfirmDropOff(o)
  PROVE  RiderInv'
<1> DEFINE t == Transition(View(o), "awaiting_drop_off", "parcel_received_at_origin")
           v == PlaceOnShelf(t, Origin[o])
<1>1. View(o) \in Views /\ TypeOK /\ Origin[o] \in Nodes
  BY ViewInStep, FulfilmentAssumption DEF NodeInv
<1>2. Moved(View(o), "awaiting_drop_off", "parcel_received_at_origin", t)
  BY <1>1, TransitionMoves DEF Statuses, OrderStatuses
<1>3. Shelved(t, [node |-> Origin[o], number |-> LowestFreeShelf(Origin[o])], v)
  <2> HIDE DEF t
  <2> QED BY <1>1, <1>2, PlacedOnShelf DEF Moved
<1>4. PICK w \in Dispatch(v, NoProvider) : Commit(o, w)
  BY DEF ConfirmDropOff, DroppedOff
<1>5. v.riderId = riderId[o] /\ v.leg = leg[o] /\ v.active = activeOrders /\ v \in Views
  <2> HIDE DEF t, v
  <2> QED BY <1>2, <1>3 DEF Moved, Shelved, View
<1>6. v.ok => status[o] = "awaiting_drop_off"
  <2> HIDE DEF t, v
  <2> QED BY <1>2, <1>3 DEF Moved, Shelved, View
<1>7. w.ok => v.ok
  <2> HIDE DEF v
  <2>1. w = v \/ \E q \in Providers : w = Request(v, q)
    BY <1>4 DEF Dispatch
  <2>2. ASSUME NEW q \in Providers, w = Request(v, q) PROVE w.ok = v.ok
    BY <1>5, <2>2, RequestEffect DEF Requested
  <2> QED BY <2>1, <2>2
<1>8. status[o] = "awaiting_drop_off"
  BY <1>4, <1>6, <1>7 DEF Commit
<1>9. leg[o].status = NoStatus
  BY <1>8 DEF NodeInv, LegAndOrderAgree, LegStatusesOf
<1>10. InHands(riderId[o], leg[o])
  BY DEF RiderInv
<1>11. riderId[o] = NoRider /\ leg[o].courier = NoRider /\ leg[o].provider # InHouse
  BY <1>9, <1>10 DEF InHands, NoStatus
<1>12. NobodyHas(v)
  BY <1>5, <1>11 DEF NobodyHas
<1>13. w \in Views /\ NobodyHas(w)
  <2> HIDE DEF v
  <2> QED BY <1>4, <1>5, <1>12, DispatchToNobody
<1> QED BY <1>1, <1>4, <1>11, <1>13, NobodyCommits

(* The counters that give the parcel to a shelf or to a person. *)
LEMMA CounterKeepsRiderInv ==
  ASSUME NodeInv, RiderInv, NEW o \in Orders,
         ConfirmIntake(o) \/ ConfirmCollection(o) \/ ReturnIntake(o) \/ ReturnCollection(o)
  PROVE  RiderInv'
<1>1. /\ View(o) \in Views /\ TypeOK /\ Origin[o] \in Nodes /\ Destination[o] \in Nodes
  BY ViewInStep, FulfilmentAssumption DEF NodeInv
<1>2. ASSUME NEW from, NEW to \in Statuses, NEW s, NEW t, NEW v,
             {from, to} \cap {"rider_assigned", "in_transit"} = {},
             Moved(View(o), from, to, t), Shelved(t, s, v), Commit(o, v)
      PROVE  RiderInv'
  <2>1. v \in Views /\ v.riderId = riderId[o] /\ v.leg = leg[o] /\ v.active = activeOrders
    BY <1>2 DEF Moved, Shelved, View
  <2>2. v.status = to /\ status[o] = from
    BY <1>2 DEF Moved, Shelved, View, Commit
  <2>3. InHands(v.riderId, v.leg)
    BY <2>1 DEF RiderInv
  <2>4. \A r \in Riders : v.active[r] + Carrying(r, status[o], riderId[o])
                            = activeOrders[r] + Carrying(r, v.status, v.riderId)
    BY <1>2, <2>1, <2>2 DEF Carrying
  <2> QED BY <1>1, <1>2, <2>1, <2>3, <2>4, CommitRiderInv
<1>3. CASE ConfirmIntake(o)
  <2> DEFINE t == Transition(View(o), "arrived_at_destination", "ready_for_collection")
             v == PlaceOnShelf(t, Destination[o])
  <2>1. Moved(View(o), "arrived_at_destination", "ready_for_collection", t)
    BY <1>1, TransitionMoves DEF Statuses, OrderStatuses
  <2>2. Commit(o, v)
    BY <1>3 DEF ConfirmIntake, TakenIn
  <2> HIDE DEF t
  <2>3. Shelved(t, [node |-> Destination[o], number |-> LowestFreeShelf(Destination[o])], v)
    BY <1>1, <2>1, PlacedOnShelf DEF Moved
  <2> HIDE DEF v
  <2> QED BY <1>2, <2>1, <2>2, <2>3 DEF Statuses, OrderStatuses
<1>4. CASE ConfirmCollection(o)
  <2> DEFINE t == Transition(View(o), "ready_for_collection", "completed")
             v == ClearShelf(t)
  <2>1. Moved(View(o), "ready_for_collection", "completed", t)
    BY <1>1, TransitionMoves DEF Statuses, OrderStatuses
  <2>2. Commit(o, v)
    BY <1>4 DEF ConfirmCollection, HandedOut
  <2> HIDE DEF t
  <2>3. Shelved(t, NoShelf, v)
    BY <2>1, TakenFromShelf DEF Moved
  <2> HIDE DEF v
  <2> QED BY <1>2, <2>1, <2>2, <2>3 DEF Statuses, OrderStatuses
<1>5. CASE ReturnIntake(o)
  <2> DEFINE t == Transition(View(o), "returned_to_origin", "ready_for_sender_collection")
             v == PlaceOnShelf(t, Origin[o])
  <2>1. Moved(View(o), "returned_to_origin", "ready_for_sender_collection", t)
    BY <1>1, TransitionMoves DEF Statuses, OrderStatuses
  <2>2. Commit(o, v)
    BY <1>5 DEF ReturnIntake, TakenBack
  <2> HIDE DEF t
  <2>3. Shelved(t, [node |-> Origin[o], number |-> LowestFreeShelf(Origin[o])], v)
    BY <1>1, <2>1, PlacedOnShelf DEF Moved
  <2> HIDE DEF v
  <2> QED BY <1>2, <2>1, <2>2, <2>3 DEF Statuses, OrderStatuses
<1>6. CASE ReturnCollection(o)
  <2> DEFINE t == Transition(View(o), "ready_for_sender_collection", "return_completed")
             c == ClearShelf(t)
             v == ReleaseNodeSlot(c)
  <2>1. Moved(View(o), "ready_for_sender_collection", "return_completed", t)
    BY <1>1, TransitionMoves DEF Statuses, OrderStatuses
  <2>2. Commit(o, v)
    BY <1>6 DEF ReturnCollection, HandedBack
  <2> HIDE DEF t
  <2>3. Shelved(t, NoShelf, c)
    BY <2>1, TakenFromShelf DEF Moved
  <2> HIDE DEF c
  <2>4. Shelved(t, NoShelf, v)
    BY <2>3, SlotReleased
  <2> HIDE DEF v
  <2> QED BY <1>2, <2>1, <2>2, <2>4 DEF Statuses, OrderStatuses
<1> QED BY <1>3, <1>4, <1>5, <1>6

(* A rider takes an order: one more on both sides. *)
LEMMA AcceptKeepsRiderInv ==
  ASSUME NodeInv, RiderInv, NEW o \in Orders, NEW r \in Riders, AcceptOrder(o, r)
  PROVE  RiderInv'
<1>1. PICK m, u : Accepted(o, r, m, u)
  BY AcceptOrderAssigns
<1>2. /\ Effect(m, "assigned", u) /\ Commit(o, u) /\ u.ok
      /\ m.status = status[o] /\ m.riderId = riderId[o]
      /\ m.active = [activeOrders EXCEPT ![r] = activeOrders[r] + 1]
      /\ m.leg.courier = r /\ m.leg.provider = InHouse
  BY <1>1 DEF Accepted, Commit
<1>3. r # NoRider /\ TypeOK
  BY FulfilmentAssumption DEF NodeInv
<1>4. /\ u \in Views /\ u.leg.provider = InHouse /\ u.leg.courier = r /\ u.leg.status = "assigned"
      /\ u.status = "rider_assigned" /\ u.riderId = r /\ u.active = m.active
      /\ m.riderId = NoRider
  BY <1>2, <1>3 DEF Effect
<1>5. InHands(u.riderId, u.leg)
  BY <1>4 DEF InHands, NoStatus
<1>6. \A x \in Riders : u.active[x] + Carrying(x, status[o], riderId[o])
                          = activeOrders[x] + Carrying(x, u.status, u.riderId)
  BY <1>2, <1>3, <1>4, FulfilmentAssumption DEF Carrying, TypeOK
<1> QED BY <1>2, <1>3, <1>4, <1>5, <1>6, CommitRiderInv

(* A rider's code: picked up, the rider still has it; delivered, one less  *)
(* on both sides.                                                          *)
LEMMA HandoffKeepsRiderInv ==
  ASSUME NodeInv, RiderInv, NEW o \in Orders, NEW event \in {"picked_up", "delivered"},
         ConfirmHandoff(o, event)
  PROVE  RiderInv'
<1> DEFINE v == View(o)
           r == riderId[o]
           u == Apply(v, event)
<1>1. v \in Views /\ TypeOK
  BY ViewInStep DEF NodeInv
<1>2. /\ r \in Riders /\ leg[o].provider = InHouse /\ Commit(o, u)
      /\ NextLegStatus(leg[o].status, event) # NoStatus
  <2>1. IsActive(leg[o])
    BY HandoffOfActiveLeg
  <2> QED BY <1>1, <2>1 DEF ConfirmHandoff, MayHandOver, Carried, HandedOver, View, TypeOK
<1>3. /\ v.status = status[o] /\ v.riderId = r /\ v.leg = leg[o] /\ v.active = activeOrders
      /\ leg[o].courier = r
  BY DEF View, RiderInv, InHands
<1>4. Effect(v, event, u)
  BY <1>1, <1>2, <1>3, ApplyEffect
<1>5. u.ok
  BY <1>2 DEF Commit
<1>6. r # NoRider
  BY <1>2, FulfilmentAssumption
<1> HIDE DEF v, r, u
<1>7. u \in Views /\ u.riderId = r /\ u.leg.courier = r /\ u.leg.provider = InHouse
  BY <1>2, <1>3, <1>4, <1>5 DEF Effect
<1>8. CASE event = "picked_up"
  <2>1. /\ u.leg.status = "picked_up" /\ u.status = "in_transit" /\ u.active = activeOrders
        /\ status[o] = "rider_assigned"
    BY <1>3, <1>4, <1>5, <1>8 DEF Effect
  <2>2. InHands(u.riderId, u.leg)
    BY <1>7, <2>1 DEF InHands, NoStatus
  <2>3. \A x \in Riders : u.active[x] + Carrying(x, status[o], riderId[o])
                            = activeOrders[x] + Carrying(x, u.status, u.riderId)
    BY <1>7, <2>1 DEF Carrying, r
  <2> QED BY <1>1, <1>2, <1>7, <2>2, <2>3, CommitRiderInv
<1>9. CASE event = "delivered"
  <2>1. /\ u.leg.status = "delivered" /\ u.status = "arrived_at_destination"
        /\ u.active = [activeOrders EXCEPT ![r] = Released(activeOrders[r])]
        /\ status[o] = "in_transit"
    BY <1>3, <1>4, <1>5, <1>6, <1>9 DEF Effect
  <2>2. InHands(u.riderId, u.leg)
    BY <1>7, <2>1 DEF InHands, NoStatus
  <2>3. Carrying(r, status[o], riderId[o]) = 1 /\ Carrying(r, u.status, u.riderId) = 0
    BY <2>1 DEF Carrying, r
  <2>4. activeOrders[r] \in Nat /\ Released(activeOrders[r]) = activeOrders[r] - 1
    BY <1>1, <1>2, <2>3, CarrierIsCounted, ReleasedType DEF RiderInv
  <2>5. \A x \in Riders \ {r} :
          /\ u.active[x] = activeOrders[x]
          /\ Carrying(x, status[o], riderId[o]) = 0 /\ Carrying(x, u.status, u.riderId) = 0
    BY <1>1, <1>2, <1>7, <2>1 DEF Carrying, r, TypeOK
  <2>6. u.active[r] = activeOrders[r] - 1
    BY <1>1, <1>2, <2>1, <2>4 DEF TypeOK
  <2>7. \A x \in Riders : u.active[x] + Carrying(x, status[o], riderId[o])
                            = activeOrders[x] + Carrying(x, u.status, u.riderId)
    BY <2>3, <2>4, <2>5, <2>6
  <2> QED BY <1>1, <1>2, <1>7, <2>2, <2>7, CommitRiderInv
<1> QED BY <1>8, <1>9

LEMMA SubmitKeepsRiderInv ==
  ASSUME NodeInv, RiderInv, NEW o \in Orders, SubmitAccepted(o) \/ SubmitRefused(o)
  PROVE  RiderInv'
<1>1. CASE SubmitAccepted(o)
  <2>1. /\ UNCHANGED <<status, riderId, activeOrders>>
        /\ \A q \in Orders :
             /\ leg'[q].status = leg[q].status /\ leg'[q].courier = leg[q].courier
             /\ leg'[q].provider = leg[q].provider
    BY <1>1 DEF SubmitAccepted, NodeInv, TypeOK, Legs
  <2>2. RiderAuditClean'
    BY <2>1 DEF RiderInv, RiderAuditClean, Carries
  <2>3. \A q \in Orders : InHands(riderId'[q], leg'[q])
    BY <2>1 DEF RiderInv, InHands
  <2> QED BY <2>2, <2>3 DEF RiderInv
<1>2. CASE SubmitRefused(o)
  <2> DEFINE v == [View(o) EXCEPT !.leg = [leg[o] EXCEPT !.status = "cancelled"]]
  <2>1. leg[o].provider # InHouse /\ \E w \in Dispatch(v, NoProvider) : Commit(o, w)
    BY <1>2 DEF SubmitRefused, View
  <2>2. View(o) \in Views /\ Outside(View(o)) /\ riderId[o] = NoRider /\ TypeOK
    BY <2>1, ViewOutside DEF NodeInv
  <2>3. /\ v \in Views /\ v.leg.provider = leg[o].provider /\ v.leg.courier = leg[o].courier
        /\ v.riderId = riderId[o] /\ v.active = activeOrders
    BY <2>2 DEF View, Views, Legs, LegStatuses, TypeOK
  <2>4. NobodyHas(v)
    BY <2>1, <2>2, <2>3 DEF Outside, NobodyHas, View
  <2> HIDE DEF v
  <2>5. PICK w \in Dispatch(v, NoProvider) : Commit(o, w)
    BY <2>1
  <2>6. w \in Views /\ NobodyHas(w)
    BY <2>3, <2>4, DispatchToNobody
  <2> QED BY <2>2, <2>5, <2>6, NobodyCommits
<1> QED BY <1>1, <1>2

(* An external courier is at work, or is sent away. *)
LEMMA CourierKeepsRiderInv ==
  ASSUME InHouse \notin TimedProviders, NodeInv, RiderInv, NEW o \in Orders,
         \/ \E reported \in LegStatuses : SyncFromSnapshot(o, reported)
         \/ ExpireUnassigned(o) \/ FallbackToInHouse(o)
  PROVE  RiderInv'
<1>1. leg[o].provider # InHouse
  BY DEF SyncFromSnapshot, ExpireUnassigned, FallbackToInHouse
<1>2. View(o) \in Views /\ Outside(View(o)) /\ riderId[o] = NoRider /\ TypeOK
  BY <1>1, ViewOutside DEF NodeInv
<1>3. PICK v \in Views, p \in Providers \cup {NoProvider} :
        Outside(v) /\ (Commit(o, v) \/ \E w \in Dispatch(v, p) : Commit(o, w))
  <2>1. ASSUME NEW reported \in LegStatuses, SyncFromSnapshot(o, reported)
        PROVE  \E v \in Views, p \in Providers \cup {NoProvider} :
                 Outside(v) /\ (Commit(o, v) \/ \E w \in Dispatch(v, p) : Commit(o, w))
    <3> DEFINE v == Replay(View(o), EventsToReach(leg[o].status, reported))
    <3>1. v \in Views /\ Outside(v)
      BY <1>2, ReplayOutside
    <3>2. \E w \in IF v.leg.status = "cancelled" THEN Dispatch(v, NoProvider) ELSE {v} : Commit(o, w)
      BY <2>1 DEF SyncFromSnapshot
    <3> HIDE DEF v
    <3> QED BY <3>1, <3>2
  <2>2. ASSUME ExpireUnassigned(o) \/ FallbackToInHouse(o)
        PROVE  \E v \in Views, p \in Providers \cup {NoProvider} :
                 Outside(v) /\ \E w \in Dispatch(v, p) : Commit(o, w)
    <3> DEFINE v == Apply(View(o), "cancelled")
    <3>1. v \in Views /\ Outside(v)
      BY <1>2, ApplyOutside
    <3>2. \/ \E w \in Dispatch(v, NoProvider) : Commit(o, w)
          \/ \E w \in Dispatch(v, InHouse) : Commit(o, w)
      BY <2>2 DEF ExpireUnassigned, FallbackToInHouse
    <3> HIDE DEF v
    <3> QED BY <3>1, <3>2, FulfilmentAssumption
  <2> QED BY <2>1, <2>2
<1>4. NobodyHas(v)
  BY <1>3 DEF Outside
<1>5. CASE Commit(o, v)
  BY <1>2, <1>4, <1>5, NobodyCommits
<1>6. CASE \E w \in Dispatch(v, p) : Commit(o, w)
  <2>1. PICK w \in Dispatch(v, p) : Commit(o, w)
    BY <1>6
  <2>2. w \in Views /\ NobodyHas(w)
    BY <1>4, DispatchToNobody
  <2> QED BY <1>2, <2>1, <2>2, NobodyCommits
<1> QED BY <1>3, <1>5, <1>6

LEMMA InitRiderInv == Init => RiderInv
<1> SUFFICES ASSUME Init PROVE RiderInv
  OBVIOUS
<1>1. \A o \in Orders : InHands(riderId[o], leg[o])
  BY FulfilmentAssumption DEF Init, NoLeg, InHands
<1>2. RiderAuditClean
  <2>1. \A r \in Riders : { o \in Orders : Carries(r, o) } = {}
    BY FulfilmentAssumption DEF Init, Carries
  <2> QED BY <2>1, FS_EmptySet DEF RiderAuditClean, Init
<1> QED BY <1>1, <1>2 DEF RiderInv

LEMMA NextRiderInv ==
  ASSUME InHouse \notin TimedProviders
  PROVE  NodeInv /\ RiderInv /\ [Next]_vars => RiderInv'
<1> SUFFICES ASSUME NodeInv, RiderInv, [Next]_vars PROVE RiderInv'
  OBVIOUS
<1>1. CASE UNCHANGED vars
  BY <1>1 DEF vars, orderVars, RiderInv, RiderAuditClean, Carries
<1>2. ASSUME NEW o \in Orders,
             CreatePaymentIntent(o) \/ ConfirmPaymentIntentPaid(o) \/ ExpirePaymentIntent(o)
      PROVE  RiderInv'
  BY <1>2, CheckoutKeepsRiderInv
<1>3. ASSUME NEW o \in Orders, ConfirmDropOff(o) PROVE RiderInv'
  BY <1>3, DropOffKeepsRiderInv
<1>4. ASSUME NEW o \in Orders,
             ConfirmIntake(o) \/ ConfirmCollection(o) \/ ReturnIntake(o) \/ ReturnCollection(o)
      PROVE  RiderInv'
  BY <1>4, CounterKeepsRiderInv
<1>5. ASSUME NEW o \in Orders, NEW r \in Riders, AcceptOrder(o, r) PROVE RiderInv'
  BY <1>5, AcceptKeepsRiderInv
<1>6. ASSUME NEW o \in Orders, NEW event \in {"picked_up", "delivered"}, ConfirmHandoff(o, event)
      PROVE  RiderInv'
  BY <1>6, HandoffKeepsRiderInv
<1>7. ASSUME NEW o \in Orders, SubmitAccepted(o) \/ SubmitRefused(o) PROVE RiderInv'
  BY <1>7, SubmitKeepsRiderInv
<1>8. ASSUME NEW o \in Orders,
             \/ \E reported \in LegStatuses : SyncFromSnapshot(o, reported)
             \/ ExpireUnassigned(o) \/ FallbackToInHouse(o)
      PROVE  RiderInv'
  BY <1>8, CourierKeepsRiderInv
<1> QED BY <1>1, <1>2, <1>3, <1>4, <1>5, <1>6, <1>7, <1>8 DEF Next

LEMMA RiderInvariant == ASSUME InHouse \notin TimedProviders PROVE Spec => []RiderInv
<1>1. Init => RiderInv
  BY InitRiderInv
<1>2. NodeInv /\ RiderInv /\ [Next]_vars => RiderInv'
  BY NextRiderInv
<1> QED BY <1>1, <1>2, NodeInvariant, PTL DEF Spec

(* The rider's half of the capacity audit never finds a difference, as     *)
(* long as the pool has no assignment timeout, for any number of orders    *)
(* and riders.                                                             *)
THEOREM RiderAuditAlwaysClean ==
  ASSUME InHouse \notin TimedProviders PROVE Spec => []RiderAuditClean
<1>1. RiderInv => RiderAuditClean
  BY DEF RiderInv
<1> QED BY <1>1, RiderInvariant, PTL

-----------------------------------------------------------------------------
(* Crews: who a leg is with, whatever is timed out.                        *)

(* A leg somebody has taken is the courier's the order names, and an       *)
(* external courier's has been booked; a leg nobody has leaves the order   *)
(* without a rider; and the pool's legs never go back.                     *)
Crewed(r, l) ==
  /\ l.status \in {NoStatus, "requested", "cancelled"} => r = NoRider
  /\ l.status \notin {NoStatus, "requested", "cancelled"} =>
       r = l.courier /\ (l.provider \in Providers \ {InHouse} => l.booked)
  /\ l.status \in {"returning", "returned"} => l.provider # InHouse

CrewInv == \A o \in Orders : Crewed(riderId[o], leg[o])

Crews(v) == v.ok => Crewed(v.riderId, v.leg)

LEMMA CommitCrews ==
  ASSUME NodeInv, CrewInv, NEW o \in Orders, NEW v \in Views, Commit(o, v), Crews(v)
  PROVE  CrewInv'
<1>1. /\ riderId'[o] = v.riderId /\ leg'[o] = v.leg /\ v.ok
      /\ \A q \in Orders \ {o} : riderId'[q] = riderId[q] /\ leg'[q] = leg[q]
  BY DEF Commit, NodeInv, TypeOK
<1> QED BY <1>1 DEF CrewInv, Crews

(* No event loses the courier; it takes a booking, or a rider's claim, to  *)
(* find one.                                                               *)
LEMMA ApplyCrews ==
  ASSUME TypeOK, NEW o \in Orders, NEW v \in Views, InStep(o, v), Crews(v), NEW e,
         e = "assigned" /\ v.leg.provider \in Providers \ {InHouse} => v.leg.booked,
         e = "returning" => v.leg.provider # InHouse
  PROVE  /\ Apply(v, e) \in Views /\ InStep(o, Apply(v, e)) /\ Crews(Apply(v, e))
         /\ Apply(v, e).leg.provider = v.leg.provider /\ Apply(v, e).leg.booked = v.leg.booked
<1> DEFINE u == Apply(v, e)
<1>1. u \in Views /\ InStep(o, u)
  BY ApplyInStep
<1>2. CASE NextLegStatus(v.leg.status, e) = NoStatus
  BY <1>1, <1>2, ApplyNothing
<1>3. CASE NextLegStatus(v.leg.status, e) # NoStatus
  <2>1. Effect(v, e, u)
    BY <1>3, ApplyEffect
  <2> HIDE DEF u
  <2>2. u.leg.provider = v.leg.provider /\ u.leg.booked = v.leg.booked
    BY <2>1 DEF Effect
  <2>3. ASSUME u.ok PROVE Crewed(u.riderId, u.leg)
    <3>1. v.ok /\ Crewed(v.riderId, v.leg) /\ v.leg.status \in LegStatusesOf(v.status)
      BY <2>1, <2>3 DEF Effect, Crews, InStep
    <3>2. CASE e = "assigned"
      <4>1. /\ v.leg.status = "requested" /\ u.leg.status = "assigned"
            /\ u.leg.courier = v.leg.courier
            /\ v.leg.courier = NoRider => u.riderId = v.riderId
            /\ v.leg.courier # NoRider => u.riderId = v.leg.courier
        BY <2>1, <2>3, <3>2 DEF Effect
      <4>2. v.riderId = NoRider
        BY <3>1, <4>1 DEF Crewed
      <4> QED BY <2>2, <3>2, <4>1, <4>2 DEF Crewed, NoStatus
    <3>3. CASE e \in {"released", "cancelled"}
      <4>1. /\ v.leg.status \in {"requested", "assigned"}
            /\ u.leg.status \in {"requested", "cancelled"}
            /\ \/ v.status # "rider_assigned" /\ u.riderId = v.riderId
               \/ u.riderId = NoRider
        BY <2>1, <3>3 DEF Effect
      <4>2. v.leg.status = "assigned" => v.status = "rider_assigned"
        BY <3>1 DEF LegStatusesOf, NoStatus
      <4>3. u.riderId = NoRider
        BY <3>1, <4>1, <4>2 DEF Crewed
      <4> QED BY <4>1, <4>3 DEF Crewed, NoStatus
    <3>4. CASE e \notin {"assigned", "released", "cancelled"}
      <4>1. /\ v.leg.status \in {"assigned", "picked_up", "returning"}
            /\ u.leg.status \in {"picked_up", "delivered", "returning", "returned"}
            /\ u.riderId = v.riderId /\ u.leg.courier = v.leg.courier
            /\ u.leg.status = "returning" => e = "returning"
            /\ u.leg.status = "returned" => v.leg.status = "returning"
        BY <2>1, <3>4 DEF Effect
      <4> QED BY <2>2, <3>1, <4>1 DEF Crewed, NoStatus
    <3> QED BY <3>2, <3>3, <3>4
  <2>4. Crews(u)
    BY <2>3 DEF Crews
  <2> QED BY <1>1, <2>2, <2>4 DEF u
<1> QED BY <1>2, <1>3

LEMMA ReplayCrews ==
  ASSUME TypeOK, NEW o \in Orders, NEW v \in Views, InStep(o, v), Crews(v), NEW path,
         v.leg.booked, v.leg.provider # InHouse
  PROVE  LET w == Replay(v, path) IN w \in Views /\ Crews(w)
<1> DEFINE event(k) == IF k <= Len(path) THEN path[k] ELSE NoStatus
           Good(x) == x \in Views /\ InStep(o, x) /\ Crews(x)
                      /\ x.leg.booked /\ x.leg.provider # InHouse
           v1 == Apply(v, event(1))
           v2 == Apply(v1, event(2))
           v3 == Apply(v2, event(3))
           v4 == Apply(v3, event(4))
<1>0. ASSUME NEW x, Good(x), NEW e PROVE Good(Apply(x, e))
  BY <1>0, ApplyCrews
<1>1. Good(v1)
  <2> HIDE DEF event
  <2>1. Good(v)
    OBVIOUS
  <2> HIDE DEF Good
  <2> QED BY <1>0, <2>1
<1>2. Good(v2)
  <2> HIDE DEF Good, v1, event
  <2> QED BY <1>0, <1>1
<1>3. Good(v3)
  <2> HIDE DEF Good, v2, event
  <2> QED BY <1>0, <1>2
<1>4. Good(v4)
  <2> HIDE DEF Good, v3, event
  <2> QED BY <1>0, <1>3
<1>5. Replay(v, path) = v4
  BY DEF Replay
<1>6. v4 \in Views /\ Crews(v4)
  <2> HIDE DEF v4
  <2> QED BY <1>4
<1> HIDE DEF v4
<1> QED BY <1>5, <1>6

(* A new leg waits for its courier. *)
LEMMA DispatchCrews ==
  ASSUME NEW v \in Views, Crews(v), v.leg.status \in {NoStatus, "cancelled"},
         NEW p \in Providers \cup {NoProvider}, NEW w \in Dispatch(v, p)
  PROVE  w \in Views /\ Crews(w)
<1>1. w = v \/ \E q \in Providers : w = Request(v, q)
  BY DEF Dispatch
<1>2. ASSUME NEW q \in Providers, w = Request(v, q) PROVE w \in Views /\ Crews(w)
  <2>1. Requested(v, q, w)
    BY <1>2, RequestEffect
  <2>2. w.ok => v.ok /\ v.riderId = NoRider
    BY <2>1 DEF Requested, Crews, Crewed
  <2> QED BY <2>1, <2>2 DEF Requested, Crews, Crewed
<1> QED BY <1>1, <1>2

LEMMA ViewCrews ==
  ASSUME NodeInv, CrewInv, NEW o \in Orders
  PROVE  /\ View(o) \in Views /\ InStep(o, View(o)) /\ Crews(View(o)) /\ TypeOK
         /\ View(o).leg = leg[o] /\ View(o).riderId = riderId[o] /\ View(o).status = status[o]
BY ViewInStep DEF View, Crews, CrewInv, NodeInv

LEMMA CounterKeepsCrews ==
  ASSUME NodeInv, CrewInv, NEW o \in Orders,
         \/ ConfirmDropOff(o) \/ ConfirmIntake(o) \/ ConfirmCollection(o)
         \/ ReturnIntake(o) \/ ReturnCollection(o)
  PROVE  CrewInv'
<1>1. /\ View(o) \in Views /\ TypeOK /\ Crewed(riderId[o], leg[o])
      /\ Origin[o] \in Nodes /\ Destination[o] \in Nodes
  BY ViewCrews, FulfilmentAssumption DEF CrewInv
<1>2. ASSUME NEW from, NEW to, NEW t, NEW s, NEW v,
             Moved(View(o), from, to, t), Shelved(t, s, v)
      PROVE  /\ v \in Views /\ Crews(v) /\ v.leg = leg[o]
             /\ v.ok => status[o] = from
  BY <1>1, <1>2 DEF Moved, Shelved, View, Crews
<1>3. CASE ConfirmDropOff(o)
  <2> DEFINE t == Transition(View(o), "awaiting_drop_off", "parcel_received_at_origin")
             v == PlaceOnShelf(t, Origin[o])
  <2>1. Moved(View(o), "awaiting_drop_off", "parcel_received_at_origin", t)
    BY <1>1, TransitionMoves DEF Statuses, OrderStatuses
  <2>2. PICK w \in Dispatch(v, NoProvider) : Commit(o, w)
    BY <1>3 DEF ConfirmDropOff, DroppedOff
  <2> HIDE DEF t
  <2>3. Shelved(t, [node |-> Origin[o], number |-> LowestFreeShelf(Origin[o])], v)
    BY <1>1, <2>1, PlacedOnShelf DEF Moved
  <2> HIDE DEF v
  <2>4. v \in Views /\ Crews(v) /\ v.leg = leg[o] /\ (v.ok => status[o] = "awaiting_drop_off")
    BY <1>2, <2>1, <2>3
  <2>5. w = v \/ \E q \in Providers : w = Request(v, q)
    BY <2>2 DEF Dispatch
  <2>6. ASSUME NEW q \in Providers, w = Request(v, q) PROVE w.ok = v.ok
    BY <2>4, <2>6, RequestEffect DEF Requested
  <2>7. status[o] = "awaiting_drop_off"
    BY <2>2, <2>4, <2>5, <2>6 DEF Commit
  <2>8. leg[o].status = NoStatus
    BY <2>7 DEF NodeInv, LegAndOrderAgree, LegStatusesOf
  <2> QED BY <2>2, <2>4, <2>8, DispatchCrews, CommitCrews
<1>4. CASE ConfirmIntake(o)
  <2> DEFINE t == Transition(View(o), "arrived_at_destination", "ready_for_collection")
             v == PlaceOnShelf(t, Destination[o])
  <2>1. Moved(View(o), "arrived_at_destination", "ready_for_collection", t)
    BY <1>1, TransitionMoves DEF Statuses, OrderStatuses
  <2>2. Commit(o, v)
    BY <1>4 DEF ConfirmIntake, TakenIn
  <2> HIDE DEF t
  <2>3. Shelved(t, [node |-> Destination[o], number |-> LowestFreeShelf(Destination[o])], v)
    BY <1>1, <2>1, PlacedOnShelf DEF Moved
  <2> HIDE DEF v
  <2> QED BY <1>2, <2>1, <2>2, <2>3, CommitCrews
<1>5. CASE ConfirmCollection(o)
  <2> DEFINE t == Transition(View(o), "ready_for_collection", "completed")
             v == ClearShelf(t)
  <2>1. Moved(View(o), "ready_for_collection", "completed", t)
    BY <1>1, TransitionMoves DEF Statuses, OrderStatuses
  <2>2. Commit(o, v)
    BY <1>5 DEF ConfirmCollection, HandedOut
  <2> HIDE DEF t
  <2>3. Shelved(t, NoShelf, v)
    BY <2>1, TakenFromShelf DEF Moved
  <2> HIDE DEF v
  <2> QED BY <1>2, <2>1, <2>2, <2>3, CommitCrews
<1>6. CASE ReturnIntake(o)
  <2> DEFINE t == Transition(View(o), "returned_to_origin", "ready_for_sender_collection")
             v == PlaceOnShelf(t, Origin[o])
  <2>1. Moved(View(o), "returned_to_origin", "ready_for_sender_collection", t)
    BY <1>1, TransitionMoves DEF Statuses, OrderStatuses
  <2>2. Commit(o, v)
    BY <1>6 DEF ReturnIntake, TakenBack
  <2> HIDE DEF t
  <2>3. Shelved(t, [node |-> Origin[o], number |-> LowestFreeShelf(Origin[o])], v)
    BY <1>1, <2>1, PlacedOnShelf DEF Moved
  <2> HIDE DEF v
  <2> QED BY <1>2, <2>1, <2>2, <2>3, CommitCrews
<1>7. CASE ReturnCollection(o)
  <2> DEFINE t == Transition(View(o), "ready_for_sender_collection", "return_completed")
             c == ClearShelf(t)
             v == ReleaseNodeSlot(c)
  <2>1. Moved(View(o), "ready_for_sender_collection", "return_completed", t)
    BY <1>1, TransitionMoves DEF Statuses, OrderStatuses
  <2>2. Commit(o, v)
    BY <1>7 DEF ReturnCollection, HandedBack
  <2> HIDE DEF t
  <2>3. Shelved(t, NoShelf, c)
    BY <2>1, TakenFromShelf DEF Moved
  <2> HIDE DEF c
  <2>4. Shelved(t, NoShelf, v)
    BY <2>3, SlotReleased
  <2> HIDE DEF v
  <2> QED BY <1>2, <2>1, <2>2, <2>4, CommitCrews
<1> QED BY <1>3, <1>4, <1>5, <1>6, <1>7

LEMMA CourierKeepsCrews ==
  ASSUME NodeInv, CrewInv, NEW o \in Orders,
         \/ \E r \in Riders : AcceptOrder(o, r)
         \/ \E event \in {"picked_up", "delivered"} : ConfirmHandoff(o, event)
         \/ SubmitAccepted(o) \/ SubmitRefused(o)
         \/ \E reported \in LegStatuses : SyncFromSnapshot(o, reported)
         \/ ExpireUnassigned(o) \/ FallbackToInHouse(o)
  PROVE  CrewInv'
<1>1. /\ View(o) \in Views /\ InStep(o, View(o)) /\ Crews(View(o)) /\ TypeOK
      /\ View(o).leg = leg[o] /\ View(o).riderId = riderId[o]
      /\ Crewed(riderId[o], leg[o])
  BY ViewCrews DEF CrewInv
<1>2. ASSUME NEW r \in Riders, AcceptOrder(o, r) PROVE CrewInv'
  <2>1. PICK m, u : Accepted(o, r, m, u)
    BY <1>2, AcceptOrderAssigns
  <2>2. r # NoRider
    BY FulfilmentAssumption
  <2>3. /\ u \in Views /\ Commit(o, u) /\ u.ok /\ u.leg.provider = InHouse
        /\ u.leg.courier = r /\ u.leg.status = "assigned" /\ u.riderId = r
    BY <2>1, <2>2 DEF Accepted, Effect, Commit
  <2>4. Crews(u)
    BY <2>3 DEF Crews, Crewed, NoStatus
  <2> QED BY <2>3, <2>4, CommitCrews
<1>3. ASSUME NEW event \in {"picked_up", "delivered"}, ConfirmHandoff(o, event) PROVE CrewInv'
  <2>1. Commit(o, Apply(View(o), event))
    BY <1>3, HandoffOfActiveLeg DEF ConfirmHandoff, MayHandOver, Carried, HandedOver
  <2> QED BY <1>1, <1>3, <2>1, ApplyCrews, CommitCrews
<1>4. CASE SubmitAccepted(o)
  <2>1. /\ riderId' = riderId
        /\ \A q \in Orders : /\ leg'[q].status = leg[q].status /\ leg'[q].courier = leg[q].courier
                             /\ leg'[q].provider = leg[q].provider
                             /\ leg[q].booked => leg'[q].booked
    BY <1>1, <1>4 DEF SubmitAccepted, TypeOK, Legs
  <2> QED BY <2>1 DEF CrewInv, Crewed
<1>5. CASE SubmitRefused(o)
  <2> DEFINE v == [View(o) EXCEPT !.leg = [leg[o] EXCEPT !.status = "cancelled"]]
  <2>1. PICK w \in Dispatch(v, NoProvider) : Commit(o, w)
    BY <1>5 DEF SubmitRefused, View
  <2>2. v \in Views /\ v.leg.status = "cancelled" /\ v.riderId = riderId[o]
    BY <1>1 DEF View, Views, Legs, LegStatuses, TypeOK
  <2> HIDE DEF v
  <2>3. riderId[o] = NoRider
    BY <1>1, <1>5 DEF SubmitRefused, Crewed
  <2>4. Crews(v)
    BY <2>2, <2>3 DEF Crews, Crewed
  <2> QED BY <2>1, <2>2, <2>4, DispatchCrews, CommitCrews
<1>6. ASSUME NEW reported \in LegStatuses, SyncFromSnapshot(o, reported) PROVE CrewInv'
  <2> DEFINE v == Replay(View(o), EventsToReach(leg[o].status, reported))
  <2>1. View(o).leg.booked /\ View(o).leg.provider # InHouse
    BY <1>1, <1>6 DEF SyncFromSnapshot
  <2>2. v \in Views /\ Crews(v)
    BY <1>1, <2>1, ReplayCrews
  <2>3. PICK w \in IF v.leg.status = "cancelled" THEN Dispatch(v, NoProvider) ELSE {v} : Commit(o, w)
    BY <1>6 DEF SyncFromSnapshot
  <2> HIDE DEF v
  <2> QED BY <2>2, <2>3, DispatchCrews, CommitCrews
<1>7. CASE ExpireUnassigned(o) \/ FallbackToInHouse(o)
  <2> DEFINE v == Apply(View(o), "cancelled")
  <2>1. v \in Views /\ Crews(v)
    BY <1>1, ApplyCrews
  <2>2. /\ NextLegStatus(leg[o].status, "cancelled") # NoStatus
        /\ \E p \in Providers \cup {NoProvider} : \E w \in Dispatch(v, p) : Commit(o, w)
    BY <1>7, FulfilmentAssumption DEF ExpireUnassigned, FallbackToInHouse
  <2>3. Effect(View(o), "cancelled", v)
    BY <1>1, <2>2, ApplyEffect
  <2> HIDE DEF v
  <2>4. v.leg.status = "cancelled"
    BY <2>3 DEF Effect
  <2> QED BY <2>1, <2>2, <2>4, DispatchCrews, CommitCrews
<1> QED BY <1>2, <1>3, <1>4, <1>5, <1>6, <1>7

LEMMA CrewInvariant == Spec => []CrewInv
<1>1. Init => CrewInv
  BY DEF Init, NoLeg, NoStatus, CrewInv, Crewed
<1>2. NodeInv /\ CrewInv /\ [Next]_vars => CrewInv'
  <2> SUFFICES ASSUME NodeInv, CrewInv, [Next]_vars PROVE CrewInv'
    OBVIOUS
  <2>1. CASE UNCHANGED vars
    BY <2>1 DEF vars, orderVars, CrewInv
  <2>2. ASSUME NEW o \in Orders,
               CreatePaymentIntent(o) \/ ConfirmPaymentIntentPaid(o) \/ ExpirePaymentIntent(o)
        PROVE  CrewInv'
    BY <2>2 DEF CreatePaymentIntent, ConfirmPaymentIntentPaid, ExpirePaymentIntent, orderVars, CrewInv
  <2>3. ASSUME NEW o \in Orders,
               \/ ConfirmDropOff(o) \/ ConfirmIntake(o) \/ ConfirmCollection(o)
               \/ ReturnIntake(o) \/ ReturnCollection(o)
        PROVE  CrewInv'
    BY <2>3, CounterKeepsCrews
  <2>4. ASSUME NEW o \in Orders,
               \/ \E r \in Riders : AcceptOrder(o, r)
               \/ \E event \in {"picked_up", "delivered"} : ConfirmHandoff(o, event)
               \/ SubmitAccepted(o) \/ SubmitRefused(o)
               \/ \E reported \in LegStatuses : SyncFromSnapshot(o, reported)
               \/ ExpireUnassigned(o) \/ FallbackToInHouse(o)
        PROVE  CrewInv'
    BY <2>4, CourierKeepsCrews
  <2> QED BY <2>1, <2>2, <2>3, <2>4 DEF Next
<1> QED BY <1>1, <1>2, NodeInvariant, PTL DEF Spec

(* Whoever an order names as its rider carried it. *)
THEOREM RiderAlwaysTheCourier == Spec => []RiderIsTheCourier
<1>1. CrewInv => RiderIsTheCourier
  BY DEF CrewInv, Crewed, RiderIsTheCourier, NoStatus
<1> QED BY <1>1, CrewInvariant, PTL

-----------------------------------------------------------------------------
(* Shelves. *)

(* Where an order of the status s has its parcel, if on a shelf. *)
ShelfAt(o, s) ==
  CASE s \in {"parcel_received_at_origin", "rider_assigned", "ready_for_sender_collection"} -> Origin[o]
    [] s = "ready_for_collection" -> Destination[o]
    [] OTHER -> NoNode

(* A view whose parcel lies where its status says, on a number of its own. *)
OwnShelf(o, v) ==
  v.ok =>
    /\ v.shelf.node = ShelfAt(o, v.status)
    /\ v.shelf.node = NoNode => v.shelf = NoShelf
    /\ v.shelf.node # NoNode =>
         \A q \in Orders \ {o} : shelf[q].node = v.shelf.node => shelf[q].number # v.shelf.number

LEMMA ViewOwnShelf ==
  ASSUME NodeInv, ShelvesConsistent, NEW o \in Orders
  PROVE  View(o) \in Views /\ OwnShelf(o, View(o))
<1>1. /\ View(o).shelf.node = ShelfAt(o, View(o).status)
      /\ shelf[o].node = NoNode => shelf[o] = NoShelf
  BY DEF ShelvesConsistent, ShelfOf, ShelfAt, View
<1>2. shelf[o].node # NoNode =>
        \A q \in Orders \ {o} : shelf[q].node = shelf[o].node => shelf[q].number # shelf[o].number
  BY DEF ShelvesConsistent
<1> QED BY <1>1, <1>2, ViewInStep DEF OwnShelf, View

LEMMA CommitOwnShelf ==
  ASSUME TypeOK, ShelvesConsistent, NEW o \in Orders, NEW v \in Views, OwnShelf(o, v), Commit(o, v)
  PROVE  ShelvesConsistent'
<1>1. /\ v.shelf.node = ShelfAt(o, v.status)
      /\ v.shelf.node = NoNode => v.shelf = NoShelf
      /\ v.shelf.node # NoNode =>
           \A q \in Orders \ {o} : shelf[q].node = v.shelf.node => shelf[q].number # v.shelf.number
  BY DEF OwnShelf, Commit
<1>2. /\ shelf'[o] = v.shelf /\ status'[o] = v.status
      /\ \A q \in Orders \ {o} : shelf'[q] = shelf[q] /\ status'[q] = status[q]
  BY DEF Commit, TypeOK
<1>3. \A q \in Orders :
        shelf'[q].node = ShelfOf(q)' /\ (ShelfOf(q)' = NoNode => shelf'[q] = NoShelf)
  <2>1. \A q \in Orders \ {o} : ShelfOf(q)' = ShelfOf(q)
    BY <1>2 DEF ShelfOf
  <2>2. ShelfOf(o)' = ShelfAt(o, v.status)
    BY <1>2 DEF ShelfOf, ShelfAt
  <2> QED BY <1>1, <1>2, <2>1, <2>2 DEF ShelvesConsistent
<1>4. ASSUME NEW q1 \in Orders, NEW q2 \in Orders, q1 # q2,
             shelf'[q1].node = shelf'[q2].node, shelf'[q1].node # NoNode
      PROVE  shelf'[q1].number # shelf'[q2].number
  BY <1>1, <1>2, <1>4 DEF ShelvesConsistent
<1> QED BY <1>3, <1>4 DEF ShelvesConsistent

LEMMA ApplyOwnShelf ==
  ASSUME NEW o \in Orders, NEW v \in Views, OwnShelf(o, v), NEW e
  PROVE  Apply(v, e) \in Views /\ OwnShelf(o, Apply(v, e))
<1>1. CASE NextLegStatus(v.leg.status, e) = NoStatus
  BY <1>1, ApplyNothing
<1>2. CASE NextLegStatus(v.leg.status, e) # NoStatus
  <2> DEFINE u == Apply(v, e)
  <2>1. Effect(v, e, u)
    BY <1>2, ApplyEffect
  <2> HIDE DEF u
  <2>2. u \in Views /\ u.shelf = IF e = "picked_up" THEN NoShelf ELSE v.shelf
    BY <2>1 DEF Effect
  <2>3. ASSUME u.ok PROVE OwnShelf(o, u)
    <3>1. v.ok
      BY <2>1, <2>3 DEF Effect
    <3>2. CASE e = "picked_up"
      <4>1. u.status = "in_transit" /\ u.shelf.node = NoNode /\ u.shelf = NoShelf
        BY <2>1, <2>2, <3>2 DEF Effect, NoShelf
      <4> QED BY <4>1 DEF OwnShelf, ShelfAt
    <3>3. CASE e # "picked_up"
      <4>1. \/ u.status = v.status
            \/ /\ u.status \in {"rider_assigned", "parcel_received_at_origin"}
               /\ v.status \in {"rider_assigned", "parcel_received_at_origin"}
            \/ /\ u.status \in {"arrived_at_destination", "return_in_transit", "returned_to_origin"}
               /\ v.status \in {"in_transit", "return_in_transit"}
        BY <2>1, <2>3, <3>3 DEF Effect
      <4>2. ShelfAt(o, u.status) = ShelfAt(o, v.status)
        BY <4>1 DEF ShelfAt
      <4> QED BY <2>2, <3>1, <3>3, <4>2 DEF OwnShelf
    <3> QED BY <3>2, <3>3
  <2>4. OwnShelf(o, u)
    BY <2>3 DEF OwnShelf
  <2> QED BY <2>2, <2>4 DEF u
<1> QED BY <1>1, <1>2

LEMMA ReplayOwnShelf ==
  ASSUME NEW o \in Orders, NEW v \in Views, OwnShelf(o, v), NEW path
  PROVE  Replay(v, path) \in Views /\ OwnShelf(o, Replay(v, path))
<1> DEFINE event(k) == IF k <= Len(path) THEN path[k] ELSE NoStatus
           v1 == Apply(v, event(1))
           v2 == Apply(v1, event(2))
           v3 == Apply(v2, event(3))
           v4 == Apply(v3, event(4))
<1>1. v1 \in Views /\ OwnShelf(o, v1)
  BY ApplyOwnShelf
<1>2. v2 \in Views /\ OwnShelf(o, v2)
  <2> HIDE DEF v1, event
  <2> QED BY <1>1, ApplyOwnShelf
<1>3. v3 \in Views /\ OwnShelf(o, v3)
  <2> HIDE DEF v2, event
  <2> QED BY <1>2, ApplyOwnShelf
<1>4. v4 \in Views /\ OwnShelf(o, v4)
  <2> HIDE DEF v3, event
  <2> QED BY <1>3, ApplyOwnShelf
<1>5. Replay(v, path) = v4
  BY DEF Replay
<1> QED BY <1>4, <1>5

LEMMA DispatchOwnShelf ==
  ASSUME NEW o \in Orders, NEW v \in Views, OwnShelf(o, v), NEW p \in Providers \cup {NoProvider},
         NEW w \in Dispatch(v, p)
  PROVE  w \in Views /\ OwnShelf(o, w)
<1>1. w = v \/ \E q \in Providers : w = Request(v, q)
  BY DEF Dispatch
<1>2. ASSUME NEW q \in Providers, w = Request(v, q)
      PROVE  w \in Views /\ OwnShelf(o, w)
  <2>1. Requested(v, q, w)
    BY <1>2, RequestEffect
  <2> QED BY <2>1 DEF Requested, OwnShelf
<1> QED BY <1>1, <1>2

(* A parcel is laid on the lowest free shelf, or taken from its shelf. *)
LEMMA LaidDown ==
  ASSUME TypeOK, NEW o \in Orders, NEW n \in Nodes, NEW from, NEW to, NEW t, NEW v, n = ShelfAt(o, to),
         Moved(View(o), from, to, t), Shelved(t, [node |-> n, number |-> LowestFreeShelf(n)], v)
  PROVE  OwnShelf(o, v)
<1>1. v.status = to /\ v.shelf.node = n /\ v.shelf.number = LowestFreeShelf(n)
  BY DEF Moved, Shelved
<1>2. \A q \in Orders : shelf[q].node = n => shelf[q].number # LowestFreeShelf(n)
  BY LowestFreeShelfIsFree
<1> QED BY <1>1, <1>2, FulfilmentAssumption DEF OwnShelf

LEMMA PickedUp ==
  ASSUME NEW o \in Orders, NEW from, NEW to, NEW t, NEW v, ShelfAt(o, to) = NoNode,
         Moved(View(o), from, to, t), Shelved(t, NoShelf, v)
  PROVE  OwnShelf(o, v)
BY DEF Moved, Shelved, OwnShelf, NoShelf

LEMMA CounterKeepsShelves ==
  ASSUME NodeInv, ShelvesConsistent, NEW o \in Orders,
         \/ ConfirmDropOff(o) \/ ConfirmIntake(o) \/ ConfirmCollection(o)
         \/ ReturnIntake(o) \/ ReturnCollection(o)
  PROVE  ShelvesConsistent'
<1>1. /\ View(o) \in Views /\ TypeOK /\ Origin[o] \in Nodes /\ Destination[o] \in Nodes
  BY ViewInStep, FulfilmentAssumption DEF NodeInv
<1>2. CASE ConfirmDropOff(o)
  <2> DEFINE t == Transition(View(o), "awaiting_drop_off", "parcel_received_at_origin")
             v == PlaceOnShelf(t, Origin[o])
  <2>1. Moved(View(o), "awaiting_drop_off", "parcel_received_at_origin", t)
    BY <1>1, TransitionMoves DEF Statuses, OrderStatuses
  <2>2. PICK w \in Dispatch(v, NoProvider) : Commit(o, w)
    BY <1>2 DEF ConfirmDropOff, DroppedOff
  <2> HIDE DEF t
  <2>3. Shelved(t, [node |-> Origin[o], number |-> LowestFreeShelf(Origin[o])], v)
    BY <1>1, <2>1, PlacedOnShelf DEF Moved
  <2> HIDE DEF v
  <2>4. v \in Views /\ OwnShelf(o, v)
    BY <1>1, <2>1, <2>3, LaidDown DEF ShelfAt, Shelved
  <2>5. w \in Views /\ OwnShelf(o, w)
    BY <2>2, <2>4, DispatchOwnShelf
  <2> QED BY <1>1, <2>2, <2>5, CommitOwnShelf
<1>3. CASE ConfirmIntake(o)
  <2> DEFINE t == Transition(View(o), "arrived_at_destination", "ready_for_collection")
             v == PlaceOnShelf(t, Destination[o])
  <2>1. Moved(View(o), "arrived_at_destination", "ready_for_collection", t)
    BY <1>1, TransitionMoves DEF Statuses, OrderStatuses
  <2>2. Commit(o, v)
    BY <1>3 DEF ConfirmIntake, TakenIn
  <2> HIDE DEF t
  <2>3. Shelved(t, [node |-> Destination[o], number |-> LowestFreeShelf(Destination[o])], v)
    BY <1>1, <2>1, PlacedOnShelf DEF Moved
  <2> HIDE DEF v
  <2>4. v \in Views /\ OwnShelf(o, v)
    BY <1>1, <2>1, <2>3, LaidDown DEF ShelfAt, Shelved
  <2> QED BY <1>1, <2>2, <2>4, CommitOwnShelf
<1>4. CASE ConfirmCollection(o)
  <2> DEFINE t == Transition(View(o), "ready_for_collection", "completed")
             v == ClearShelf(t)
  <2>1. Moved(View(o), "ready_for_collection", "completed", t)
    BY <1>1, TransitionMoves DEF Statuses, OrderStatuses
  <2>2. Commit(o, v)
    BY <1>4 DEF ConfirmCollection, HandedOut
  <2> HIDE DEF t
  <2>3. Shelved(t, NoShelf, v)
    BY <2>1, TakenFromShelf DEF Moved
  <2> HIDE DEF v
  <2>4. v \in Views /\ OwnShelf(o, v)
    BY <2>1, <2>3, PickedUp DEF ShelfAt, Shelved
  <2> QED BY <1>1, <2>2, <2>4, CommitOwnShelf
<1>5. CASE ReturnIntake(o)
  <2> DEFINE t == Transition(View(o), "returned_to_origin", "ready_for_sender_collection")
             v == PlaceOnShelf(t, Origin[o])
  <2>1. Moved(View(o), "returned_to_origin", "ready_for_sender_collection", t)
    BY <1>1, TransitionMoves DEF Statuses, OrderStatuses
  <2>2. Commit(o, v)
    BY <1>5 DEF ReturnIntake, TakenBack
  <2> HIDE DEF t
  <2>3. Shelved(t, [node |-> Origin[o], number |-> LowestFreeShelf(Origin[o])], v)
    BY <1>1, <2>1, PlacedOnShelf DEF Moved
  <2> HIDE DEF v
  <2>4. v \in Views /\ OwnShelf(o, v)
    BY <1>1, <2>1, <2>3, LaidDown DEF ShelfAt, Shelved
  <2> QED BY <1>1, <2>2, <2>4, CommitOwnShelf
<1>6. CASE ReturnCollection(o)
  <2> DEFINE t == Transition(View(o), "ready_for_sender_collection", "return_completed")
             c == ClearShelf(t)
             v == ReleaseNodeSlot(c)
  <2>1. Moved(View(o), "ready_for_sender_collection", "return_completed", t)
    BY <1>1, TransitionMoves DEF Statuses, OrderStatuses
  <2>2. Commit(o, v)
    BY <1>6 DEF ReturnCollection, HandedBack
  <2> HIDE DEF t
  <2>3. Shelved(t, NoShelf, c)
    BY <2>1, TakenFromShelf DEF Moved
  <2> HIDE DEF c
  <2>4. Shelved(t, NoShelf, v)
    BY <2>3, SlotReleased
  <2> HIDE DEF v
  <2>5. v \in Views /\ OwnShelf(o, v)
    BY <2>1, <2>4, PickedUp DEF ShelfAt, Shelved
  <2> QED BY <1>1, <2>2, <2>5, CommitOwnShelf
<1> QED BY <1>2, <1>3, <1>4, <1>5, <1>6

LEMMA CourierKeepsShelves ==
  ASSUME NodeInv, ShelvesConsistent, NEW o \in Orders,
         \/ \E r \in Riders : AcceptOrder(o, r)
         \/ \E event \in {"picked_up", "delivered"} : ConfirmHandoff(o, event)
         \/ SubmitRefused(o)
         \/ \E reported \in LegStatuses : SyncFromSnapshot(o, reported)
         \/ ExpireUnassigned(o) \/ FallbackToInHouse(o)
  PROVE  ShelvesConsistent'
<1>1. View(o) \in Views /\ OwnShelf(o, View(o)) /\ TypeOK
  BY ViewOwnShelf DEF NodeInv
<1>2. ASSUME NEW v \in Views, OwnShelf(o, v), NEW p \in Providers \cup {NoProvider},
             Commit(o, v) \/ \E w \in Dispatch(v, p) : Commit(o, w)
      PROVE  ShelvesConsistent'
  <2>1. CASE Commit(o, v)
    BY <1>1, <1>2, <2>1, CommitOwnShelf
  <2>2. CASE \E w \in Dispatch(v, p) : Commit(o, w)
    <3>1. PICK w \in Dispatch(v, p) : Commit(o, w)
      BY <2>2
    <3>2. w \in Views /\ OwnShelf(o, w)
      BY <1>2, DispatchOwnShelf
    <3> QED BY <1>1, <3>1, <3>2, CommitOwnShelf
  <2> QED BY <1>2, <2>1, <2>2
<1>3. ASSUME NEW r \in Riders, AcceptOrder(o, r) PROVE ShelvesConsistent'
  <2>1. PICK m, u : Accepted(o, r, m, u)
    BY <1>3, AcceptOrderAssigns
  <2>2. /\ u \in Views /\ u.shelf = shelf[o] /\ u.status = "rider_assigned" /\ Commit(o, u) /\ u.ok
        /\ status[o] = "parcel_received_at_origin"
    BY <2>1 DEF Accepted, Effect, Commit
  <2>3. OwnShelf(o, u)
    BY <1>1, <2>2 DEF OwnShelf, View, ShelfAt
  <2> QED BY <1>1, <2>2, <2>3, CommitOwnShelf
<1>4. ASSUME NEW event \in {"picked_up", "delivered"}, ConfirmHandoff(o, event)
      PROVE  ShelvesConsistent'
  <2>1. Commit(o, Apply(View(o), event))
    BY <1>4, HandoffOfActiveLeg DEF ConfirmHandoff, MayHandOver, Carried, HandedOver
  <2>2. Apply(View(o), event) \in Views /\ OwnShelf(o, Apply(View(o), event))
    BY <1>1, ApplyOwnShelf
  <2> QED BY <1>2, <2>1, <2>2
<1>5. CASE SubmitRefused(o)
  <2> DEFINE v == [View(o) EXCEPT !.leg = [leg[o] EXCEPT !.status = "cancelled"]]
  <2>1. \E w \in Dispatch(v, NoProvider) : Commit(o, w)
    BY <1>5 DEF SubmitRefused, View
  <2>2. /\ v \in Views /\ v.status = View(o).status /\ v.shelf = View(o).shelf
        /\ v.ok = View(o).ok
    BY <1>1 DEF View, Views, Legs, LegStatuses, TypeOK
  <2> HIDE DEF v
  <2>3. OwnShelf(o, v)
    BY <1>1, <2>2 DEF OwnShelf
  <2> QED BY <1>2, <2>1, <2>2, <2>3
<1>6. ASSUME NEW reported \in LegStatuses, SyncFromSnapshot(o, reported) PROVE ShelvesConsistent'
  <2> DEFINE v == Replay(View(o), EventsToReach(leg[o].status, reported))
  <2>1. v \in Views /\ OwnShelf(o, v)
    BY <1>1, ReplayOwnShelf
  <2>2. \E w \in IF v.leg.status = "cancelled" THEN Dispatch(v, NoProvider) ELSE {v} : Commit(o, w)
    BY <1>6 DEF SyncFromSnapshot
  <2> HIDE DEF v
  <2> QED BY <1>2, <2>1, <2>2
<1>7. CASE ExpireUnassigned(o) \/ FallbackToInHouse(o)
  <2> DEFINE v == Apply(View(o), "cancelled")
  <2>1. v \in Views /\ OwnShelf(o, v)
    BY <1>1, ApplyOwnShelf
  <2>2. \/ \E w \in Dispatch(v, NoProvider) : Commit(o, w)
        \/ \E w \in Dispatch(v, InHouse) : Commit(o, w)
    BY <1>7 DEF ExpireUnassigned, FallbackToInHouse
  <2> HIDE DEF v
  <2> QED BY <1>2, <2>1, <2>2, FulfilmentAssumption
<1> QED BY <1>3, <1>4, <1>5, <1>6, <1>7

LEMMA InitShelves == Init => ShelvesConsistent
BY DEF Init, ShelvesConsistent, ShelfOf, NoShelf, NoOrder

LEMMA NextShelves == NodeInv /\ ShelvesConsistent /\ [Next]_vars => ShelvesConsistent'
<1> SUFFICES ASSUME NodeInv, ShelvesConsistent, [Next]_vars PROVE ShelvesConsistent'
  OBVIOUS
<1>1. ASSUME UNCHANGED <<status, shelf>> PROVE ShelvesConsistent'
  BY <1>1 DEF ShelvesConsistent, ShelfOf
<1>2. CASE UNCHANGED vars
  BY <1>1, <1>2 DEF vars, orderVars
<1>3. ASSUME NEW o \in Orders,
             CreatePaymentIntent(o) \/ ExpirePaymentIntent(o) \/ SubmitAccepted(o)
      PROVE  ShelvesConsistent'
  BY <1>1, <1>3 DEF CreatePaymentIntent, ExpirePaymentIntent, SubmitAccepted, orderVars
<1>4. ASSUME NEW o \in Orders, ConfirmPaymentIntentPaid(o) PROVE ShelvesConsistent'
  <2>1. status[o] = NoOrder
    BY <1>4 DEF ConfirmPaymentIntentPaid, NodeInv, PaidHasOrder
  <2>2. /\ shelf' = shelf /\ status'[o] = "awaiting_drop_off"
        /\ \A q \in Orders \ {o} : status'[q] = status[q]
    BY <1>4 DEF ConfirmPaymentIntentPaid, NodeInv, TypeOK
  <2>3. \A q \in Orders : ShelfOf(q)' = ShelfOf(q)
    BY <2>1, <2>2 DEF ShelfOf, NoOrder
  <2> QED BY <2>2, <2>3 DEF ShelvesConsistent
<1>5. ASSUME NEW o \in Orders,
             \/ ConfirmDropOff(o) \/ ConfirmIntake(o) \/ ConfirmCollection(o)
             \/ ReturnIntake(o) \/ ReturnCollection(o)
      PROVE  ShelvesConsistent'
  BY <1>5, CounterKeepsShelves
<1>6. ASSUME NEW o \in Orders,
             \/ \E r \in Riders : AcceptOrder(o, r)
             \/ \E event \in {"picked_up", "delivered"} : ConfirmHandoff(o, event)
             \/ SubmitRefused(o)
             \/ \E reported \in LegStatuses : SyncFromSnapshot(o, reported)
             \/ ExpireUnassigned(o) \/ FallbackToInHouse(o)
      PROVE  ShelvesConsistent'
  BY <1>6, CourierKeepsShelves
<1> QED BY <1>2, <1>3, <1>4, <1>5, <1>6 DEF Next

(* However parcels come, go and come back, at every Node each lies on a    *)
(* shelf number of its own, and only while it lies there.                  *)
THEOREM ShelvesAlwaysConsistent == Spec => []ShelvesConsistent
<1>1. Init => ShelvesConsistent
  BY InitShelves
<1>2. NodeInv /\ ShelvesConsistent /\ [Next]_vars => ShelvesConsistent'
  BY NextShelves
<1> QED BY <1>1, <1>2, NodeInvariant, PTL DEF Spec

-----------------------------------------------------------------------------
(* Custody, views and history.                                             *)

Unmanned == <<NoProvider, NoRider>>

(* Where the parcel of an order with the status s is, and who carries it. *)
PlaceAt(s) ==
  CASE s \in {"parcel_received_at_origin", "rider_assigned"} -> "origin"
    [] s = "in_transit" -> "courier_out"
    [] s \in {"arrived_at_destination", "ready_for_collection"} -> "destination"
    [] s = "completed" -> "receiver"
    [] s = "return_in_transit" -> "courier_back"
    [] s \in {"returned_to_origin", "ready_for_sender_collection"} -> "origin_again"
    [] s = "return_completed" -> "sender_again"
    [] OTHER -> "sender"

CarrierAt(s, l) ==
  IF s \in {"in_transit", "return_in_transit"} THEN <<l.provider, l.courier>> ELSE Unmanned

(* A leg that somebody has taken is a rider's of the pool or a provider's. *)
Manned(l) ==
  /\ l.status = NoStatus \/ l.provider \in Providers
  /\ l.provider # InHouse => l.courier = NoRider
  /\ l.provider = InHouse /\ l.status \in {"assigned", "picked_up", "returning"} => l.courier \in Riders

CustodyInv == NodeInv /\ ShelvesConsistent /\ \A o \in Orders : Manned(leg[o])

LEMMA PlaceByStatus ==
  ASSUME NodeInv, ShelvesConsistent, NEW o \in Orders
  PROVE  Place(o) = PlaceAt(status[o]) /\ Carrier(o) = CarrierAt(status[o], leg[o])
<1>1. /\ shelf[o].node = ShelfAt(o, status[o]) /\ leg[o].status \in LegStatusesOf(status[o])
      /\ status[o] \in Statuses
      /\ Origin[o] # Destination[o] /\ Origin[o] # NoNode /\ Destination[o] # NoNode
  BY FulfilmentAssumption
  DEF NodeInv, TypeOK, Statuses, LegAndOrderAgree, ShelvesConsistent, ShelfOf, ShelfAt
<1>2. Place(o) = PlaceAt(status[o])
  BY <1>1 DEF Place, PlaceAt, ShelfAt, LegStatusesOf, Statuses, OrderStatuses, NoOrder, NoStatus
<1>3. OnTheRoad(o) <=> status[o] \in {"in_transit", "return_in_transit"}
  BY <1>1 DEF OnTheRoad, LegStatusesOf, Statuses, OrderStatuses, NoOrder, NoStatus
<1> QED BY <1>2, <1>3 DEF Carrier, CarrierAt, Unmanned

StatusTells ==
  \A o \in Orders : Place(o) = PlaceAt(status[o]) /\ Carrier(o) = CarrierAt(status[o], leg[o])

LEMMA StatusAlwaysTells == NodeInv /\ ShelvesConsistent => StatusTells
BY PlaceByStatus DEF StatusTells

LEMMA StatusTellsAfter == NodeInv' /\ ShelvesConsistent' => StatusTells'
BY StatusAlwaysTells, PTL

(* From the place p with the carrier c to the place q with the carrier d:  *)
(* what couriers do, and with it what counters do.                         *)
Road(p, c, q, d) ==
  \/ q = p /\ d = c
  \/ p = "origin" /\ q = "courier_out" /\ d \in Courier
  \/ p \in {"origin", "courier_out"} /\ q = "destination" /\ d = Unmanned
  \/ p = "origin" /\ q = "courier_back" /\ d \in Courier
  \/ p = "courier_out" /\ q = "courier_back" /\ d = c
  \/ p \in {"origin", "courier_out", "courier_back"} /\ q = "origin_again" /\ d = Unmanned

Hand(p, c, q, d) ==
  \/ Road(p, c, q, d)
  \/ d = Unmanned /\ \/ p = "sender" /\ q = "origin"
                     \/ p = "destination" /\ q = "receiver"
                     \/ p = "origin_again" /\ q = "sender_again"

(* Two stretches of road are one. *)
LEMMA RoadsMeet ==
  ASSUME NEW p, NEW c, NEW q, NEW d, NEW r, NEW e, Road(p, c, q, d), Road(q, d, r, e)
  PROVE  Road(p, c, r, e)
BY DEF Road

(* The parcel of a view is where the road leads from where it was. *)
Travels(o, v) ==
  v.ok => /\ Manned(v.leg)
          /\ Road(PlaceAt(status[o]), CarrierAt(status[o], leg[o]),
                  PlaceAt(v.status), CarrierAt(v.status, v.leg))

LEMMA ViewTravels ==
  ASSUME CustodyInv, NEW o \in Orders
  PROVE  /\ View(o) \in Views /\ InStep(o, View(o)) /\ Travels(o, View(o))
         /\ TypeOK /\ NodeInv /\ Manned(leg[o])
BY ViewInStep DEF CustodyInv, NodeInv, Travels, Road, View

(* One event. *)
LEMMA EventTravels ==
  ASSUME NEW v \in Views, NEW e, NEW u, Effect(v, e, u), u.ok, Manned(v.leg),
         v.leg.status \in LegStatusesOf(v.status),
         e = "assigned" /\ v.leg.provider = InHouse => v.leg.courier \in Riders
  PROVE  /\ Manned(u.leg)
         /\ Road(PlaceAt(v.status), CarrierAt(v.status, v.leg),
                 PlaceAt(u.status), CarrierAt(u.status, u.leg))
<1>0. u.leg.provider = v.leg.provider /\ v.leg.status # NoStatus
  BY DEF Effect, NoStatus
<1>1. Manned(u.leg)
  <2>1. u.leg.provider \in Providers
    BY <1>0 DEF Manned
  <2>2. u.leg.courier = IF e = "released" THEN NoRider ELSE v.leg.courier
    BY DEF Effect
  <2>3. u.leg.provider = InHouse /\ u.leg.status \in {"assigned", "picked_up", "returning"}
          => u.leg.courier \in Riders
    <3>1. u.leg.status \in {"assigned", "picked_up", "returning"} =>
            /\ e # "released"
            /\ e = "assigned" \/ v.leg.status \in {"picked_up", "assigned"}
      BY DEF Effect
    <3> QED BY <1>0, <2>2, <3>1 DEF Manned
  <2> QED BY <1>0, <2>1, <2>2, <2>3 DEF Manned
<1>2. CASE e = "assigned"
  BY <1>1, <1>2 DEF Effect, PlaceAt, CarrierAt, Road
<1>3. CASE e \in {"released", "cancelled"}
  <2>1. v.status \in {"parcel_received_at_origin", "rider_assigned"}
    <3>1. v.leg.status \in {"requested", "assigned"}
      BY <1>3 DEF Effect
    <3> QED BY <3>1 DEF LegStatusesOf, Views, Statuses, OrderStatuses, NoOrder, NoStatus
  <2>2. u.status \in {"parcel_received_at_origin", "rider_assigned"}
    BY <1>3, <2>1 DEF Effect
  <2> QED BY <1>1, <2>1, <2>2 DEF PlaceAt, CarrierAt, Road
<1>4. CASE e = "picked_up"
  <2>1. /\ v.status = "rider_assigned" /\ u.status = "in_transit"
        /\ u.leg.status = "picked_up"
    BY <1>4 DEF Effect
  <2>2. <<u.leg.provider, u.leg.courier>> \in Courier
    BY <1>1, <2>1 DEF Manned, Courier, NoStatus
  <2> QED BY <1>1, <2>1, <2>2 DEF PlaceAt, CarrierAt, Road
<1>5. CASE e = "attempt_failed"
  <2>1. u.status = v.status /\ u.leg.provider = v.leg.provider /\ u.leg.courier = v.leg.courier
    BY <1>5 DEF Effect
  <2> QED BY <1>1, <2>1 DEF PlaceAt, CarrierAt, Road
<1>6. CASE e = "delivered"
  BY <1>1, <1>6 DEF Effect, PlaceAt, CarrierAt, Road
<1>7. CASE e = "returning"
  <2>1. /\ v.status = "in_transit" /\ u.status = "return_in_transit"
        /\ u.leg.provider = v.leg.provider /\ u.leg.courier = v.leg.courier
    BY <1>7 DEF Effect
  <2> QED BY <1>1, <2>1 DEF PlaceAt, CarrierAt, Road
<1>8. CASE e = "returned"
  BY <1>1, <1>8 DEF Effect, PlaceAt, CarrierAt, Road
<1>9. e \in {"assigned", "released", "cancelled", "picked_up", "attempt_failed", "delivered",
             "returning", "returned"}
  BY DEF Effect
<1> QED BY <1>1, <1>2, <1>3, <1>4, <1>5, <1>6, <1>7, <1>8, <1>9

LEMMA ApplyTravels ==
  ASSUME TypeOK, NEW o \in Orders, NEW v \in Views, InStep(o, v), Travels(o, v), NEW e,
         e = "assigned" /\ v.leg.provider = InHouse => v.leg.courier \in Riders
  PROVE  Apply(v, e) \in Views /\ InStep(o, Apply(v, e)) /\ Travels(o, Apply(v, e))
<1>1. Apply(v, e) \in Views /\ InStep(o, Apply(v, e))
  BY ApplyInStep
<1>2. CASE NextLegStatus(v.leg.status, e) = NoStatus
  BY <1>1, <1>2, ApplyNothing
<1>3. CASE NextLegStatus(v.leg.status, e) # NoStatus
  <2> DEFINE u == Apply(v, e)
  <2>1. Effect(v, e, u)
    BY <1>3, ApplyEffect
  <2> HIDE DEF u
  <2>2. ASSUME u.ok PROVE Travels(o, u)
    <3>1. v.ok
      BY <2>1, <2>2 DEF Effect
    <3>2. /\ Manned(v.leg) /\ v.leg.status \in LegStatusesOf(v.status)
          /\ Road(PlaceAt(status[o]), CarrierAt(status[o], leg[o]),
                  PlaceAt(v.status), CarrierAt(v.status, v.leg))
      BY <3>1 DEF Travels, InStep
    <3>3. /\ Manned(u.leg)
          /\ Road(PlaceAt(v.status), CarrierAt(v.status, v.leg),
                  PlaceAt(u.status), CarrierAt(u.status, u.leg))
      BY <2>1, <2>2, <3>2, EventTravels
    <3> QED BY <3>2, <3>3, RoadsMeet DEF Travels
  <2>3. Travels(o, u)
    BY <2>2 DEF Travels
  <2> QED BY <1>1, <2>3 DEF u
<1> QED BY <1>2, <1>3

LEMMA ReplayTravels ==
  ASSUME TypeOK, NEW o \in Orders, NEW v \in Views, InStep(o, v), Travels(o, v), NEW path,
         v.leg.provider # InHouse
  PROVE  Replay(v, path) \in Views /\ InStep(o, Replay(v, path)) /\ Travels(o, Replay(v, path))
<1> DEFINE event(k) == IF k <= Len(path) THEN path[k] ELSE NoStatus
           Good(x) == x \in Views /\ InStep(o, x) /\ Travels(o, x) /\ x.leg.provider # InHouse
           v1 == Apply(v, event(1))
           v2 == Apply(v1, event(2))
           v3 == Apply(v2, event(3))
           v4 == Apply(v3, event(4))
<1>0. ASSUME NEW x, Good(x), NEW e PROVE Good(Apply(x, e))
  <2>1. Apply(x, e) \in Views /\ InStep(o, Apply(x, e)) /\ Travels(o, Apply(x, e))
    BY <1>0, ApplyTravels
  <2>2. Apply(x, e).leg.provider = x.leg.provider
    <3>1. CASE NextLegStatus(x.leg.status, e) = NoStatus
      BY <3>1, ApplyNothing
    <3>2. CASE NextLegStatus(x.leg.status, e) # NoStatus
      <4> DEFINE u == Apply(x, e)
      <4>1. Effect(x, e, u)
        BY <1>0, <3>2, ApplyEffect
      <4> HIDE DEF u
      <4>2. u.leg.provider = x.leg.provider
        BY <4>1 DEF Effect
      <4> QED BY <4>2 DEF u
    <3> QED BY <3>1, <3>2
  <2> QED BY <1>0, <2>1, <2>2
<1>1. Good(v1)
  <2> HIDE DEF event
  <2>1. Good(v)
    OBVIOUS
  <2> HIDE DEF Good
  <2> QED BY <1>0, <2>1
<1>2. Good(v2)
  <2> HIDE DEF Good, v1, event
  <2> QED BY <1>0, <1>1
<1>3. Good(v3)
  <2> HIDE DEF Good, v2, event
  <2> QED BY <1>0, <1>2
<1>4. Good(v4)
  <2> HIDE DEF Good, v3, event
  <2> QED BY <1>0, <1>3
<1>5. Replay(v, path) = v4
  BY DEF Replay
<1>6. v4 \in Views /\ InStep(o, v4) /\ Travels(o, v4)
  <2> HIDE DEF v4
  <2> QED BY <1>4
<1> HIDE DEF v4
<1> QED BY <1>5, <1>6

(* A new leg leaves a parcel at the origin's counter where it is. *)
Stays(v, w) ==
  /\ w.ok => v.ok
  /\ w.status = v.status
  /\ CarrierAt(w.status, w.leg) = CarrierAt(v.status, v.leg)
  /\ Manned(v.leg) => Manned(w.leg)

LEMMA DispatchStays ==
  ASSUME NEW o \in Orders, NEW v \in Views, NEW p \in Providers \cup {NoProvider},
         NEW w \in Dispatch(v, p),
         ~ IsActive(v.leg) => v.status = "parcel_received_at_origin"
  PROVE  w \in Views /\ Stays(v, w)
<1>1. w = v \/ (~ IsActive(v.leg) /\ \E q \in Providers : w = Request(v, q))
  BY DEF Dispatch
<1>2. ASSUME NEW q \in Providers, w = Request(v, q), v.status = "parcel_received_at_origin"
      PROVE  w \in Views /\ Stays(v, w)
  <2>1. Requested(v, q, w)
    BY <1>2, RequestEffect
  <2>2. CarrierAt(w.status, w.leg) = CarrierAt(v.status, v.leg)
    BY <1>2, <2>1 DEF CarrierAt, Requested
  <2>3. Manned(w.leg)
    BY <2>1 DEF Manned, Requested
  <2> QED BY <2>1, <2>2, <2>3 DEF Requested, Stays
<1>3. Stays(v, v)
  BY DEF Stays
<1> QED BY <1>1, <1>2, <1>3

-----------------------------------------------------------------------------
(* Every step of a handler is a step of ParcelCustody, or none. *)

CustodyStep == [Custody!CustodyNext]_(Custody!custodyVars)

LEMMA HandIsAStep ==
  ASSUME NEW o \in Orders, NEW q, NEW d, Hand(Place(o), Carrier(o), q, d),
         [x \in Orders |-> Place(x)]' = [[x \in Orders |-> Place(x)] EXCEPT ![o] = q],
         [x \in Orders |-> Carrier(x)]' = [[x \in Orders |-> Carrier(x)] EXCEPT ![o] = d]
  PROVE  CustodyStep
<1> DEFINE at == [x \in Orders |-> Place(x)]
           by == [x \in Orders |-> Carrier(x)]
<1>1. at[o] = Place(o) /\ by[o] = Carrier(o)
  OBVIOUS
<1>2. CASE q = Place(o) /\ d = Carrier(o)
  <2>1. at' = at /\ by' = by
    BY <1>2
  <2> QED BY <2>1 DEF CustodyStep, Custody!custodyVars
<1>3. ASSUME NEW from, NEW to, NEW c, at[o] \in from,
             at' = [at EXCEPT ![o] = to], by' = [by EXCEPT ![o] = c]
      PROVE  Custody!Handover(o, from, to, c)
  BY <1>3 DEF Custody!Handover
<1>4. CASE Place(o) = "origin" /\ q = "courier_out" /\ d \in Courier
  <2>1. Custody!PickUp(o)
    BY <1>1, <1>3, <1>4 DEF Custody!PickUp
  <2> QED BY <2>1 DEF CustodyStep, Custody!CustodyNext
<1>5. CASE Place(o) \in {"origin", "courier_out"} /\ q = "destination" /\ d = Unmanned
  <2>1. Custody!Deliver(o)
    BY <1>1, <1>3, <1>5 DEF Custody!Deliver, Unmanned
  <2> QED BY <2>1 DEF CustodyStep, Custody!CustodyNext
<1>6. CASE Place(o) = "origin" /\ q = "courier_back" /\ d \in Courier
  <2>1. Custody!TurnBack(o)
    BY <1>1, <1>3, <1>6 DEF Custody!TurnBack
  <2> QED BY <2>1 DEF CustodyStep, Custody!CustodyNext
<1>7. CASE Place(o) = "courier_out" /\ q = "courier_back" /\ d = Carrier(o)
  <2>1. Custody!TurnBack(o)
    BY <1>1, <1>3, <1>7 DEF Custody!TurnBack
  <2> QED BY <2>1 DEF CustodyStep, Custody!CustodyNext
<1>8. CASE Place(o) \in {"origin", "courier_out", "courier_back"} /\ q = "origin_again" /\ d = Unmanned
  <2>1. Custody!BringBack(o)
    BY <1>1, <1>3, <1>8 DEF Custody!BringBack, Unmanned
  <2> QED BY <2>1 DEF CustodyStep, Custody!CustodyNext
<1>9. CASE d = Unmanned /\ Place(o) = "sender" /\ q = "origin"
  <2>1. Custody!HandIn(o)
    BY <1>1, <1>3, <1>9 DEF Custody!HandIn, Unmanned
  <2> QED BY <2>1 DEF CustodyStep, Custody!CustodyNext
<1>10. CASE d = Unmanned /\ Place(o) = "destination" /\ q = "receiver"
  <2>1. Custody!Collect(o)
    BY <1>1, <1>3, <1>10 DEF Custody!Collect, Unmanned
  <2> QED BY <2>1 DEF CustodyStep, Custody!CustodyNext
<1>11. CASE d = Unmanned /\ Place(o) = "origin_again" /\ q = "sender_again"
  <2>1. Custody!Reclaim(o)
    BY <1>1, <1>3, <1>11 DEF Custody!Reclaim, Unmanned
  <2> QED BY <2>1 DEF CustodyStep, Custody!CustodyNext
<1> QED BY <1>2, <1>4, <1>5, <1>6, <1>7, <1>8, <1>9, <1>10, <1>11 DEF Hand, Road

(* A view that is committed moves one parcel. *)
LEMMA CommitIsAStep ==
  ASSUME CustodyInv, NodeInv', ShelvesConsistent', NEW o \in Orders, NEW v \in Views, Commit(o, v),
         Manned(v.leg),
         Hand(PlaceAt(status[o]), CarrierAt(status[o], leg[o]),
              PlaceAt(v.status), CarrierAt(v.status, v.leg))
  PROVE  CustodyInv' /\ CustodyStep
<1>1. /\ status'[o] = v.status /\ leg'[o] = v.leg
      /\ \A q \in Orders \ {o} : status'[q] = status[q] /\ leg'[q] = leg[q]
  BY DEF Commit, CustodyInv, NodeInv, TypeOK
<1>2. \A q \in Orders : Manned(leg'[q])
  BY <1>1 DEF CustodyInv
<1>3. CustodyInv'
  BY <1>2 DEF CustodyInv
<1>4. StatusTells /\ StatusTells'
  BY StatusAlwaysTells, StatusTellsAfter DEF CustodyInv
<1>5. /\ Place(o) = PlaceAt(status[o]) /\ Carrier(o) = CarrierAt(status[o], leg[o])
      /\ Place(o)' = PlaceAt(v.status) /\ Carrier(o)' = CarrierAt(v.status, v.leg)
      /\ \A q \in Orders \ {o} : Place(q)' = Place(q) /\ Carrier(q)' = Carrier(q)
  BY <1>1, <1>4 DEF StatusTells
<1>6. CustodyStep
  <2> DEFINE q == PlaceAt(v.status)
             d == CarrierAt(v.status, v.leg)
  <2>1. Hand(Place(o), Carrier(o), q, d) /\ Place(o)' = q /\ Carrier(o)' = d
    BY <1>5
  <2> HIDE DEF q, d
  <2>2. /\ [x \in Orders |-> Place(x)]' = [[x \in Orders |-> Place(x)] EXCEPT ![o] = q]
        /\ [x \in Orders |-> Carrier(x)]' = [[x \in Orders |-> Carrier(x)] EXCEPT ![o] = d]
    BY <1>5, <2>1
  <2> QED BY <2>1, <2>2, HandIsAStep
<1> QED BY <1>3, <1>6

(* A step after which every parcel is where it was. *)
LEMMA QuietIsNoStep ==
  ASSUME CustodyInv, NodeInv', ShelvesConsistent',
         \A q \in Orders :
           /\ PlaceAt(status'[q]) = PlaceAt(status[q])
           /\ CarrierAt(status'[q], leg'[q]) = CarrierAt(status[q], leg[q])
           /\ Manned(leg'[q])
  PROVE  CustodyInv' /\ CustodyStep
<1>1. CustodyInv'
  BY DEF CustodyInv
<1>2. StatusTells /\ StatusTells'
  BY StatusAlwaysTells, StatusTellsAfter DEF CustodyInv
<1>3. \A q \in Orders : Place(q)' = Place(q) /\ Carrier(q)' = Carrier(q)
  BY <1>2 DEF StatusTells
<1>4. /\ [x \in Orders |-> Place(x)]' = [x \in Orders |-> Place(x)]
      /\ [x \in Orders |-> Carrier(x)]' = [x \in Orders |-> Carrier(x)]
  BY <1>3
<1> QED BY <1>1, <1>4 DEF CustodyStep, Custody!custodyVars

LEMMA CheckoutIsNoStep ==
  ASSUME CustodyInv, NodeInv', ShelvesConsistent', NEW o \in Orders,
         \/ CreatePaymentIntent(o) \/ ConfirmPaymentIntentPaid(o)
         \/ ExpirePaymentIntent(o) \/ SubmitAccepted(o)
  PROVE  CustodyInv' /\ CustodyStep
<1>1. CASE CreatePaymentIntent(o) \/ ExpirePaymentIntent(o)
  <2>1. status' = status /\ leg' = leg
    BY <1>1 DEF CreatePaymentIntent, ExpirePaymentIntent, orderVars
  <2> QED BY <2>1, QuietIsNoStep DEF CustodyInv
<1>2. CASE ConfirmPaymentIntentPaid(o)
  <2>1. status[o] = NoOrder
    BY <1>2 DEF ConfirmPaymentIntentPaid, CustodyInv, NodeInv, PaidHasOrder
  <2>2. /\ leg' = leg /\ status'[o] = "awaiting_drop_off"
        /\ \A q \in Orders \ {o} : status'[q] = status[q]
    BY <1>2 DEF ConfirmPaymentIntentPaid, CustodyInv, NodeInv, TypeOK
  <2>3. /\ PlaceAt(status'[o]) = PlaceAt(status[o])
        /\ CarrierAt(status'[o], leg'[o]) = CarrierAt(status[o], leg[o])
    BY <2>1, <2>2 DEF PlaceAt, CarrierAt, NoOrder
  <2> QED BY <2>2, <2>3, QuietIsNoStep DEF CustodyInv
<1>3. CASE SubmitAccepted(o)
  <2>1. /\ status' = status
        /\ \A q \in Orders : /\ leg'[q].status = leg[q].status /\ leg'[q].courier = leg[q].courier
                             /\ leg'[q].provider = leg[q].provider
    BY <1>3 DEF SubmitAccepted, CustodyInv, NodeInv, TypeOK, Legs
  <2>2. \A q \in Orders :
          /\ CarrierAt(status'[q], leg'[q]) = CarrierAt(status[q], leg[q])
          /\ Manned(leg'[q])
    BY <2>1 DEF CarrierAt, CustodyInv, Manned
  <2> QED BY <2>1, <2>2, QuietIsNoStep
<1> QED BY <1>1, <1>2, <1>3

(* At a counter an order moves on, and its leg stays. *)
MovesAtCounter(o, from, to, v) ==
  v.status = to /\ v.leg = leg[o] /\ (v.ok => status[o] = from)

LEMMA CounterIsAStep ==
  ASSUME CustodyInv, NodeInv', ShelvesConsistent', NEW o \in Orders,
         \/ ConfirmDropOff(o) \/ ConfirmIntake(o) \/ ConfirmCollection(o)
         \/ ReturnIntake(o) \/ ReturnCollection(o)
  PROVE  CustodyInv' /\ CustodyStep
<1>1. /\ View(o) \in Views /\ InStep(o, View(o)) /\ TypeOK /\ Manned(leg[o])
      /\ Origin[o] \in Nodes /\ Destination[o] \in Nodes
  BY ViewTravels, FulfilmentAssumption
<1>0. \A v \in Views : Stays(v, v)
  BY DEF Stays
<1>2. ASSUME NEW from, NEW to, NEW v \in Views, MovesAtCounter(o, from, to, v), NEW w \in Views, Stays(v, w),
             from \notin {"in_transit", "return_in_transit"},
             to \notin {"in_transit", "return_in_transit"},
             Hand(PlaceAt(from), Unmanned, PlaceAt(to), Unmanned),
             Commit(o, w)
      PROVE  CustodyInv' /\ CustodyStep
  <2>1. w.ok /\ w.status = to /\ status[o] = from /\ Manned(w.leg)
    BY <1>1, <1>2 DEF Commit, MovesAtCounter, Stays
  <2>2. /\ CarrierAt(status[o], leg[o]) = Unmanned
        /\ CarrierAt(w.status, w.leg) = Unmanned
    BY <1>2, <2>1 DEF CarrierAt
  <2> QED BY <1>2, <2>1, <2>2, CommitIsAStep
<1>3. CASE ConfirmDropOff(o)
  <2> DEFINE t == Transition(View(o), "awaiting_drop_off", "parcel_received_at_origin")
             v == PlaceOnShelf(t, Origin[o])
  <2>1. Moved(View(o), "awaiting_drop_off", "parcel_received_at_origin", t)
    BY <1>1, TransitionMoves DEF Statuses, OrderStatuses
  <2>2. PICK w \in Dispatch(v, NoProvider) : Commit(o, w)
    BY <1>3 DEF ConfirmDropOff, DroppedOff
  <2> HIDE DEF t
  <2>3. Shelved(t, [node |-> Origin[o], number |-> LowestFreeShelf(Origin[o])], v)
    BY <1>1, <2>1, PlacedOnShelf DEF Moved
  <2> HIDE DEF v
  <2>4. v \in Views /\ MovesAtCounter(o, "awaiting_drop_off", "parcel_received_at_origin", v)
    BY <2>1, <2>3 DEF Shelved, Moved, MovesAtCounter, View
  <2>5. w \in Views /\ Stays(v, w)
    BY <2>2, <2>4, DispatchStays DEF MovesAtCounter
  <2>6. Hand(PlaceAt("awaiting_drop_off"), Unmanned, PlaceAt("parcel_received_at_origin"), Unmanned)
    BY DEF Hand, PlaceAt
  <2> QED BY <1>2, <2>1, <2>2, <2>4, <2>5, <2>6
<1>4. CASE ConfirmIntake(o)
  <2> DEFINE t == Transition(View(o), "arrived_at_destination", "ready_for_collection")
             v == PlaceOnShelf(t, Destination[o])
  <2>1. Moved(View(o), "arrived_at_destination", "ready_for_collection", t)
    BY <1>1, TransitionMoves DEF Statuses, OrderStatuses
  <2>2. Commit(o, v)
    BY <1>4 DEF ConfirmIntake, TakenIn
  <2> HIDE DEF t
  <2>3. Shelved(t, [node |-> Destination[o], number |-> LowestFreeShelf(Destination[o])], v)
    BY <1>1, <2>1, PlacedOnShelf DEF Moved
  <2> HIDE DEF v
  <2>4. v \in Views /\ MovesAtCounter(o, "arrived_at_destination", "ready_for_collection", v)
    BY <2>1, <2>3 DEF Shelved, Moved, MovesAtCounter, View
  <2>5. Hand(PlaceAt("arrived_at_destination"), Unmanned, PlaceAt("ready_for_collection"), Unmanned)
    BY DEF Hand, Road, PlaceAt
  <2> QED BY <1>0, <1>2, <2>1, <2>2, <2>4, <2>5
<1>5. CASE ConfirmCollection(o)
  <2> DEFINE t == Transition(View(o), "ready_for_collection", "completed")
             v == ClearShelf(t)
  <2>1. Moved(View(o), "ready_for_collection", "completed", t)
    BY <1>1, TransitionMoves DEF Statuses, OrderStatuses
  <2>2. Commit(o, v)
    BY <1>5 DEF ConfirmCollection, HandedOut
  <2> HIDE DEF t
  <2>3. Shelved(t, NoShelf, v)
    BY <2>1, TakenFromShelf DEF Moved
  <2> HIDE DEF v
  <2>4. v \in Views /\ MovesAtCounter(o, "ready_for_collection", "completed", v)
    BY <2>1, <2>3 DEF Shelved, Moved, MovesAtCounter, View
  <2>5. Hand(PlaceAt("ready_for_collection"), Unmanned, PlaceAt("completed"), Unmanned)
    BY DEF Hand, PlaceAt
  <2> QED BY <1>0, <1>2, <2>1, <2>2, <2>4, <2>5
<1>6. CASE ReturnIntake(o)
  <2> DEFINE t == Transition(View(o), "returned_to_origin", "ready_for_sender_collection")
             v == PlaceOnShelf(t, Origin[o])
  <2>1. Moved(View(o), "returned_to_origin", "ready_for_sender_collection", t)
    BY <1>1, TransitionMoves DEF Statuses, OrderStatuses
  <2>2. Commit(o, v)
    BY <1>6 DEF ReturnIntake, TakenBack
  <2> HIDE DEF t
  <2>3. Shelved(t, [node |-> Origin[o], number |-> LowestFreeShelf(Origin[o])], v)
    BY <1>1, <2>1, PlacedOnShelf DEF Moved
  <2> HIDE DEF v
  <2>4. v \in Views /\ MovesAtCounter(o, "returned_to_origin", "ready_for_sender_collection", v)
    BY <2>1, <2>3 DEF Shelved, Moved, MovesAtCounter, View
  <2>5. Hand(PlaceAt("returned_to_origin"), Unmanned, PlaceAt("ready_for_sender_collection"), Unmanned)
    BY DEF Hand, Road, PlaceAt
  <2> QED BY <1>0, <1>2, <2>1, <2>2, <2>4, <2>5
<1>7. CASE ReturnCollection(o)
  <2> DEFINE t == Transition(View(o), "ready_for_sender_collection", "return_completed")
             c == ClearShelf(t)
             v == ReleaseNodeSlot(c)
  <2>1. Moved(View(o), "ready_for_sender_collection", "return_completed", t)
    BY <1>1, TransitionMoves DEF Statuses, OrderStatuses
  <2>2. Commit(o, v)
    BY <1>7 DEF ReturnCollection, HandedBack
  <2> HIDE DEF t
  <2>3. Shelved(t, NoShelf, c)
    BY <2>1, TakenFromShelf DEF Moved
  <2> HIDE DEF c
  <2>4. Shelved(t, NoShelf, v)
    BY <2>3, SlotReleased
  <2> HIDE DEF v
  <2>5. v \in Views /\ MovesAtCounter(o, "ready_for_sender_collection", "return_completed", v)
    BY <2>1, <2>4 DEF Shelved, Moved, MovesAtCounter, View
  <2>6. Hand(PlaceAt("ready_for_sender_collection"), Unmanned, PlaceAt("return_completed"), Unmanned)
    BY DEF Hand, PlaceAt
  <2> QED BY <1>0, <1>2, <2>1, <2>2, <2>5, <2>6
<1> QED BY <1>3, <1>4, <1>5, <1>6, <1>7

(* Couriers, of the pool and external, refused or sent away. *)
LEMMA CourierIsAStep ==
  ASSUME CustodyInv, NodeInv', ShelvesConsistent', NEW o \in Orders,
         \/ \E r \in Riders : AcceptOrder(o, r)
         \/ \E event \in {"picked_up", "delivered"} : ConfirmHandoff(o, event)
         \/ SubmitRefused(o)
         \/ \E reported \in LegStatuses : SyncFromSnapshot(o, reported)
         \/ ExpireUnassigned(o) \/ FallbackToInHouse(o)
  PROVE  CustodyInv' /\ CustodyStep
<1>1. /\ View(o) \in Views /\ InStep(o, View(o)) /\ Travels(o, View(o))
      /\ TypeOK /\ NodeInv /\ Manned(leg[o])
  BY ViewTravels
<1>2. ASSUME NEW v \in Views, Travels(o, v), Commit(o, v)
      PROVE  CustodyInv' /\ CustodyStep
  <2>1. /\ Manned(v.leg)
        /\ Hand(PlaceAt(status[o]), CarrierAt(status[o], leg[o]),
                PlaceAt(v.status), CarrierAt(v.status, v.leg))
    BY <1>2 DEF Commit, Travels, Hand
  <2> QED BY <1>2, <2>1, CommitIsAStep
<1>3. ASSUME NEW v \in Views, InStep(o, v), Travels(o, v), v.leg.status = "cancelled",
             NEW p \in Providers \cup {NoProvider}, NEW w \in Dispatch(v, p), Commit(o, w)
      PROVE  CustodyInv' /\ CustodyStep
  <2>1. CASE ~ v.ok
    <3>1. ~ w.ok
      <4>1. w = v \/ \E q \in Providers : w = Request(v, q)
        BY <1>3 DEF Dispatch
      <4>2. ASSUME NEW q \in Providers, w = Request(v, q) PROVE ~ w.ok
        <5>1. Requested(v, q, w)
          BY <4>2, RequestEffect
        <5> QED BY <2>1, <5>1 DEF Requested
      <4> QED BY <2>1, <4>1, <4>2
    <3> QED BY <1>3, <3>1 DEF Commit
  <2>2. CASE v.ok
    <3>1. v.status = "parcel_received_at_origin"
      BY <1>3, <2>2 DEF InStep, LegStatusesOf, NoStatus
    <3>2. w \in Views /\ Stays(v, w)
      BY <1>3, <3>1, DispatchStays
    <3>3. Travels(o, w)
      BY <1>3, <2>2, <3>2 DEF Travels, Stays
    <3> QED BY <1>2, <1>3, <3>2, <3>3
  <2> QED BY <2>1, <2>2
<1>4. ASSUME NEW r \in Riders, AcceptOrder(o, r) PROVE CustodyInv' /\ CustodyStep
  <2>1. PICK m, u : Accepted(o, r, m, u)
    BY <1>4, AcceptOrderAssigns DEF CustodyInv
  <2>2. /\ u \in Views /\ Commit(o, u) /\ u.ok /\ u.status = "rider_assigned"
        /\ status[o] = "parcel_received_at_origin"
        /\ u.leg.provider = InHouse /\ u.leg.courier = r /\ u.leg.status = "assigned"
    BY <2>1 DEF Accepted, Effect, Commit
  <2>3. Manned(u.leg)
    BY <2>2, FulfilmentAssumption DEF Manned
  <2>4. Travels(o, u)
    BY <2>2, <2>3 DEF Travels, PlaceAt, CarrierAt, Road
  <2> QED BY <1>2, <2>2, <2>4
<1>5. ASSUME NEW event \in {"picked_up", "delivered"}, ConfirmHandoff(o, event)
      PROVE  CustodyInv' /\ CustodyStep
  <2>1. Commit(o, Apply(View(o), event))
    BY <1>1, <1>5, HandoffOfActiveLeg DEF ConfirmHandoff, MayHandOver, Carried, HandedOver
  <2>2. Apply(View(o), event) \in Views /\ Travels(o, Apply(View(o), event))
    BY <1>1, <1>5, ApplyTravels
  <2> QED BY <1>2, <2>1, <2>2
<1>6. CASE SubmitRefused(o)
  <2> DEFINE v == [View(o) EXCEPT !.leg = [leg[o] EXCEPT !.status = "cancelled"]]
  <2>1. PICK w \in Dispatch(v, NoProvider) : Commit(o, w)
    BY <1>6 DEF SubmitRefused, View
  <2>2. /\ v \in Views /\ v.status = status[o] /\ v.held = currentCount[Origin[o]]
        /\ v.leg.status = "cancelled" /\ v.leg.provider = leg[o].provider
        /\ v.leg.courier = leg[o].courier
    BY <1>1 DEF View, Views, Legs, LegStatuses, TypeOK
  <2>3. status[o] = "parcel_received_at_origin"
    <3>1. leg[o].status \in {"requested", "cancelled"}
      BY <1>6 DEF SubmitRefused
    <3>2. leg[o].status \in LegStatusesOf(status[o])
      BY <1>1 DEF NodeInv, LegAndOrderAgree
    <3> QED BY <3>1, <3>2 DEF LegStatusesOf, NoStatus
  <2> HIDE DEF v
  <2>4. InStep(o, v)
    <3>1. InStep(o, View(o)) /\ View(o).ok
      BY <1>1 DEF View
    <3>2. "cancelled" \in LegStatusesOf("parcel_received_at_origin")
      BY DEF LegStatusesOf, NoOrder
    <3> QED BY <2>2, <2>3, <3>1, <3>2 DEF InStep, View
  <2>5. Manned(v.leg)
    <3>1. leg[o].provider \in Providers /\ leg[o].provider # InHouse /\ leg[o].courier = NoRider
      BY <1>1, <1>6 DEF SubmitRefused, Manned
    <3> QED BY <2>2, <3>1 DEF Manned
  <2>6. Travels(o, v)
    BY <2>2, <2>3, <2>5 DEF Travels, PlaceAt, CarrierAt, Road
  <2> QED BY <1>3, <2>1, <2>2, <2>4, <2>6
<1>7. ASSUME NEW reported \in LegStatuses, SyncFromSnapshot(o, reported)
      PROVE  CustodyInv' /\ CustodyStep
  <2> DEFINE v == Replay(View(o), EventsToReach(leg[o].status, reported))
  <2>1. View(o).leg.provider # InHouse
    BY <1>7 DEF SyncFromSnapshot, View
  <2>2. v \in Views /\ InStep(o, v) /\ Travels(o, v)
    BY <1>1, <2>1, ReplayTravels
  <2>3. PICK w \in IF v.leg.status = "cancelled" THEN Dispatch(v, NoProvider) ELSE {v} : Commit(o, w)
    BY <1>7 DEF SyncFromSnapshot
  <2> HIDE DEF v
  <2>4. CASE v.leg.status = "cancelled"
    BY <1>3, <2>2, <2>3, <2>4
  <2>5. CASE v.leg.status # "cancelled"
    BY <1>2, <2>2, <2>3, <2>5
  <2> QED BY <2>4, <2>5
<1>8. CASE ExpireUnassigned(o) \/ FallbackToInHouse(o)
  <2> DEFINE v == Apply(View(o), "cancelled")
  <2>1. v \in Views /\ InStep(o, v) /\ Travels(o, v)
    BY <1>1, ApplyTravels
  <2>2. /\ NextLegStatus(leg[o].status, "cancelled") # NoStatus
        /\ \/ \E w \in Dispatch(v, NoProvider) : Commit(o, w)
           \/ \E w \in Dispatch(v, InHouse) : Commit(o, w)
    BY <1>8 DEF ExpireUnassigned, FallbackToInHouse
  <2>3. Effect(View(o), "cancelled", v)
    BY <1>1, <2>2, ApplyEffect DEF View
  <2> HIDE DEF v
  <2>4. v.leg.status = "cancelled"
    BY <2>3 DEF Effect
  <2> QED BY <1>3, <2>1, <2>2, <2>4, FulfilmentAssumption
<1> QED BY <1>4, <1>5, <1>6, <1>7, <1>8

LEMMA InitCustody == Init => CustodyInv /\ Custody!CustodyInit
<1> SUFFICES ASSUME Init PROVE CustodyInv /\ Custody!CustodyInit
  OBVIOUS
<1>1. NodeInv /\ ShelvesConsistent
  BY InitNodeInv, InitShelves
<1>2. \A o \in Orders : Manned(leg[o])
  BY FulfilmentAssumption DEF Init, NoLeg, Manned
<1>3. \A o \in Orders : Place(o) = "sender" /\ Carrier(o) = Unmanned
  <2>1. \A o \in Orders : status[o] = NoOrder
    BY DEF Init
  <2>2. StatusTells
    BY <1>1, StatusAlwaysTells
  <2> QED BY <2>1, <2>2 DEF StatusTells, PlaceAt, CarrierAt, NoOrder
<1> QED BY <1>1, <1>2, <1>3 DEF CustodyInv, Custody!CustodyInit, Unmanned

LEMMA NextCustody == CustodyInv /\ [Next]_vars => CustodyInv' /\ CustodyStep
<1> SUFFICES ASSUME CustodyInv, [Next]_vars PROVE CustodyInv' /\ CustodyStep
  OBVIOUS
<1>1. NodeInv' /\ ShelvesConsistent'
  BY NextNodeInv, NextShelves DEF CustodyInv
<1>2. CASE UNCHANGED vars
  <2>1. status' = status /\ leg' = leg
    BY <1>2 DEF vars, orderVars
  <2> QED BY <1>1, <2>1, QuietIsNoStep DEF CustodyInv
<1>3. ASSUME NEW o \in Orders,
             \/ CreatePaymentIntent(o) \/ ConfirmPaymentIntentPaid(o)
             \/ ExpirePaymentIntent(o) \/ SubmitAccepted(o)
      PROVE  CustodyInv' /\ CustodyStep
  BY <1>1, <1>3, CheckoutIsNoStep
<1>4. ASSUME NEW o \in Orders,
             \/ ConfirmDropOff(o) \/ ConfirmIntake(o) \/ ConfirmCollection(o)
             \/ ReturnIntake(o) \/ ReturnCollection(o)
      PROVE  CustodyInv' /\ CustodyStep
  BY <1>1, <1>4, CounterIsAStep
<1>5. ASSUME NEW o \in Orders,
             \/ \E r \in Riders : AcceptOrder(o, r)
             \/ \E event \in {"picked_up", "delivered"} : ConfirmHandoff(o, event)
             \/ SubmitRefused(o)
             \/ \E reported \in LegStatuses : SyncFromSnapshot(o, reported)
             \/ ExpireUnassigned(o) \/ FallbackToInHouse(o)
      PROVE  CustodyInv' /\ CustodyStep
  BY <1>1, <1>5, CourierIsAStep
<1> QED BY <1>2, <1>3, <1>4, <1>5 DEF Next

(* Whatever the handlers do, parcels only move from one pair of hands to   *)
(* the next, and none changes courier on the road.                         *)
THEOREM CustodyImplemented == Spec => ImplementsCustody
<1>1. Init => CustodyInv /\ Custody!CustodyInit
  BY InitCustody
<1>2. CustodyInv /\ [Next]_vars => CustodyInv' /\ [Custody!CustodyNext]_(Custody!custodyVars)
  BY NextCustody DEF CustodyStep
<1> QED BY <1>1, <1>2, PTL DEF Spec, ImplementsCustody, Custody!CustodySpec

-----------------------------------------------------------------------------
(* A parcel that has left the origin is not routed again. *)

(* What no handler may do to an order, as a predicate of a step. *)
Done == {"completed", "return_completed"}
Waiting == {"ready_for_collection", "ready_for_sender_collection"}
StaysRouted ==
  \A o \in Orders :
    /\ status[o] \in LeftOrigin => attempts'[o] = attempts[o]
    /\ status[o] \in Waiting => status'[o] \in Waiting \cup Done
    /\ status[o] \in Done =>
         status'[o] = status[o] /\ riderId'[o] = riderId[o] /\ leg'[o] = leg[o]

Settled(o, v) ==
  v.ok /\ status[o] \in LeftOrigin =>
    /\ v.status \in LeftOrigin /\ v.attempts = attempts[o]
    /\ status[o] \in Waiting => v.status \in Waiting \cup Done
    /\ status[o] \in Done => v.status = status[o] /\ v.riderId = riderId[o] /\ v.leg = leg[o]

LEMMA CommitSettled ==
  ASSUME TypeOK, NEW o \in Orders, NEW v, Settled(o, v), Commit(o, v)
  PROVE  StaysRouted
<1>1. /\ status'[o] = v.status /\ riderId'[o] = v.riderId /\ leg'[o] = v.leg
      /\ attempts'[o] = v.attempts
      /\ \A q \in Orders \ {o} : /\ status'[q] = status[q] /\ riderId'[q] = riderId[q]
                                 /\ leg'[q] = leg[q] /\ attempts'[q] = attempts[q]
  BY DEF Commit, TypeOK
<1>2. Done \subseteq LeftOrigin /\ Waiting \subseteq LeftOrigin
  BY DEF Done, Waiting, LeftOrigin
<1>3. /\ status[o] \in LeftOrigin => attempts'[o] = attempts[o]
      /\ status[o] \in Waiting => v.status \in Waiting \cup Done
  BY <1>1, <1>2 DEF Settled, Commit
<1>4. status[o] \in Done => v.status = status[o] /\ v.riderId = riderId[o] /\ v.leg = leg[o]
  BY <1>2 DEF Settled, Commit
<1>5. \A q \in Orders \ {o} : status[q] \in Waiting => status'[q] \in Waiting \cup Done
  BY <1>1
<1> QED BY <1>1, <1>3, <1>4, <1>5 DEF StaysRouted

LEMMA ApplySettled ==
  ASSUME TypeOK, NEW o \in Orders, NEW v \in Views, InStep(o, v), Settled(o, v), NEW e
  PROVE  Apply(v, e) \in Views /\ InStep(o, Apply(v, e)) /\ Settled(o, Apply(v, e))
<1>1. CASE NextLegStatus(v.leg.status, e) = NoStatus
  BY <1>1, ApplyNothing
<1>2. CASE NextLegStatus(v.leg.status, e) # NoStatus
  <2> DEFINE u == Apply(v, e)
  <2>1. Effect(v, e, u)
    BY <1>2, ApplyEffect
  <2> HIDE DEF u
  <2>2. ASSUME u.ok, status[o] \in LeftOrigin PROVE Settled(o, u)
    <3>1. v.ok /\ v.leg.status \in LegStatusesOf(v.status)
      BY <2>1, <2>2 DEF Effect, InStep
    <3>2. v.status \in LeftOrigin /\ v.attempts = attempts[o]
      BY <2>2, <3>1 DEF Settled
    <3>3. v.leg.status \notin {"requested", "assigned"}
      BY <3>1, <3>2 DEF LeftOrigin, LegStatusesOf, NoOrder, NoStatus
    <3>4. u.status \in LeftOrigin /\ u.attempts = attempts[o]
      BY <2>1, <3>2, <3>3 DEF Effect, LeftOrigin
    <3>5. status[o] \notin Done /\ status[o] \notin Waiting
      <4>1. v.leg.status \in {"picked_up", "returning"}
        BY <2>1, <3>3 DEF Effect
      <4>2. v.status \notin Done /\ v.status \notin Waiting
        BY <3>1, <4>1 DEF LegStatusesOf, Done, Waiting, NoOrder, NoStatus
      <4>3. /\ status[o] \in Done => v.status = status[o]
            /\ status[o] \in Waiting => v.status \in Waiting \cup Done
        BY <2>2, <3>1 DEF Settled
      <4> QED BY <4>2, <4>3
    <3> QED BY <3>4, <3>5 DEF Settled
  <2>3. Settled(o, u)
    BY <2>2 DEF Settled
  <2>4. u \in Views /\ InStep(o, u)
    BY ApplyInStep DEF u
  <2> QED BY <2>3, <2>4 DEF u
<1> QED BY <1>1, <1>2, ApplyInStep

LEMMA ReplaySettled ==
  ASSUME TypeOK, NEW o \in Orders, NEW v \in Views, InStep(o, v), Settled(o, v), NEW path
  PROVE  Replay(v, path) \in Views /\ InStep(o, Replay(v, path)) /\ Settled(o, Replay(v, path))
<1> DEFINE event(k) == IF k <= Len(path) THEN path[k] ELSE NoStatus
           v1 == Apply(v, event(1))
           v2 == Apply(v1, event(2))
           v3 == Apply(v2, event(3))
           v4 == Apply(v3, event(4))
<1>1. v1 \in Views /\ InStep(o, v1) /\ Settled(o, v1)
  BY ApplySettled
<1>2. v2 \in Views /\ InStep(o, v2) /\ Settled(o, v2)
  <2> HIDE DEF v1, event
  <2> QED BY <1>1, ApplySettled
<1>3. v3 \in Views /\ InStep(o, v3) /\ Settled(o, v3)
  <2> HIDE DEF v2, event
  <2> QED BY <1>2, ApplySettled
<1>4. v4 \in Views /\ InStep(o, v4) /\ Settled(o, v4)
  <2> HIDE DEF v3, event
  <2> QED BY <1>3, ApplySettled
<1>5. Replay(v, path) = v4
  BY DEF Replay
<1> HIDE DEF v4
<1> QED BY <1>4, <1>5

(* A transaction on an order at the origin's counter may route it. *)
LEMMA CommitAtOrigin ==
  ASSUME TypeOK, NEW o \in Orders, NEW v, Commit(o, v), status[o] \notin LeftOrigin
  PROVE  StaysRouted
BY CommitSettled DEF Settled

LEMMA CounterStaysRouted ==
  ASSUME NodeInv, NEW o \in Orders,
         \/ ConfirmDropOff(o) \/ ConfirmIntake(o) \/ ConfirmCollection(o)
         \/ ReturnIntake(o) \/ ReturnCollection(o)
  PROVE  StaysRouted
<1>1. /\ View(o) \in Views /\ TypeOK /\ Origin[o] \in Nodes /\ Destination[o] \in Nodes
  BY ViewInStep, FulfilmentAssumption DEF NodeInv
<1>2. ASSUME NEW from, NEW to, NEW t, NEW n, NEW v, Moved(View(o), from, to, t), Shelved(t, n, v),
             from \notin Done, to \in LeftOrigin, from \in Waiting => to \in Done, Commit(o, v)
      PROVE  StaysRouted
  <2>1. v.ok /\ v.status = to /\ v.attempts = attempts[o] /\ status[o] = from
    BY <1>2 DEF Moved, Shelved, Commit, View
  <2>2. Settled(o, v)
    BY <1>2, <2>1 DEF Settled
  <2> QED BY <1>1, <1>2, <2>2, CommitSettled
<1>3. CASE ConfirmDropOff(o)
  <2> DEFINE t == Transition(View(o), "awaiting_drop_off", "parcel_received_at_origin")
             v == PlaceOnShelf(t, Origin[o])
  <2>1. Moved(View(o), "awaiting_drop_off", "parcel_received_at_origin", t)
    BY <1>1, TransitionMoves DEF Statuses, OrderStatuses
  <2>2. PICK w \in Dispatch(v, NoProvider) : Commit(o, w)
    BY <1>3 DEF ConfirmDropOff, DroppedOff
  <2> HIDE DEF t
  <2>3. Shelved(t, [node |-> Origin[o], number |-> LowestFreeShelf(Origin[o])], v)
    BY <1>1, <2>1, PlacedOnShelf DEF Moved
  <2> HIDE DEF v
  <2>4. v \in Views /\ (v.ok => status[o] = "awaiting_drop_off")
    BY <2>1, <2>3 DEF Moved, Shelved, View
  <2>5. w.ok => v.ok
    <3>1. w = v \/ \E q \in Providers : w = Request(v, q)
      BY <2>2 DEF Dispatch
    <3>2. \A q \in Providers : Requested(v, q, Request(v, q))
      BY <2>4, RequestEffect
    <3> QED BY <3>1, <3>2 DEF Requested
  <2>6. status[o] \notin LeftOrigin
    BY <2>2, <2>4, <2>5 DEF Commit, LeftOrigin
  <2> QED BY <1>1, <2>2, <2>6, CommitAtOrigin
<1>4. CASE ConfirmIntake(o)
  <2> DEFINE t == Transition(View(o), "arrived_at_destination", "ready_for_collection")
             v == PlaceOnShelf(t, Destination[o])
  <2>1. Moved(View(o), "arrived_at_destination", "ready_for_collection", t)
    BY <1>1, TransitionMoves DEF Statuses, OrderStatuses
  <2>2. Commit(o, v)
    BY <1>4 DEF ConfirmIntake, TakenIn
  <2> HIDE DEF t
  <2>3. Shelved(t, [node |-> Destination[o], number |-> LowestFreeShelf(Destination[o])], v)
    BY <1>1, <2>1, PlacedOnShelf DEF Moved
  <2> QED BY <1>2, <2>1, <2>2, <2>3 DEF Done, Waiting, LeftOrigin
<1>5. CASE ConfirmCollection(o)
  <2> DEFINE t == Transition(View(o), "ready_for_collection", "completed")
             v == ClearShelf(t)
  <2>1. Moved(View(o), "ready_for_collection", "completed", t)
    BY <1>1, TransitionMoves DEF Statuses, OrderStatuses
  <2>2. Commit(o, v)
    BY <1>5 DEF ConfirmCollection, HandedOut
  <2> HIDE DEF t
  <2>3. Shelved(t, NoShelf, v)
    BY <2>1, TakenFromShelf DEF Moved
  <2> QED BY <1>2, <2>1, <2>2, <2>3 DEF Done, Waiting, LeftOrigin
<1>6. CASE ReturnIntake(o)
  <2> DEFINE t == Transition(View(o), "returned_to_origin", "ready_for_sender_collection")
             v == PlaceOnShelf(t, Origin[o])
  <2>1. Moved(View(o), "returned_to_origin", "ready_for_sender_collection", t)
    BY <1>1, TransitionMoves DEF Statuses, OrderStatuses
  <2>2. Commit(o, v)
    BY <1>6 DEF ReturnIntake, TakenBack
  <2> HIDE DEF t
  <2>3. Shelved(t, [node |-> Origin[o], number |-> LowestFreeShelf(Origin[o])], v)
    BY <1>1, <2>1, PlacedOnShelf DEF Moved
  <2> QED BY <1>2, <2>1, <2>2, <2>3 DEF Done, Waiting, LeftOrigin
<1>7. CASE ReturnCollection(o)
  <2> DEFINE t == Transition(View(o), "ready_for_sender_collection", "return_completed")
             c == ClearShelf(t)
             v == ReleaseNodeSlot(c)
  <2>1. Moved(View(o), "ready_for_sender_collection", "return_completed", t)
    BY <1>1, TransitionMoves DEF Statuses, OrderStatuses
  <2>2. Commit(o, v)
    BY <1>7 DEF ReturnCollection, HandedBack
  <2> HIDE DEF t
  <2>3. Shelved(t, NoShelf, c)
    BY <2>1, TakenFromShelf DEF Moved
  <2> HIDE DEF c
  <2>4. Shelved(t, NoShelf, v)
    BY <2>3, SlotReleased
  <2> HIDE DEF v
  <2> QED BY <1>2, <2>1, <2>2, <2>4 DEF Done, Waiting, LeftOrigin
<1> QED BY <1>3, <1>4, <1>5, <1>6, <1>7

LEMMA CourierStaysRouted ==
  ASSUME NodeInv, NEW o \in Orders,
         \/ \E r \in Riders : AcceptOrder(o, r)
         \/ \E event \in {"picked_up", "delivered"} : ConfirmHandoff(o, event)
         \/ SubmitRefused(o)
         \/ \E reported \in LegStatuses : SyncFromSnapshot(o, reported)
         \/ ExpireUnassigned(o) \/ FallbackToInHouse(o)
  PROVE  StaysRouted
<1>1. /\ View(o) \in Views /\ InStep(o, View(o)) /\ TypeOK
  BY ViewInStep DEF NodeInv
<1>2. Settled(o, View(o))
  BY DEF Settled, View
<1>3. ASSUME NEW v \in Views, InStep(o, v), Settled(o, v), v.leg.status = "cancelled",
             NEW p \in Providers \cup {NoProvider}, NEW w \in Dispatch(v, p), Commit(o, w)
      PROVE  StaysRouted
  <2>1. w.ok => v.ok
    <3>1. w = v \/ \E q \in Providers : w = Request(v, q)
      BY <1>3 DEF Dispatch
    <3>2. \A q \in Providers : Requested(v, q, Request(v, q))
      BY RequestEffect
    <3> QED BY <3>1, <3>2 DEF Requested
  <2>2. v.ok /\ v.status = "parcel_received_at_origin"
    BY <1>3, <2>1 DEF Commit, InStep, LegStatusesOf, NoStatus
  <2>3. status[o] \notin LeftOrigin
    BY <1>3, <2>2 DEF Settled, LeftOrigin
  <2> QED BY <1>1, <1>3, <2>3, CommitAtOrigin
<1>4. ASSUME NEW r \in Riders, AcceptOrder(o, r) PROVE StaysRouted
  <2>1. PICK m, u : Accepted(o, r, m, u)
    BY <1>4, AcceptOrderAssigns
  <2>2. Commit(o, u) /\ status[o] = "parcel_received_at_origin"
    BY <2>1 DEF Accepted, Effect, Commit
  <2> QED BY <1>1, <2>2, CommitAtOrigin DEF LeftOrigin
<1>5. ASSUME NEW event \in {"picked_up", "delivered"}, ConfirmHandoff(o, event) PROVE StaysRouted
  <2>1. Commit(o, Apply(View(o), event))
    BY <1>5, HandoffOfActiveLeg DEF ConfirmHandoff, MayHandOver, Carried, HandedOver
  <2>2. Settled(o, Apply(View(o), event))
    BY <1>1, <1>2, ApplySettled
  <2> QED BY <1>1, <2>1, <2>2, CommitSettled
<1>6. CASE SubmitRefused(o)
  <2>1. PICK w : Commit(o, w)
    BY <1>6 DEF SubmitRefused
  <2>2. leg[o].status \in {"requested", "cancelled"} /\ leg[o].status \in LegStatusesOf(status[o])
    BY <1>6 DEF SubmitRefused, NodeInv, LegAndOrderAgree
  <2>3. status[o] \notin LeftOrigin
    BY <2>2 DEF LegStatusesOf, LeftOrigin, NoOrder, NoStatus
  <2> QED BY <1>1, <2>1, <2>3, CommitAtOrigin
<1>7. ASSUME NEW reported \in LegStatuses, SyncFromSnapshot(o, reported) PROVE StaysRouted
  <2> DEFINE v == Replay(View(o), EventsToReach(leg[o].status, reported))
  <2>1. v \in Views /\ InStep(o, v) /\ Settled(o, v)
    BY <1>1, <1>2, ReplaySettled
  <2>2. PICK w \in IF v.leg.status = "cancelled" THEN Dispatch(v, NoProvider) ELSE {v} : Commit(o, w)
    BY <1>7 DEF SyncFromSnapshot
  <2> HIDE DEF v
  <2>3. CASE v.leg.status = "cancelled"
    BY <1>3, <2>1, <2>2, <2>3
  <2>4. CASE v.leg.status # "cancelled"
    BY <1>1, <2>1, <2>2, <2>4, CommitSettled
  <2> QED BY <2>3, <2>4
<1>8. CASE ExpireUnassigned(o) \/ FallbackToInHouse(o)
  <2> DEFINE v == Apply(View(o), "cancelled")
  <2>1. v \in Views /\ InStep(o, v) /\ Settled(o, v)
    BY <1>1, <1>2, ApplySettled
  <2>2. /\ NextLegStatus(leg[o].status, "cancelled") # NoStatus
        /\ \/ \E w \in Dispatch(v, NoProvider) : Commit(o, w)
           \/ \E w \in Dispatch(v, InHouse) : Commit(o, w)
    BY <1>8 DEF ExpireUnassigned, FallbackToInHouse
  <2>3. Effect(View(o), "cancelled", v)
    BY <1>1, <2>2, ApplyEffect DEF View
  <2> HIDE DEF v
  <2>4. v.leg.status = "cancelled"
    BY <2>3 DEF Effect
  <2> QED BY <1>3, <2>1, <2>2, <2>4, FulfilmentAssumption
<1> QED BY <1>4, <1>5, <1>6, <1>7, <1>8

LEMMA NextStaysRouted == NodeInv /\ [Next]_vars => StaysRouted
<1> SUFFICES ASSUME NodeInv, [Next]_vars PROVE StaysRouted
  OBVIOUS
<1>1. CASE UNCHANGED vars
  BY <1>1 DEF vars, orderVars, StaysRouted
<1>2. ASSUME NEW o \in Orders, CreatePaymentIntent(o) \/ ExpirePaymentIntent(o) PROVE StaysRouted
  BY <1>2 DEF CreatePaymentIntent, ExpirePaymentIntent, orderVars, StaysRouted
<1>3. ASSUME NEW o \in Orders, ConfirmPaymentIntentPaid(o) PROVE StaysRouted
  <2>1. status[o] = NoOrder
    BY <1>3 DEF ConfirmPaymentIntentPaid, NodeInv, PaidHasOrder
  <2>2. /\ leg' = leg /\ riderId' = riderId /\ attempts' = attempts
        /\ \A q \in Orders \ {o} : status'[q] = status[q]
    BY <1>3 DEF ConfirmPaymentIntentPaid, NodeInv, TypeOK
  <2> QED BY <2>1, <2>2 DEF StaysRouted, Done, Waiting, LeftOrigin, NoOrder
<1>4. ASSUME NEW o \in Orders, SubmitAccepted(o) PROVE StaysRouted
  <2>1. leg[o].status \in {"requested", "cancelled"} /\ leg[o].status \in LegStatusesOf(status[o])
    BY <1>4 DEF SubmitAccepted, NodeInv, LegAndOrderAgree
  <2>2. status[o] \notin Done
    BY <2>1 DEF LegStatusesOf, Done, NoOrder, NoStatus
  <2>3. /\ status' = status /\ riderId' = riderId /\ attempts' = attempts
        /\ \A q \in Orders \ {o} : leg'[q] = leg[q]
    BY <1>4 DEF SubmitAccepted, NodeInv, TypeOK
  <2> QED BY <2>2, <2>3 DEF StaysRouted
<1>5. ASSUME NEW o \in Orders,
             \/ ConfirmDropOff(o) \/ ConfirmIntake(o) \/ ConfirmCollection(o)
             \/ ReturnIntake(o) \/ ReturnCollection(o)
      PROVE  StaysRouted
  BY <1>5, CounterStaysRouted
<1>6. ASSUME NEW o \in Orders,
             \/ \E r \in Riders : AcceptOrder(o, r)
             \/ \E event \in {"picked_up", "delivered"} : ConfirmHandoff(o, event)
             \/ SubmitRefused(o)
             \/ \E reported \in LegStatuses : SyncFromSnapshot(o, reported)
             \/ ExpireUnassigned(o) \/ FallbackToInHouse(o)
      PROVE  StaysRouted
  BY <1>6, CourierStaysRouted
<1> QED BY <1>1, <1>2, <1>3, <1>4, <1>5, <1>6 DEF Next

(* No handler routes a parcel that has left the origin counter, or touches *)
(* an order that is over.                                                  *)
THEOREM NeverRoutedAgain == Spec => NoSecondCourier
<1>1. NodeInv /\ [Next]_vars =>
        [\A o \in Orders :
           /\ status[o] \in LeftOrigin => attempts'[o] = attempts[o]
           /\ status[o] \in {"completed", "return_completed"} =>
                <<status[o], riderId[o], leg[o]>>' = <<status[o], riderId[o], leg[o]>>]_vars
  <2> SUFFICES ASSUME NodeInv, [Next]_vars
               PROVE  \A o \in Orders :
                        /\ status[o] \in LeftOrigin => attempts'[o] = attempts[o]
                        /\ status[o] \in {"completed", "return_completed"} =>
                             <<status[o], riderId[o], leg[o]>>' = <<status[o], riderId[o], leg[o]>>
    OBVIOUS
  <2>1. StaysRouted
    BY NextStaysRouted
  <2> QED BY <2>1 DEF StaysRouted, Done
<1> QED BY <1>1, NodeInvariant, PTL DEF Spec, NoSecondCourier

-----------------------------------------------------------------------------
(* What people are shown. *)

LEMMA ViewsByStatus == NodeInv /\ ShelvesConsistent => ViewsFollowParcel
<1> SUFFICES ASSUME NodeInv, ShelvesConsistent, NEW o \in Orders
             PROVE  /\ Place(o) \in {"origin", "courier_back", "origin_again"} => Queues(o, {Origin[o]}) # {}
                    /\ Place(o) \in {"courier_out", "destination"} => Queues(o, {Destination[o]}) # {}
                    /\ status[o] \in {"completed", "return_completed"} =>
                         Queues(o, {Origin[o], Destination[o]}) = {}
                    /\ status[o] # NoOrder =>
                         ToPublicStatus(status[o]) \in
                           CASE Place(o) = "sender"       -> {"awaiting_drop_off"}
                             [] Place(o) = "origin"       -> {"at_origin_station"}
                             [] Place(o) = "courier_out"  -> {"on_the_way"}
                             [] Place(o) = "destination"  -> {"arrived_at_destination", "ready_for_collection"}
                             [] Place(o) = "receiver"     -> {"collected"}
                             [] Place(o) = "courier_back" -> {"returning_to_sender"}
                             [] Place(o) = "origin_again" -> {"returned_to_sender"}
                             [] Place(o) = "sender_again" -> {"return_completed"}
  BY DEF ViewsFollowParcel
<1>1. Place(o) = PlaceAt(status[o])
  BY PlaceByStatus
<1>2. /\ status[o] \in Statuses
      /\ status[o] \notin {"cancelled", "disputed", "return_initiated"}
  BY DEF NodeInv, TypeOK, LegAndOrderAgree, LegStatusesOf, Statuses, NoOrder
<1>3. Place(o) \in {"origin", "courier_back", "origin_again"} => Queues(o, {Origin[o]}) # {}
  <2>1. /\ status[o] \in {"parcel_received_at_origin", "rider_assigned"} => "to_dispatch" \in Queues(o, {Origin[o]})
        /\ status[o] = "return_in_transit" => "incoming" \in Queues(o, {Origin[o]})
        /\ status[o] \in {"returned_to_origin", "ready_for_sender_collection"} => "to_collect" \in Queues(o, {Origin[o]})
    BY DEF Queues
  <2> QED BY <1>1, <1>2, <2>1 DEF PlaceAt, Statuses, OrderStatuses, NoOrder
<1>4. Place(o) \in {"courier_out", "destination"} => Queues(o, {Destination[o]}) # {}
  <2>1. /\ status[o] = "in_transit" => "incoming" \in Queues(o, {Destination[o]})
        /\ status[o] \in {"arrived_at_destination", "ready_for_collection"} => "to_collect" \in Queues(o, {Destination[o]})
    BY DEF Queues
  <2> QED BY <1>1, <1>2, <2>1 DEF PlaceAt, Statuses, OrderStatuses, NoOrder
<1>5. status[o] \in {"completed", "return_completed"} => Queues(o, {Origin[o], Destination[o]}) = {}
  BY DEF Queues
<1> QED BY <1>1, <1>2, <1>3, <1>4, <1>5 DEF PlaceAt, ToPublicStatus, Statuses, OrderStatuses, NoOrder

(* However webhooks, counters and riders interleave, a parcel that lies at *)
(* a Node or is on its way there is in a queue of that Node, and the       *)
(* tracking page tells where the shelf and the leg say it is.              *)
THEOREM ViewsAlwaysFollow == Spec => []ViewsFollowParcel
<1>1. NodeInv /\ ShelvesConsistent => ViewsFollowParcel
  BY ViewsByStatus
<1> QED BY <1>1, NodeInvariant, ShelvesAlwaysConsistent, PTL

-----------------------------------------------------------------------------
(* What the app offers, the server accepts. *)

(* A transition the graph allows, from the status the order has. *)
LEMMA TransitionAllowed ==
  ASSUME NEW v \in Views, v.ok, NEW to \in Statuses, IsLegalTransition(v.status, to)
  PROVE  LET t == Transition(v, v.status, to) IN t \in Views /\ t.ok
BY DEF Transition, Views

LEMMA ShelfAccepted ==
  ASSUME NodeInv, NEW v \in Views, v.ok, NEW n \in Nodes
  PROVE  /\ PlaceOnShelf(v, n) \in Views /\ PlaceOnShelf(v, n).ok
         /\ ClearShelf(v) \in Views /\ ClearShelf(v).ok
         /\ ReleaseNodeSlot(v).ok
<1>1. Shelved(v, [node |-> n, number |-> LowestFreeShelf(n)], PlaceOnShelf(v, n))
  BY PlacedOnShelf DEF NodeInv
<1>2. Shelved(v, NoShelf, ClearShelf(v))
  BY TakenFromShelf
<1>3. [v EXCEPT !.shelf = [node |-> n, number |-> LowestFreeShelf(n)]].ok /\ [v EXCEPT !.shelf = NoShelf].ok
  BY DEF Views
<1>4. ReleaseNodeSlot(v).ok
  BY DEF ReleaseNodeSlot, Views
<1> QED BY <1>1, <1>2, <1>3, <1>4 DEF Shelved, PlaceOnShelf, ClearShelf

LEMMA EventApplies ==
  /\ NextLegStatus("requested", "assigned") # NoStatus
  /\ NextLegStatus("assigned", "picked_up") # NoStatus
  /\ NextLegStatus("picked_up", "delivered") # NoStatus
<1>1. ASSUME NEW rule \in LegTransitions, NEW s, s \in rule.from
      PROVE  NextLegStatus(s, rule.event) # NoStatus
  BY <1>1, NextLegStatusType
<1> DEFINE Rule(e, s) == [event |-> e, from |-> {s}, to |-> e]
<1>2. /\ Rule("assigned", "requested") \in LegTransitions
      /\ Rule("picked_up", "assigned") \in LegTransitions
      /\ Rule("delivered", "picked_up") \in LegTransitions
  BY DEF LegTransitions
<1>3. \A e, s : s \in Rule(e, s).from /\ Rule(e, s).event = e
  OBVIOUS
<1> HIDE DEF Rule
<1> QED BY <1>1, <1>2, <1>3

(* The three events of a rider's delivery, each where it is expected. *)
LEMMA EventAccepted ==
  ASSUME NEW v \in Views, v.ok, NEW e,
         \/ /\ e = "assigned" /\ v.status = "parcel_received_at_origin"
            /\ v.leg.status = "requested" /\ v.riderId = NoRider
         \/ e = "picked_up" /\ v.status = "rider_assigned" /\ v.leg.status = "assigned"
         \/ e = "delivered" /\ v.status = "in_transit" /\ v.leg.status = "picked_up"
  PROVE  Apply(v, e).ok
<1> DEFINE next == NextLegStatus(v.leg.status, e)
           w == [v EXCEPT !.leg = [v.leg EXCEPT !.status = next, !.courier = v.leg.courier]]
<1>1. next # NoStatus /\ next \in LegStatuses \cup {NoStatus}
  BY EventApplies, NextLegStatusType
<1>2. Apply(v, e) = OnDeliveryEvent(w, e)
  BY <1>1 DEF Apply
<1>3. /\ w \in Views /\ w.ok /\ w.status = v.status /\ w.riderId = v.riderId
      /\ w.leg.courier \in Riders \cup {NoRider}
  BY <1>1 DEF Views, Legs
<1> HIDE DEF w
<1>4. /\ {"rider_assigned", "in_transit", "arrived_at_destination"} \subseteq Statuses
      /\ IsLegalTransition("parcel_received_at_origin", "rider_assigned")
      /\ IsLegalTransition("rider_assigned", "in_transit")
      /\ IsLegalTransition("in_transit", "arrived_at_destination")
  BY DEF Statuses, OrderStatuses, IsLegalTransition, OrderTransitions
<1>5. CASE e = "assigned"
  <2> DEFINE t == Transition(w, "parcel_received_at_origin", "rider_assigned")
  <2>1. t \in Views /\ t.ok
    BY <1>3, <1>4, <1>5, TransitionAllowed
  <2>2. OnDeliveryEvent(w, e) =
          IF w.leg.courier = NoRider THEN t
          ELSE [t EXCEPT !.riderId = w.leg.courier, !.ok = t.ok /\ w.riderId = NoRider]
    BY <1>5 DEF OnDeliveryEvent, OnAssigned
  <2> HIDE DEF t
  <2>3. w.riderId = NoRider
    BY <1>3, <1>5
  <2> QED BY <1>2, <2>1, <2>2, <2>3 DEF Views
<1>6. CASE e = "picked_up"
  <2> DEFINE t == Transition(w, "rider_assigned", "in_transit")
  <2>1. t \in Views /\ t.ok
    BY <1>3, <1>4, <1>6, TransitionAllowed
  <2>2. OnDeliveryEvent(w, e) = ReleaseNodeSlot(ClearShelf(t))
    BY <1>6 DEF OnDeliveryEvent, OnPickedUp
  <2> HIDE DEF t
  <2>3. ClearShelf(t) \in Views /\ ClearShelf(t).ok
    <3>1. Shelved(t, NoShelf, ClearShelf(t)) /\ ClearShelf(t) = [t EXCEPT !.shelf = NoShelf]
      BY <2>1, TakenFromShelf DEF ClearShelf
    <3> QED BY <2>1, <3>1 DEF Shelved, Views
  <2> QED BY <1>2, <2>2, <2>3 DEF ReleaseNodeSlot, Views
<1>7. CASE e = "delivered"
  <2> DEFINE t == Transition(w, "in_transit", "arrived_at_destination")
  <2>1. t \in Views /\ t.ok
    BY <1>3, <1>4, <1>7, TransitionAllowed
  <2>2. OnDeliveryEvent(w, e) = ReleaseRiderSlot(t, w.leg.courier)
    BY <1>7 DEF OnDeliveryEvent, OnDelivered
  <2> HIDE DEF t
  <2>3. ReleaseRiderSlot(t, w.leg.courier).ok = t.ok
    BY <1>3, <2>1, ReleaseRiderSlotEffect
  <2> QED BY <1>2, <2>1, <2>2, <2>3
<1> QED BY <1>5, <1>6, <1>7

(* The counters' own handlers. *)
LEMMA CountersAccept ==
  ASSUME NodeInv, NEW o \in Orders
  PROVE  /\ status[o] = "awaiting_drop_off" => \E w \in DroppedOff(o) : w.ok
         /\ status[o] = "arrived_at_destination" => TakenIn(o).ok
         /\ status[o] = "ready_for_collection" => HandedOut(o).ok
         /\ status[o] = "returned_to_origin" => TakenBack(o).ok
         /\ status[o] = "ready_for_sender_collection" => HandedBack(o).ok
<1>1. /\ View(o) \in Views /\ View(o).ok /\ View(o).status = status[o]
      /\ Origin[o] \in Nodes /\ Destination[o] \in Nodes
  BY ViewInStep, FulfilmentAssumption DEF View
<1>2. ASSUME NEW from, NEW to \in Statuses, status[o] = from, IsLegalTransition(from, to)
      PROVE  LET t == Transition(View(o), from, to) IN t \in Views /\ t.ok
  BY <1>1, <1>2, TransitionAllowed
<1>3. /\ {"parcel_received_at_origin", "ready_for_collection", "completed",
          "ready_for_sender_collection", "return_completed"} \subseteq Statuses
      /\ IsLegalTransition("awaiting_drop_off", "parcel_received_at_origin")
      /\ IsLegalTransition("arrived_at_destination", "ready_for_collection")
      /\ IsLegalTransition("ready_for_collection", "completed")
      /\ IsLegalTransition("returned_to_origin", "ready_for_sender_collection")
      /\ IsLegalTransition("ready_for_sender_collection", "return_completed")
  BY DEF Statuses, OrderStatuses, IsLegalTransition, OrderTransitions
<1>4. ASSUME status[o] = "awaiting_drop_off" PROVE \E w \in DroppedOff(o) : w.ok
  <2> DEFINE t == Transition(View(o), "awaiting_drop_off", "parcel_received_at_origin")
             v == PlaceOnShelf(t, Origin[o])
  <2>1. t \in Views /\ t.ok
    BY <1>2, <1>3, <1>4
  <2>2. DroppedOff(o) = Dispatch(v, NoProvider)
    BY DEF DroppedOff
  <2> HIDE DEF t
  <2>3. v.ok
    BY <1>1, <2>1, ShelfAccepted
  <2> HIDE DEF v
  <2>4. v \in Dispatch(v, NoProvider)
    BY DEF Dispatch
  <2> QED BY <2>2, <2>3, <2>4
<1>5. ASSUME status[o] = "arrived_at_destination" PROVE TakenIn(o).ok
  <2> DEFINE t == Transition(View(o), "arrived_at_destination", "ready_for_collection")
  <2>1. t \in Views /\ t.ok
    BY <1>2, <1>3, <1>5
  <2>2. TakenIn(o) = PlaceOnShelf(t, Destination[o])
    BY DEF TakenIn
  <2> HIDE DEF t
  <2> QED BY <1>1, <2>1, <2>2, ShelfAccepted
<1>6. ASSUME status[o] = "ready_for_collection" PROVE HandedOut(o).ok
  <2> DEFINE t == Transition(View(o), "ready_for_collection", "completed")
  <2>1. t \in Views /\ t.ok
    BY <1>2, <1>3, <1>6
  <2>2. HandedOut(o) = ClearShelf(t)
    BY DEF HandedOut
  <2> HIDE DEF t
  <2> QED BY <1>1, <2>1, <2>2, ShelfAccepted
<1>7. ASSUME status[o] = "returned_to_origin" PROVE TakenBack(o).ok
  <2> DEFINE t == Transition(View(o), "returned_to_origin", "ready_for_sender_collection")
  <2>1. t \in Views /\ t.ok
    BY <1>2, <1>3, <1>7
  <2>2. TakenBack(o) = PlaceOnShelf(t, Origin[o])
    BY DEF TakenBack
  <2> HIDE DEF t
  <2> QED BY <1>1, <2>1, <2>2, ShelfAccepted
<1>8. ASSUME status[o] = "ready_for_sender_collection" PROVE HandedBack(o).ok
  <2> DEFINE t == Transition(View(o), "ready_for_sender_collection", "return_completed")
             c == ClearShelf(t)
  <2>1. t \in Views /\ t.ok
    BY <1>2, <1>3, <1>8
  <2>2. HandedBack(o) = ReleaseNodeSlot(c)
    BY DEF HandedBack
  <2> HIDE DEF t
  <2>3. c \in Views /\ c.ok
    BY <1>1, <2>1, ShelfAccepted
  <2> HIDE DEF c
  <2> QED BY <1>1, <2>2, <2>3, ShelfAccepted
<1> QED BY <1>4, <1>5, <1>6, <1>7, <1>8

(* A rider's code, while the rider's leg waits for it. *)
LEMMA HandoverAccepted ==
  ASSUME NodeInv, CrewInv, NEW o \in Orders, Manned(leg[o]), leg[o].provider = InHouse
  PROVE  /\ status[o] = "rider_assigned" => MayHandOver(o, "picked_up")
         /\ status[o] = "in_transit" => MayHandOver(o, "delivered")
<1>1. /\ View(o) \in Views /\ View(o).ok /\ View(o).status = status[o] /\ View(o).leg = leg[o]
      /\ Crewed(riderId[o], leg[o]) /\ leg[o].status \in LegStatusesOf(status[o])
  BY ViewInStep DEF View, CrewInv, NodeInv, LegAndOrderAgree
<1>2. ASSUME NEW event, NEW s,
             \/ event = "picked_up" /\ s = "assigned" /\ status[o] = "rider_assigned"
             \/ event = "delivered" /\ s = "picked_up" /\ status[o] = "in_transit"
      PROVE  MayHandOver(o, event)
  <2>1. leg[o].status = s
    BY <1>1, <1>2 DEF LegStatusesOf, NoOrder
  <2>2. riderId[o] # NoRider
    <3>1. leg[o].courier \in Riders
      BY <1>2, <2>1 DEF Manned
    <3>2. riderId[o] = leg[o].courier
      BY <1>1, <1>2, <2>1 DEF Crewed, NoStatus
    <3> QED BY <3>1, <3>2, FulfilmentAssumption
  <2>3. Carried(o, event) = View(o)
    BY <1>2, <2>1 DEF Carried, IsActive, ActiveLegStatuses
  <2>4. NextLegStatus(s, event) # NoStatus
    BY <1>2, EventApplies
  <2>5. Apply(View(o), event).ok
    BY <1>1, <1>2, <2>1, EventAccepted
  <2> QED BY <1>1, <2>1, <2>2, <2>3, <2>4, <2>5 DEF MayHandOver, HandedOver
<1> QED BY <1>2

(* A parcel on the counter may be claimed just when nobody has its leg, or *)
(* the pool has.                                                           *)
LEMMA ClaimAccepted ==
  ASSUME NodeInv, CrewInv, NEW o \in Orders, NEW r \in Riders, activeOrders[r] < MaxActiveOrders,
         status[o] \in {"parcel_received_at_origin", "rider_assigned"}
  PROVE  InPool(o) <=> MayClaim(o, r)
<1> DEFINE reserved == [View(o) EXCEPT !.active[r] = @ + 1]
           v == Offered(o, r)
           m == [v EXCEPT !.leg = [v.leg EXCEPT !.courier = r]]
<1>1. /\ View(o) \in Views /\ TypeOK /\ Crewed(riderId[o], leg[o])
      /\ leg[o].status \in LegStatusesOf(status[o])
  BY ViewInStep DEF CrewInv, NodeInv, LegAndOrderAgree
<1>2. /\ reserved \in Views /\ reserved.status = status[o] /\ reserved.leg = leg[o]
      /\ reserved.riderId = riderId[o] /\ reserved.ok
  BY <1>1, activeOrders[r] + 1 \in Nat DEF View, Views, TypeOK
<1>3. v = IF IsActive(leg[o]) THEN reserved ELSE Request(reserved, InHouse)
  BY DEF Offered
<1>4. Claimed(o, r) = Apply(m, "assigned")
  BY DEF Claimed
<1> HIDE DEF reserved, v
<1>5. CASE status[o] = "rider_assigned"
  <2>1. leg[o].status = "assigned"
    BY <1>1, <1>5 DEF LegStatusesOf, NoOrder
  <2>2. v = reserved
    BY <1>3, <2>1 DEF IsActive, ActiveLegStatuses
  <2>3. ~ MayClaim(o, r)
    BY <1>2, <2>1, <2>2 DEF MayClaim, v
  <2>4. ~ InPool(o)
    BY <1>5 DEF InPool
  <2> QED BY <2>3, <2>4
<1>6. CASE status[o] = "parcel_received_at_origin"
  <2>1. leg[o].status \in {NoStatus, "requested", "cancelled"}
    BY <1>1, <1>6 DEF LegStatusesOf, NoOrder
  <2>2. riderId[o] = NoRider
    BY <1>1, <2>1 DEF Crewed
  <2>3. IsActive(leg[o]) <=> leg[o].status = "requested"
    BY <2>1 DEF IsActive, ActiveLegStatuses, NoStatus
  <2>4. InPool(o) <=> ~ (IsActive(leg[o]) /\ leg[o].provider # InHouse)
    BY <1>6, <2>2 DEF InPool
  <2>5. /\ v \in Views /\ v.status = status[o] /\ v.riderId = NoRider /\ v.ok
        /\ v.leg.status = "requested"
        /\ v.leg.provider = InHouse <=> ~ (IsActive(leg[o]) /\ leg[o].provider # InHouse)
    <3> DEFINE w == Request(reserved, InHouse)
    <3>1. Requested(reserved, InHouse, w)
      BY <1>2, FulfilmentAssumption, RequestEffect
    <3>2. v = IF IsActive(leg[o]) THEN reserved ELSE w
      BY <1>3
    <3> HIDE DEF w, m
    <3>3. CASE IsActive(leg[o])
      <4>1. v = reserved
        BY <3>2, <3>3
      <4>2. leg[o].status = "requested"
        BY <2>3, <3>3
      <4> QED BY <1>2, <2>2, <3>3, <4>1, <4>2
    <3>4. CASE ~ IsActive(leg[o])
      <4>1. v = w
        BY <3>2, <3>4
      <4>2. /\ w \in Views /\ w.status = reserved.status /\ w.riderId = reserved.riderId
            /\ w.ok = reserved.ok
            /\ w.leg = [provider |-> InHouse, status |-> "requested", courier |-> NoRider, booked |-> FALSE]
        BY <3>1 DEF Requested
      <4>3. w.leg.status = "requested" /\ w.leg.provider = InHouse
        BY <4>2
      <4> QED BY <1>2, <2>2, <3>4, <4>1, <4>2, <4>3
    <3> QED BY <3>3, <3>4
  <2>6. m \in Views /\ m.status = v.status /\ m.riderId = v.riderId /\ m.ok /\ m.leg.status = "requested"
    BY <2>5 DEF Views, Legs
  <2> HIDE DEF m
  <2>7. Apply(m, "assigned").ok
    BY <1>6, <2>5, <2>6, EventAccepted
  <2>8. MayClaim(o, r) <=> v.leg.provider = InHouse
    BY <1>4, <2>5, <2>7 DEF MayClaim, v
  <2> QED BY <2>4, <2>5, <2>8
<1> QED BY <1>5, <1>6

(* The riders' list is the list of parcels that can be claimed, for any    *)
(* number of orders, couriers and attempts.                                *)
THEOREM PoolIsClaimable == Spec => []PoolListsTheClaimable
<1>1. NodeInv /\ ShelvesConsistent /\ CrewInv => PoolListsTheClaimable
  <2> SUFFICES ASSUME NodeInv, ShelvesConsistent, CrewInv, NEW o \in Orders, NEW r \in Riders,
                      Place(o) = "origin", activeOrders[r] < MaxActiveOrders
               PROVE  InPool(o) <=> MayClaim(o, r)
    BY DEF PoolListsTheClaimable
  <2>1. PlaceAt(status[o]) = "origin"
    BY PlaceByStatus
  <2>2. status[o] \in {"parcel_received_at_origin", "rider_assigned"}
    BY <2>1 DEF PlaceAt
  <2> QED BY <2>2, ClaimAccepted
<1> QED BY <1>1, NodeInvariant, ShelvesAlwaysConsistent, CrewInvariant, PTL

(* When each action is shown. *)
LEMMA ActionsByStatus ==
  ASSUME NEW o \in Orders, NEW role \in {"origin", "destination"}
  PROVE  LET action == NextActionFor(o, role) IN
         /\ action = "confirm_drop_off" => status[o] = "awaiting_drop_off"
         /\ action = "hand_to_rider" => ~ GivesCodeToCourier(o) /\ status[o] = "rider_assigned"
         /\ action = "receive_from_rider" =>
              ~ GivesCodeToCourier(o) /\ status[o] \in {"in_transit", "return_in_transit"}
         /\ action = "hand_to_courier" =>
              GivesCodeToCourier(o) /\ role = "origin" /\ status[o] = "rider_assigned"
         /\ action = "receive_from_courier" =>
              /\ GivesCodeToCourier(o)
              /\ \/ role = "origin" /\ status[o] = "return_in_transit"
                 \/ role = "destination" /\ status[o] = "in_transit"
         /\ action = "intake" => status[o] = "arrived_at_destination"
         /\ action = "hand_to_receiver" => status[o] = "ready_for_collection"
         /\ action = "return_intake" => status[o] = "returned_to_origin"
         /\ action = "hand_to_sender" => status[o] = "ready_for_sender_collection"
<1>1. CASE role = "origin"
  <2> DEFINE shown == OriginAction(status[o])
  <2>1. NextActionFor(o, role) = IF GivesCodeToCourier(o) THEN CourierVariant(shown) ELSE shown
    BY <1>1 DEF NextActionFor
  <2>2. /\ shown = "confirm_drop_off" => status[o] = "awaiting_drop_off"
        /\ shown = "hand_to_rider" => status[o] = "rider_assigned"
        /\ shown = "receive_from_rider" => status[o] = "return_in_transit"
        /\ shown = "return_intake" => status[o] = "returned_to_origin"
        /\ shown = "hand_to_sender" => status[o] = "ready_for_sender_collection"
        /\ shown \notin {"intake", "hand_to_receiver", "hand_to_courier", "receive_from_courier"}
    BY DEF OriginAction
  <2> HIDE DEF shown
  <2> QED BY <1>1, <2>1, <2>2 DEF CourierVariant
<1>2. CASE role = "destination"
  <2> DEFINE shown == DestinationAction(status[o])
  <2>1. NextActionFor(o, role) = IF GivesCodeToCourier(o) THEN CourierVariant(shown) ELSE shown
    BY <1>2 DEF NextActionFor
  <2>2. /\ shown = "receive_from_rider" => status[o] = "in_transit"
        /\ shown = "intake" => status[o] = "arrived_at_destination"
        /\ shown = "hand_to_receiver" => status[o] = "ready_for_collection"
        /\ shown \notin {"confirm_drop_off", "hand_to_rider", "return_intake", "hand_to_sender",
                         "hand_to_courier", "receive_from_courier"}
    BY DEF DestinationAction
  <2> HIDE DEF shown
  <2> QED BY <1>2, <2>1, <2>2 DEF CourierVariant
<1> QED BY <1>1, <1>2

(* Somebody who has both Nodes always has something to do or to wait for. *)
LEMMA SomethingToDo ==
  ASSUME NodeInv, NEW o \in Orders,
         NextActionFor(o, NodeRoleFor(o, {Origin[o], Destination[o]})) = "none"
  PROVE  status[o] \in {NoOrder, "completed", "return_completed"}
<1> DEFINE role == NodeRoleFor(o, {Origin[o], Destination[o]})
<1>1. role = IF status[o] \in OriginPhase THEN "origin" ELSE "destination"
  BY DEF NodeRoleFor
<1> HIDE DEF role
<1>2. \A action : CourierVariant(action) = "none" => action = "none"
  BY DEF CourierVariant
<1>3. IF role = "origin" THEN OriginAction(status[o]) = "none"
                         ELSE DestinationAction(status[o]) = "none"
  BY <1>1, <1>2 DEF NextActionFor, role
<1>4. /\ status[o] \in Statuses
      /\ status[o] \notin {"cancelled", "disputed", "return_initiated"}
  BY DEF NodeInv, TypeOK, LegAndOrderAgree, LegStatusesOf, Statuses, NoOrder
<1>5. CASE status[o] \in OriginPhase
  BY <1>1, <1>3, <1>5 DEF OriginAction, OriginPhase
<1>6. CASE status[o] \notin OriginPhase
  BY <1>1, <1>3, <1>4, <1>6 DEF DestinationAction, OriginPhase, Statuses, OrderStatuses
<1> QED BY <1>5, <1>6

(* No screen ever offers an action the server would refuse, for any number *)
(* of orders, Nodes, riders and providers.                                 *)
THEOREM ActionsAlwaysPossible == Spec => []NextActionIsPossible
<1>1. CustodyInv /\ CrewInv => NextActionIsPossible
  <2> SUFFICES ASSUME CustodyInv, CrewInv, NEW o \in Orders
               PROVE  \A role \in {"origin", "destination"} :
                        LET action == NextActionFor(o, role)
                        IN  /\ action = "confirm_drop_off" => \E w \in DroppedOff(o) : w.ok
                            /\ action = "hand_to_rider" => MayHandOver(o, "picked_up")
                            /\ action = "receive_from_rider" => MayHandOver(o, "delivered")
                            /\ action \in {"hand_to_courier", "receive_from_courier"} =>
                                 HandoverKind(o, role) # "none" /\ HandoverCodes(o)
                            /\ action = "intake" => TakenIn(o).ok
                            /\ action = "hand_to_receiver" => HandedOut(o).ok
                            /\ action = "return_intake" => TakenBack(o).ok
                            /\ action = "hand_to_sender" => HandedBack(o).ok
    BY SomethingToDo DEF NextActionIsPossible, CustodyInv
  <2> TAKE role \in {"origin", "destination"}
  <2>1. /\ NodeInv /\ Manned(leg[o]) /\ Crewed(riderId[o], leg[o])
        /\ leg[o].status \in LegStatusesOf(status[o])
    BY DEF CustodyInv, CrewInv, NodeInv, LegAndOrderAgree
  <2>2. status[o] \in {"rider_assigned", "in_transit", "return_in_transit"} =>
          /\ leg[o].status \in {"assigned", "picked_up", "returning"}
          /\ status[o] = "return_in_transit" => leg[o].provider # InHouse
          /\ GivesCodeToCourier(o) => leg[o].booked
          /\ ~ GivesCodeToCourier(o) => leg[o].provider = InHouse
    <3>1. status[o] \in {"rider_assigned", "in_transit", "return_in_transit"} =>
            /\ leg[o].status \in {"assigned", "picked_up", "returning"}
            /\ status[o] = "return_in_transit" => leg[o].status = "returning"
      BY <2>1 DEF LegStatusesOf, NoOrder
    <3> QED BY <2>1, <3>1 DEF Crewed, Manned, GivesCodeToCourier, NoStatus
  <2> DEFINE action == NextActionFor(o, role)
  <2>3. action \in {"hand_to_courier", "receive_from_courier"} =>
          HandoverKind(o, role) # "none" /\ HandoverCodes(o)
    BY <2>2, ActionsByStatus DEF HandoverKind, HandoverCodes
  <2>4. action = "hand_to_rider" => MayHandOver(o, "picked_up")
    BY <2>1, <2>2, ActionsByStatus, HandoverAccepted
  <2>5. action = "receive_from_rider" => MayHandOver(o, "delivered")
    BY <2>1, <2>2, ActionsByStatus, HandoverAccepted
  <2> QED BY <2>1, <2>3, <2>4, <2>5, ActionsByStatus, CountersAccept
<1>2. Init => CustodyInv
  BY InitCustody
<1>3. CustodyInv /\ [Next]_vars => CustodyInv'
  BY NextCustody
<1> QED BY <1>1, <1>2, <1>3, CrewInvariant, PTL DEF Spec

-----------------------------------------------------------------------------
(* How far one transaction takes an order.  The places of custody tell     *)
(* most of it: a parcel never goes back to a place it has left.            *)

(* The two trips, written out. *)
Collected == <<NoOrder, "awaiting_drop_off", "parcel_received_at_origin", "rider_assigned",
               "in_transit", "arrived_at_destination", "ready_for_collection", "completed">>
Returned == <<NoOrder, "awaiting_drop_off", "parcel_received_at_origin", "rider_assigned",
               "in_transit", "return_initiated", "return_in_transit", "returned_to_origin",
               "ready_for_sender_collection", "return_completed">>

LEMMA TripsAre == Trips = {Collected, Returned}
BY DEF Trips, Collected, Returned, NoOrder

LEMMA Trip ==
  ASSUME NEW x \in Trips
  PROVE  /\ DOMAIN x \in {1 .. 8, 1 .. 10}
         /\ \A i, j \in DOMAIN x : x[i] = x[j] => i = j
         /\ \A y \in Trips : \A i \in DOMAIN x, j \in DOMAIN y :
              x[i] = y[j] => i = j /\ (y = x \/ i \in 1 .. 5)
         /\ \A y \in Trips : \A i \in 1 .. 5 : x[i] = y[i]
BY TripsAre DEF Collected, Returned, NoOrder

(* A stretch of a trip is what lies between its ends, whichever trip the   *)
(* ends are looked up on.                                                  *)
LEMMA PassedOnTrip ==
  ASSUME NEW x \in Trips, NEW i \in DOMAIN x, NEW j \in DOMAIN x, i < j
  PROVE  Passed(x[i], x[j]) = { x[k] : k \in (i + 1) .. j }
<1> DEFINE y == CHOOSE z \in Trips : \E a, b \in DOMAIN z : z[a] = x[i] /\ z[b] = x[j]
           place(u) == CHOOSE a \in DOMAIN y : y[a] = u
<1>1. y \in Trips /\ \E a, b \in DOMAIN y : y[a] = x[i] /\ y[b] = x[j]
  <2>1. \E z \in Trips : \E a, b \in DOMAIN z : z[a] = x[i] /\ z[b] = x[j]
    OBVIOUS
  <2> QED BY <2>1
<1>2. Passed(x[i], x[j]) = { y[k] : k \in (place(x[i]) + 1) .. place(x[j]) }
  BY DEF Passed
<1> HIDE DEF y
<1>3. PICK a \in DOMAIN y, b \in DOMAIN y : y[a] = x[i] /\ y[b] = x[j]
  BY <1>1
<1>4. a = i /\ b = j /\ (y = x \/ j \in 1 .. 5)
  BY <1>1, <1>3, Trip
<1>5. place(x[i]) = i /\ place(x[j]) = j
  BY <1>1, <1>3, <1>4, Trip
<1>6. DOMAIN x \subseteq Nat /\ \A k \in (i + 1) .. j : k \in Nat /\ k <= j /\ (j \in 1 .. 5 => k \in 1 .. 5)
  BY Trip
<1>7. \A k \in (i + 1) .. j : y[k] = x[k]
  BY <1>1, <1>4, <1>6, Trip
<1> HIDE DEF place
<1> QED BY <1>2, <1>5, <1>7

(* How far an order may go in one transaction. *)
Onward(s, t) ==
  \/ s = t
  \/ s = "rider_assigned" /\ t = "parcel_received_at_origin"
  \/ \E x \in Trips : \E i, j \in DOMAIN x : i < j /\ s = x[i] /\ t = x[j]

(* The number of a status on the way out, and on the way back. *)
Out(s) ==
  CASE s = NoOrder -> 1 [] s = "awaiting_drop_off" -> 2 [] s = "parcel_received_at_origin" -> 3
    [] s = "rider_assigned" -> 4 [] s = "in_transit" -> 5 [] s = "arrived_at_destination" -> 6
    [] s = "ready_for_collection" -> 7 [] s = "completed" -> 8 [] OTHER -> 0

Back(s) ==
  CASE s = NoOrder -> 1 [] s = "awaiting_drop_off" -> 2 [] s = "parcel_received_at_origin" -> 3
    [] s = "rider_assigned" -> 4 [] s = "in_transit" -> 5 [] s = "return_initiated" -> 6
    [] s = "return_in_transit" -> 7 [] s = "returned_to_origin" -> 8
    [] s = "ready_for_sender_collection" -> 9 [] s = "return_completed" -> 10 [] OTHER -> 0

LEMMA NumbersOnTrips ==
  ASSUME NEW s
  PROVE  /\ Out(s) # 0 => Out(s) \in DOMAIN Collected /\ Collected[Out(s)] = s
         /\ Back(s) # 0 => Back(s) \in DOMAIN Returned /\ Returned[Back(s)] = s
         /\ Out(s) \in 0 .. 8 /\ Back(s) \in 0 .. 10
BY DEF Collected, Returned, Out, Back

LEMMA UpTheNumbers ==
  ASSUME NEW s, NEW t, \/ 0 < Out(s) /\ Out(s) < Out(t)
                       \/ 0 < Back(s) /\ Back(s) < Back(t)
  PROVE  Onward(s, t)
<1>1. CASE 0 < Out(s) /\ Out(s) < Out(t)
  <2>1. Out(s) \in DOMAIN Collected /\ Collected[Out(s)] = s /\ Out(t) \in DOMAIN Collected /\ Collected[Out(t)] = t
    BY <1>1, NumbersOnTrips
  <2>2. Collected \in Trips
    BY TripsAre
  <2> QED BY <1>1, <2>1, <2>2 DEF Onward
<1>2. CASE 0 < Back(s) /\ Back(s) < Back(t)
  <2>1. Back(s) \in DOMAIN Returned /\ Returned[Back(s)] = s /\ Back(t) \in DOMAIN Returned /\ Returned[Back(t)] = t
    BY <1>2, NumbersOnTrips
  <2>2. Returned \in Trips
    BY TripsAre
  <2> QED BY <1>2, <2>1, <2>2 DEF Onward
<1> QED BY <1>1, <1>2

(* From one place to the next. *)
Forward(p, q) ==
  \/ q = p
  \/ p = "sender" /\ q = "origin"
  \/ p = "origin" /\ q \in {"courier_out", "destination", "courier_back", "origin_again"}
  \/ p = "courier_out" /\ q \in {"destination", "courier_back", "origin_again"}
  \/ p = "destination" /\ q = "receiver"
  \/ p = "courier_back" /\ q = "origin_again"
  \/ p = "origin_again" /\ q = "sender_again"

Unused == {"cancelled", "disputed", "return_initiated"}

LEMMA ForwardIsOnward ==
  ASSUME NEW s \in Statuses \ Unused, NEW t \in Statuses \ Unused, Forward(PlaceAt(s), PlaceAt(t)),
         s # NoOrder => t # NoOrder, s \in Waiting => t \in Waiting \cup Done
  PROVE  Onward(s, t)
<1>1. \/ s = t
      \/ s = "rider_assigned" /\ t = "parcel_received_at_origin"
      \/ 0 < Out(s) /\ Out(s) < Out(t)
      \/ 0 < Back(s) /\ Back(s) < Back(t)
  BY DEF Statuses, OrderStatuses, Unused, Forward, PlaceAt, Waiting, Done, Out, Back, NoOrder
<1> QED BY <1>1, UpTheNumbers DEF Onward

(* An order stays an order: what is paid for stays so. *)
LEMMA PaidIsKept == NodeInv /\ [Next]_vars => \A o \in Orders : intent[o] = "paid" => intent'[o] = "paid"
<1> SUFFICES ASSUME NodeInv, [Next]_vars, NEW q \in Orders, intent[q] = "paid" PROVE intent'[q] = "paid"
  OBVIOUS
<1>1. ASSUME NEW o \in Orders,
             CreatePaymentIntent(o) \/ ConfirmPaymentIntentPaid(o) \/ ExpirePaymentIntent(o)
      PROVE  intent'[q] = "paid"
  BY <1>1 DEF CreatePaymentIntent, ConfirmPaymentIntentPaid, ExpirePaymentIntent, NodeInv, TypeOK
<1>2. ASSUME NEW o \in Orders, NEW v, Commit(o, v) PROVE intent'[q] = "paid"
  BY <1>2 DEF Commit
<1>3. CASE UNCHANGED vars
  BY <1>3 DEF vars
<1>4. ASSUME NEW o \in Orders,
             \/ ConfirmDropOff(o) \/ ConfirmIntake(o) \/ ConfirmCollection(o)
             \/ ReturnIntake(o) \/ ReturnCollection(o)
      PROVE  intent'[q] = "paid"
  BY <1>2, <1>4 DEF ConfirmDropOff, ConfirmIntake, ConfirmCollection, ReturnIntake, ReturnCollection
<1>5. ASSUME NEW o \in Orders,
             \/ \E r \in Riders : AcceptOrder(o, r)
             \/ \E event \in {"picked_up", "delivered"} : ConfirmHandoff(o, event)
      PROVE  intent'[q] = "paid"
  BY <1>2, <1>5 DEF AcceptOrder, ConfirmHandoff
<1>6. ASSUME NEW o \in Orders,
             \/ SubmitAccepted(o) \/ SubmitRefused(o)
             \/ \E reported \in LegStatuses : SyncFromSnapshot(o, reported)
             \/ ExpireUnassigned(o) \/ FallbackToInHouse(o)
      PROVE  intent'[q] = "paid"
  <2>1. SubmitAccepted(o) \/ \E v : Commit(o, v)
    BY <1>6 DEF SubmitRefused, SyncFromSnapshot, ExpireUnassigned, FallbackToInHouse
  <2> QED BY <1>2, <2>1 DEF SubmitAccepted
<1> QED BY <1>1, <1>3, <1>4, <1>5, <1>6 DEF Next

InUse == \A o \in Orders : status[o] \in Statuses \ Unused /\ (intent[o] = "paid" <=> status[o] # NoOrder)

LEMMA StatusesInUse == NodeInv => InUse
BY DEF NodeInv, TypeOK, PaidHasOrder, LegAndOrderAgree, LegStatusesOf, Statuses, NoOrder, InUse, Unused

LEMMA StatusesInUseAfter == NodeInv' => InUse'
BY StatusesInUse, PTL

LEMMA ParcelsGoForward ==
  ASSUME CustodyStep, NEW o \in Orders
  PROVE  Forward(Place(o), Place(o)')
<1> DEFINE at == [x \in Orders |-> Place(x)]
           by == [x \in Orders |-> Carrier(x)]
<1>0. at[o] = Place(o) /\ at'[o] = Place(o)'
  OBVIOUS
<1>1. ASSUME at' = at PROVE Forward(Place(o), Place(o)')
  BY <1>0, <1>1 DEF Forward
<1>2. ASSUME NEW p \in Orders, NEW from, NEW to, NEW c, Custody!Handover(p, from, to, c)
      PROVE  \/ at'[o] = at[o]
             \/ at[o] \in from /\ at'[o] = to
  <2>1. at[p] \in from /\ at' = [at EXCEPT ![p] = to]
    BY <1>2 DEF Custody!Handover
  <2>2. DOMAIN at = Orders
    OBVIOUS
  <2> HIDE DEF at
  <2> QED BY <2>1, <2>2
<1>3. ASSUME NEW p \in Orders,
             \/ Custody!HandIn(p) \/ Custody!PickUp(p) \/ Custody!Deliver(p) \/ Custody!TurnBack(p)
             \/ Custody!BringBack(p) \/ Custody!Collect(p) \/ Custody!Reclaim(p)
      PROVE  Forward(Place(o), Place(o)')
  <2> HIDE DEF at
  <2>1. CASE Custody!HandIn(p)
    BY <1>0, <1>2, <2>1 DEF Forward, Custody!HandIn
  <2>2. CASE Custody!PickUp(p)
    BY <1>0, <1>2, <2>2 DEF Forward, Custody!PickUp
  <2>3. CASE Custody!Deliver(p)
    BY <1>0, <1>2, <2>3 DEF Forward, Custody!Deliver
  <2>4. CASE Custody!TurnBack(p)
    BY <1>0, <1>2, <2>4 DEF Forward, Custody!TurnBack
  <2>5. CASE Custody!BringBack(p)
    BY <1>0, <1>2, <2>5 DEF Forward, Custody!BringBack
  <2>6. CASE Custody!Collect(p)
    BY <1>0, <1>2, <2>6 DEF Forward, Custody!Collect
  <2>7. CASE Custody!Reclaim(p)
    BY <1>0, <1>2, <2>7 DEF Forward, Custody!Reclaim
  <2> QED BY <1>3, <2>1, <2>2, <2>3, <2>4, <2>5, <2>6, <2>7
<1>4. CASE UNCHANGED Custody!custodyVars
  BY <1>1, <1>4 DEF Custody!custodyVars
<1> QED BY <1>3, <1>4 DEF CustodyStep, Custody!CustodyNext

LEMMA OrdersGoOnward ==
  ASSUME CustodyInv, [Next]_vars, NEW o \in Orders
  PROVE  Onward(status[o], status'[o])
<1>1. NodeInv /\ ShelvesConsistent /\ NodeInv' /\ ShelvesConsistent'
  BY NextNodeInv, NextShelves DEF CustodyInv
<1>2. StatusTells /\ StatusTells' /\ InUse /\ InUse'
  BY <1>1, StatusAlwaysTells, StatusTellsAfter, StatusesInUse, StatusesInUseAfter
<1>3. Forward(PlaceAt(status[o]), PlaceAt(status'[o]))
  <2>1. Forward(Place(o), Place(o)')
    BY NextCustody, ParcelsGoForward
  <2> QED BY <1>2, <2>1 DEF StatusTells
<1>4. status[o] # NoOrder => status'[o] # NoOrder
  BY <1>1, <1>2, PaidIsKept DEF InUse
<1>5. status[o] \in Waiting => status'[o] \in Waiting \cup Done
  BY <1>1, NextStaysRouted DEF StaysRouted
<1>6. status[o] \in Statuses \ Unused /\ status'[o] \in Statuses \ Unused
  BY <1>2 DEF InUse
<1> QED BY <1>3, <1>4, <1>5, <1>6, ForwardIsOnward

-----------------------------------------------------------------------------
(* The log. *)

(* What a courier who drops the job leaves in the log. *)
Dropped == {"rider_assigned", "courier_released"}

(* The log has the events of the stretch the order has come, and perhaps   *)
(* those of couriers who dropped the job; the emails are those of the      *)
(* events.  An order that was not dropped off was never any courier's.     *)
Events(x, i) == { EventOf(x[k]) : k \in 2 .. i }

Tells(l, s) ==
  \E x \in Trips : \E i \in DOMAIN x :
    /\ s = x[i]
    /\ l \ Dropped = Events(x, i) \ Dropped
    /\ i < 3 => l \cap Dropped = {}

ToldSoFar(o) ==
  /\ Tells(log[o], status[o])
  /\ post[o] = UNION { LettersOf(e) : e \in log[o] }

HistoryInv == CustodyInv /\ \A o \in Orders : ToldSoFar(o)

LEMMA AppendedIsTold ==
  ASSUME NEW s, NEW t, Onward(s, t), NEW l, Tells(l, s), NEW m, m = l \cup Appended(s, t)
  PROVE  Tells(m, t)
<1> SUFFICES ASSUME NEW x \in Trips, NEW i \in DOMAIN x, s = x[i],
                    l \ Dropped = Events(x, i) \ Dropped, i < 3 => l \cap Dropped = {}
             PROVE  \E y \in Trips : \E j \in DOMAIN y :
                      /\ t = y[j] /\ m \ Dropped = Events(y, j) \ Dropped
                      /\ j < 3 => m \cap Dropped = {}
  BY DEF Tells
<1>0. \A y \in Trips :
        /\ 3 \in DOMAIN y /\ y[3] = "parcel_received_at_origin"
        /\ 4 \in DOMAIN y /\ y[4] = "rider_assigned"
        /\ \A k \in DOMAIN y : /\ y[k] = "parcel_received_at_origin" => k = 3
                               /\ y[k] = "rider_assigned" => k = 4
  BY TripsAre DEF Collected, Returned, NoOrder
<1>1. CASE s = t
  <2>1. m = l
    BY <1>1 DEF Appended
  <2> QED BY <1>1, <2>1
<1>2. CASE s = "rider_assigned" /\ t = "parcel_received_at_origin"
  <2>1. m = l \cup {"courier_released"}
    BY <1>2 DEF Appended
  <2>2. i = 4 /\ 3 \in DOMAIN x /\ x[3] = t
    BY <1>2, <1>0
  <2>3. Events(x, 4) = Events(x, 3) \cup {"rider_assigned"}
    <3>1. 2 .. 4 = (2 .. 3) \cup {4}
      OBVIOUS
    <3>2. EventOf(x[4]) = "rider_assigned"
      BY <1>2, <2>2 DEF EventOf
    <3> QED BY <3>1, <3>2 DEF Events
  <2>4. m \ Dropped = Events(x, 3) \ Dropped
    BY <2>1, <2>2, <2>3 DEF Dropped
  <2> QED BY <2>2, <2>4
<1>3. CASE \E y \in Trips : \E a, b \in DOMAIN y : a < b /\ s = y[a] /\ t = y[b]
  <2>1. PICK y \in Trips : \E a, b \in DOMAIN y : a < b /\ s = y[a] /\ t = y[b]
    BY <1>3
  <2>2. PICK j \in DOMAIN y : \E a \in DOMAIN y : a < j /\ s = y[a] /\ t = y[j]
    BY <2>1
  <2>3. i \in DOMAIN y /\ i < j /\ s = y[i] /\ t = y[j] /\ (y = x \/ i \in 1 .. 5)
    <3>1. PICK a \in DOMAIN y : a < j /\ s = y[a] /\ t = y[j]
      BY <2>2
    <3>2. x[i] = y[a] => i = a /\ (y = x \/ i \in 1 .. 5)
      BY Trip
    <3> QED BY <3>1, <3>2
  <2>4. s # t /\ <<s, t>> # <<"rider_assigned", "parcel_received_at_origin">>
    <3>1. s # t
      BY <2>3, Trip
    <3>2. ASSUME s = "rider_assigned", t = "parcel_received_at_origin" PROVE FALSE
      <4>1. y[i] = "rider_assigned" /\ y[j] = "parcel_received_at_origin"
        BY <2>3, <3>2
      <4>2. i \in DOMAIN y /\ j \in DOMAIN y
        BY <2>3
      <4>3. i = 4 /\ j = 3
        BY ONLY <1>0, <4>1, <4>2, y \in Trips
      <4> QED BY <2>3, <4>3
    <3> QED BY <3>1, <3>2
  <2>5. Appended(s, t) = { EventOf(y[k]) : k \in (i + 1) .. j }
    <3>1. Passed(s, t) = { y[k] : k \in (i + 1) .. j }
      BY <2>3, PassedOnTrip
    <3> QED BY <2>4, <3>1 DEF Appended
  <2>6. Events(x, i) = Events(y, i)
    <3>1. i \in Nat
      BY Trip
    <3>2. \A k \in 2 .. i : i \in 1 .. 5 => k \in 1 .. 5
      BY <3>1
    <3>3. \A k \in 2 .. i : x[k] = y[k]
      <4>1. CASE y = x
        BY <4>1
      <4>2. CASE i \in 1 .. 5
        BY <3>2, <4>2, Trip
      <4> QED BY <2>3, <4>1, <4>2
    <3> QED BY <3>3 DEF Events
  <2>7. Events(y, j) = Events(y, i) \cup (Appended(s, t) \ Events(y, i))
    <3>1. i \in Nat /\ j \in Nat /\ i < j /\ 1 <= i
      BY <2>3, Trip
    <3>2. /\ \A k \in 2 .. j : k \in 2 .. i \/ k \in (i + 1) .. j
          /\ \A k \in 2 .. i : k \in 2 .. j
          /\ \A k \in (i + 1) .. j : k \in 2 .. j
      BY <3>1
    <3> QED BY <2>5, <3>2 DEF Events
  <2>8. m \ Dropped = Events(y, j) \ Dropped
    BY <2>6, <2>7
  <2>9. j < 3 => m \cap Dropped = {}
    <3>1. ASSUME j < 3 PROVE Appended(s, t) \subseteq {"order_placed"}
      <4>1. i = 1 /\ j = 2
        <5>1. i \in Nat /\ j \in Nat /\ 1 <= i
          BY <2>3, Trip
        <5> QED BY <2>3, <3>1, <5>1
      <4>0. y[2] = "awaiting_drop_off"
        BY TripsAre DEF Collected, Returned
      <4>2. EventOf(y[2]) = "order_placed"
        BY <4>0 DEF EventOf
      <4> QED BY <2>5, <4>0, <4>1, <4>2
    <3>2. j < 3 => i < 3
      BY <2>3, Trip
    <3> QED BY <3>1, <3>2 DEF Dropped
  <2> QED BY <2>2, <2>3, <2>8, <2>9
<1> QED BY <1>1, <1>2, <1>3 DEF Onward

LEMMA InitHistory == HistoryInit => HistoryInv
<1> SUFFICES ASSUME HistoryInit, NEW o \in Orders PROVE CustodyInv /\ ToldSoFar(o)
  BY InitCustody DEF HistoryInit, HistoryInv
<1>1. CustodyInv
  BY InitCustody DEF HistoryInit
<1>2. Collected \in Trips /\ 1 \in DOMAIN Collected /\ status[o] = Collected[1]
  BY TripsAre DEF Collected, HistoryInit, Init
<1>3. log[o] = {} /\ post[o] = {} /\ Events(Collected, 1) = {}
  BY DEF HistoryInit, Events
<1>4. ToldSoFar(o)
  BY <1>2, <1>3 DEF Tells, ToldSoFar
<1> QED BY <1>1, <1>4

LEMMA RecordTells ==
  ASSUME HistoryInv, [Next]_vars, Record, NEW o \in Orders
  PROVE  ToldSoFar(o)'
<1> DEFINE new == Appended(status[o], status'[o])
<1>1. /\ log'[o] = log[o] \cup new
      /\ post'[o] = post[o] \cup UNION { LettersOf(e) : e \in new }
  BY DEF Record
<1>2. Onward(status[o], status'[o])
  BY OrdersGoOnward DEF HistoryInv
<1>3. /\ Tells(log[o], status[o])
      /\ post[o] = UNION { LettersOf(e) : e \in log[o] }
  BY DEF HistoryInv, ToldSoFar
<1>4. Tells(log'[o], status'[o])
  BY <1>1, <1>2, <1>3, AppendedIsTold
<1>5. post'[o] = UNION { LettersOf(e) : e \in log'[o] }
  <2> HIDE DEF new
  <2> QED BY <1>1, <1>3
<1> QED BY <1>4, <1>5 DEF ToldSoFar

LEMMA NextHistory == HistoryInv /\ [HistoryNext]_<<vars, historyVars>> => HistoryInv'
<1> SUFFICES ASSUME HistoryInv, [HistoryNext]_<<vars, historyVars>> PROVE HistoryInv'
  OBVIOUS
<1>1. CASE HistoryNext
  <2>1. CustodyInv'
    BY <1>1, NextCustody DEF HistoryInv, HistoryNext
  <2>2. \A o \in Orders : ToldSoFar(o)'
    BY <1>1, RecordTells DEF HistoryNext
  <2> QED BY <2>1, <2>2 DEF HistoryInv
<1>2. CASE UNCHANGED <<vars, historyVars>>
  <2>1. CustodyInv'
    BY <1>2, NextCustody DEF HistoryInv
  <2>2. status' = status /\ log' = log /\ post' = post
    BY <1>2 DEF vars, orderVars, historyVars
  <2>3. \A o \in Orders : ToldSoFar(o)'
    BY <2>2 DEF HistoryInv, ToldSoFar
  <2> QED BY <2>1, <2>3 DEF HistoryInv
<1> QED BY <1>1, <1>2

-----------------------------------------------------------------------------
(* What the log of an order of each status has in it. *)

LEMMA OneMoreEvent ==
  ASSUME NEW x \in Trips, NEW i \in Nat, NEW j, j = i + 1, 1 <= i
  PROVE  Events(x, j) = Events(x, i) \cup {EventOf(x[j])}
<1>1. 2 .. j = (2 .. i) \cup {j}
  OBVIOUS
<1> QED BY <1>1 DEF Events

EventsUpTo(s) ==
  LET road == {"order_placed", "parcel_received_at_origin", "picked_up_by_rider"}
      there == road \cup {"arrived_at_destination"}
      back == road \cup {"return_initiated", "return_in_transit"}
  IN  CASE s = NoOrder -> {}
        [] s = "awaiting_drop_off" -> {"order_placed"}
        [] s \in {"parcel_received_at_origin", "rider_assigned"} ->
             {"order_placed", "parcel_received_at_origin"}
        [] s = "in_transit" -> road
        [] s = "arrived_at_destination" -> there
        [] s = "ready_for_collection" -> there \cup {"ready_for_collection"}
        [] s = "completed" -> there \cup {"ready_for_collection", "collected_by_receiver"}
        [] s = "return_initiated" -> road \cup {"return_initiated"}
        [] s = "return_in_transit" -> back
        [] s = "returned_to_origin" -> back \cup {"returned_to_origin"}
        [] s = "ready_for_sender_collection" ->
             back \cup {"returned_to_origin", "ready_for_sender_collection"}
        [] s = "return_completed" ->
             back \cup {"returned_to_origin", "ready_for_sender_collection", "collected_by_sender"}

LEMMA EventsAre ==
  ASSUME NEW x \in Trips, NEW i \in DOMAIN x
  PROVE  Events(x, i) \ Dropped = EventsUpTo(x[i])
<1>1. /\ x[1] = NoOrder /\ x[2] = "awaiting_drop_off" /\ x[3] = "parcel_received_at_origin"
      /\ x[4] = "rider_assigned" /\ x[5] = "in_transit"
  BY TripsAre DEF Collected, Returned
<1>2. Events(x, 1) = {}
  BY DEF Events
<1>3. Events(x, 2) = {"order_placed"}
  BY <1>1, <1>2, OneMoreEvent DEF EventOf
<1>4. Events(x, 3) = {"order_placed", "parcel_received_at_origin"}
  BY <1>1, <1>3, OneMoreEvent DEF EventOf
<1>5. Events(x, 4) = {"order_placed", "parcel_received_at_origin", "rider_assigned"}
  BY <1>1, <1>4, OneMoreEvent DEF EventOf
<1>6. Events(x, 5) = {"order_placed", "parcel_received_at_origin", "rider_assigned",
                      "picked_up_by_rider"}
  BY <1>1, <1>5, OneMoreEvent DEF EventOf
<1>7. CASE i \in 1 .. 5
  <2>1. CASE i \in {1, 2}
    BY <1>1, <1>2, <1>3, <2>1 DEF Dropped, EventsUpTo, NoOrder
  <2>2. CASE i \in {3, 4, 5}
    BY <1>1, <1>4, <1>5, <1>6, <2>2 DEF Dropped, EventsUpTo, NoOrder
  <2> QED BY <1>7, <2>1, <2>2
<1>8. CASE x = Collected
  <2>1. /\ x[6] = "arrived_at_destination" /\ x[7] = "ready_for_collection" /\ x[8] = "completed"
        /\ DOMAIN x = 1 .. 8
    BY <1>8 DEF Collected
  <2>2. Events(x, 6) = Events(x, 5) \cup {"arrived_at_destination"}
    BY <2>1, OneMoreEvent DEF EventOf
  <2>3. Events(x, 7) = Events(x, 6) \cup {"ready_for_collection"}
    BY <2>1, OneMoreEvent DEF EventOf
  <2>4. Events(x, 8) = Events(x, 7) \cup {"collected_by_receiver"}
    BY <2>1, OneMoreEvent DEF EventOf
  <2>8. CASE i \in {6, 7, 8}
    BY <1>6, <2>1, <2>2, <2>3, <2>4, <2>8 DEF Dropped, EventsUpTo, NoOrder
  <2> QED BY <1>7, <2>1, <2>8
<1>9. CASE x = Returned
  <2>1. /\ x[6] = "return_initiated" /\ x[7] = "return_in_transit" /\ x[8] = "returned_to_origin"
        /\ x[9] = "ready_for_sender_collection" /\ x[10] = "return_completed"
        /\ DOMAIN x = 1 .. 10
    BY <1>9 DEF Returned
  <2> DEFINE road == {"order_placed", "parcel_received_at_origin", "rider_assigned",
                      "picked_up_by_rider", "return_initiated"}
  <2>2. Events(x, 6) = road
    BY <1>6, <2>1, OneMoreEvent DEF EventOf
  <2>3. Events(x, 7) = road \cup {"return_in_transit"}
    BY <2>1, <2>2, OneMoreEvent DEF EventOf
  <2>4. Events(x, 8) = road \cup {"return_in_transit", "returned_to_origin"}
    BY <2>1, <2>3, OneMoreEvent DEF EventOf
  <2>5. Events(x, 9) = road \cup {"return_in_transit", "returned_to_origin",
                                  "ready_for_sender_collection"}
    BY <2>1, <2>4, OneMoreEvent DEF EventOf
  <2>6. Events(x, 10) = road \cup {"return_in_transit", "returned_to_origin",
                                   "ready_for_sender_collection", "collected_by_sender"}
    BY <2>1, <2>5, OneMoreEvent DEF EventOf
  <2>7. CASE i = 6
    BY <2>1, <2>2, <2>7 DEF Dropped, EventsUpTo, NoOrder
  <2>8. CASE i = 7
    BY <2>1, <2>3, <2>8 DEF Dropped, EventsUpTo, NoOrder
  <2>9. CASE i = 8
    BY <2>1, <2>4, <2>9 DEF Dropped, EventsUpTo, NoOrder
  <2>10. CASE i = 9
    BY <2>1, <2>5, <2>10 DEF Dropped, EventsUpTo, NoOrder
  <2>11. CASE i = 10
    BY <2>1, <2>6, <2>11 DEF Dropped, EventsUpTo, NoOrder
  <2> QED BY <1>7, <2>1, <2>7, <2>8, <2>9, <2>10, <2>11
<1> QED BY <1>8, <1>9, TripsAre

LEMMA EventsOfOrder ==
  ASSUME NEW l, NEW s, Tells(l, s)
  PROVE  /\ l \ Dropped = EventsUpTo(s)
         /\ s \in {NoOrder, "awaiting_drop_off"} => l = EventsUpTo(s)
<1>1. PICK x \in Trips : \E i \in DOMAIN x :
        s = x[i] /\ l \ Dropped = Events(x, i) \ Dropped /\ (i < 3 => l \cap Dropped = {})
  BY DEF Tells
<1>2. PICK i \in DOMAIN x :
        s = x[i] /\ l \ Dropped = Events(x, i) \ Dropped /\ (i < 3 => l \cap Dropped = {})
  BY <1>1
<1>3. l \ Dropped = EventsUpTo(s)
  BY <1>2, EventsAre
<1>4. s \in {NoOrder, "awaiting_drop_off"} => i \in {1, 2}
  BY <1>2, TripsAre DEF Collected, Returned, NoOrder
<1> QED BY <1>2, <1>3, <1>4

(* The page. *)
LEMMA PageByStatus ==
  ASSUME HistoryInv, NEW o \in Orders, status[o] # NoOrder
  PROVE  TimelineFor(o) = Been(o)
<1>1. /\ log[o] \ Dropped = EventsUpTo(status[o])
      /\ status[o] = "awaiting_drop_off" => log[o] = EventsUpTo(status[o])
  BY EventsOfOrder DEF HistoryInv, ToldSoFar
<1>2. Place(o) = PlaceAt(status[o]) /\ status[o] \in Statuses \ Unused
  BY PlaceByStatus, StatusesInUse DEF HistoryInv, CustodyInv, InUse
<1>3. /\ status[o] = "arrived_at_destination" => shelf[o] = NoShelf
      /\ status[o] = "ready_for_collection" => shelf[o] # NoShelf
  BY FulfilmentAssumption DEF HistoryInv, CustodyInv, ShelvesConsistent, ShelfOf, NoShelf
<1>4. \A a : a \in TimelineFor(o) <=> \E e \in log[o] : a \in TimelineEntries(e)
  BY DEF TimelineFor
<1> DEFINE s == status[o]
<1>5. CASE s = "awaiting_drop_off"
  BY <1>1, <1>2, <1>4, <1>5 DEF EventsUpTo, TimelineEntries, Been, PlaceAt, NoOrder
<1>6. CASE s \in {"parcel_received_at_origin", "rider_assigned"}
  BY <1>1, <1>2, <1>4, <1>6 DEF EventsUpTo, TimelineEntries, Been, PlaceAt, NoOrder, Dropped
<1>7. CASE s = "in_transit"
  BY <1>1, <1>2, <1>4, <1>7 DEF EventsUpTo, TimelineEntries, Been, PlaceAt, NoOrder, Dropped
<1>8. CASE s = "arrived_at_destination"
  BY <1>1, <1>2, <1>3, <1>4, <1>8 DEF EventsUpTo, TimelineEntries, Been, PlaceAt, NoOrder, Dropped
<1>9. CASE s = "ready_for_collection"
  BY <1>1, <1>2, <1>3, <1>4, <1>9 DEF EventsUpTo, TimelineEntries, Been, PlaceAt, NoOrder, Dropped
<1>10. CASE s = "completed"
  BY <1>1, <1>2, <1>4, <1>10 DEF EventsUpTo, TimelineEntries, Been, PlaceAt, NoOrder, Dropped
<1>11. CASE s = "return_in_transit"
  BY <1>1, <1>2, <1>4, <1>11 DEF EventsUpTo, TimelineEntries, Been, PlaceAt, NoOrder, Dropped
<1>12. CASE s \in {"returned_to_origin", "ready_for_sender_collection"}
  BY <1>1, <1>2, <1>4, <1>12 DEF EventsUpTo, TimelineEntries, Been, PlaceAt, NoOrder, Dropped
<1>13. CASE s = "return_completed"
  BY <1>1, <1>2, <1>4, <1>13 DEF EventsUpTo, TimelineEntries, Been, PlaceAt, NoOrder, Dropped
<1> QED BY <1>2, <1>5, <1>6, <1>7, <1>8, <1>9, <1>10, <1>11, <1>12, <1>13
        DEF Statuses, OrderStatuses, Unused

LEMMA CourierByStatus ==
  ASSUME CustodyInv, NEW o \in Orders
  PROVE  CourierLabelFor(o) =
           IF leg[o].status \in {"assigned", "picked_up", "returning"}
           THEN leg[o].provider ELSE NoProvider
<1>1. leg[o].status \in LegStatusesOf(status[o]) /\ status[o] \in Statuses \ Unused
  BY StatusesInUse DEF CustodyInv, NodeInv, LegAndOrderAgree, InUse
<1> QED BY <1>1 DEF CourierLabelFor, LegStatusesOf, Unused, Statuses, OrderStatuses, NoOrder, NoStatus

LEMMA PageIsTrue ==
  ASSUME HistoryInv, NEW o \in Orders, status[o] # NoOrder
  PROVE  PageTellsTheTrip(o)
<1>1. TimelineFor(o) = Been(o)
  BY PageByStatus
<1>2. /\ Place(o) = PlaceAt(status[o]) /\ status[o] \in Statuses \ Unused
  BY PlaceByStatus, StatusesInUse DEF HistoryInv, CustodyInv, InUse
<1>3. status[o] = "ready_for_collection" => shelf[o] # NoShelf
  BY FulfilmentAssumption DEF HistoryInv, CustodyInv, ShelvesConsistent, ShelfOf, NoShelf
<1>4. ToPublicStatus(status[o]) \in Been(o) \cup {"awaiting_drop_off"}
  BY <1>2, <1>3 DEF ToPublicStatus, Been, PlaceAt, Statuses, OrderStatuses, Unused, NoOrder
<1>5. ToPublicStatus(status[o]) \in ReturnPublicStatuses <=>
        Place(o) \in {"courier_back", "origin_again", "sender_again"}
  BY <1>2 DEF ToPublicStatus, ReturnPublicStatuses, PlaceAt, Statuses, OrderStatuses, Unused, NoOrder
<1> QED BY <1>1, <1>4, <1>5, CourierByStatus DEF HistoryInv, PageTellsTheTrip

(* The emails. *)
LEMMA PeopleByStatus ==
  ASSUME HistoryInv, NEW o \in Orders, status[o] # NoOrder
  PROVE  PeopleAreTold(o)
<1>1. log[o] \ Dropped = EventsUpTo(status[o])
  BY EventsOfOrder DEF HistoryInv, ToldSoFar
<1>2. \A letter : letter \in post[o] <=> \E e \in log[o] : letter \in LettersOf(e)
  BY DEF HistoryInv, ToldSoFar
<1>3. \A e \in Dropped : LettersOf(e) = {}
  BY DEF Dropped, LettersOf, ReceiverLetters, ReturnLetters
<1>4. \A letter : letter \in post[o] <=> \E e \in EventsUpTo(status[o]) : letter \in LettersOf(e)
  BY <1>1, <1>2, <1>3
<1>5. /\ Place(o) = PlaceAt(status[o]) /\ status[o] \in Statuses \ Unused
  BY PlaceByStatus, StatusesInUse DEF HistoryInv, CustodyInv, InUse
<1>6. /\ shelf[o].node = Destination[o] => status[o] = "ready_for_collection"
      /\ status[o] = "returned_to_origin" => shelf[o] = NoShelf
  BY FulfilmentAssumption DEF HistoryInv, CustodyInv, ShelvesConsistent, ShelfOf, NoShelf
<1>7. ASSUME NEW e
      PROVE  LettersOf(e) =
               CASE e = "parcel_received_at_origin" -> {<<"receiver", "on_its_way">>}
                 [] e = "ready_for_collection" -> {<<"receiver", "collection_code">>}
                 [] e = "return_initiated" -> {<<"sender", "returning">>, <<"receiver", "returning">>}
                 [] e = "ready_for_sender_collection" -> {<<"sender", "collection_code">>}
                 [] e = "order_placed" -> {<<"sender", "confirmed">>}
                 [] OTHER -> {}
  BY DEF LettersOf, ReceiverLetters, ReturnLetters
<1>8. ASSUME NEW e
      PROVE  /\ (\E letter \in LettersOf(e) : letter[1] = "receiver") <=>
                  e \in {"parcel_received_at_origin", "ready_for_collection", "return_initiated"}
             /\ <<"receiver", "collection_code">> \in LettersOf(e) <=> e = "ready_for_collection"
             /\ <<"sender", "collection_code">> \in LettersOf(e) <=> e = "ready_for_sender_collection"
             /\ \A person \in {"sender", "receiver"} :
                  <<person, "returning">> \in LettersOf(e) <=> e = "return_initiated"
  <2>1. CASE e = "return_initiated"
    BY <1>7, <2>1
  <2>2. CASE e \in {"parcel_received_at_origin", "ready_for_collection"}
    BY <1>7, <2>2
  <2>3. CASE e \in {"ready_for_sender_collection", "order_placed"}
    BY <1>7, <2>3
  <2>4. CASE e \notin {"parcel_received_at_origin", "ready_for_collection", "return_initiated",
                       "ready_for_sender_collection", "order_placed"}
    BY <1>7, <2>4
  <2> QED BY <2>1, <2>2, <2>3, <2>4
<1>9. /\ (\E letter \in post[o] : letter[1] = "receiver") <=>
           EventsUpTo(status[o]) \cap
             {"parcel_received_at_origin", "ready_for_collection", "return_initiated"} # {}
      /\ <<"receiver", "collection_code">> \in post[o] <=> "ready_for_collection" \in EventsUpTo(status[o])
      /\ <<"sender", "collection_code">> \in post[o] <=>
           "ready_for_sender_collection" \in EventsUpTo(status[o])
      /\ \A person \in {"sender", "receiver"} :
           <<person, "returning">> \in post[o] <=> "return_initiated" \in EventsUpTo(status[o])
  BY <1>4, <1>8
<1>10. (\E letter \in post[o] : letter[1] = "receiver") <=> Place(o) # "sender"
  BY <1>5, <1>9 DEF EventsUpTo, PlaceAt, Statuses, OrderStatuses, Unused, NoOrder
<1>11. \A person \in {"sender", "receiver"} :
         <<person, "returning">> \in post[o] <=>
           Place(o) \in {"courier_back", "origin_again", "sender_again"}
  <2>1. "return_initiated" \in EventsUpTo(status[o]) <=>
          Place(o) \in {"courier_back", "origin_again", "sender_again"}
    BY <1>5 DEF EventsUpTo, PlaceAt, Statuses, OrderStatuses, Unused, NoOrder
  <2> QED BY <1>9, <2>1
<1>12. shelf[o].node = Destination[o] => <<"receiver", "collection_code">> \in post[o]
  BY <1>6, <1>9 DEF EventsUpTo, NoOrder
<1>13. Place(o) = "origin_again" /\ shelf[o] # NoShelf => <<"sender", "collection_code">> \in post[o]
  BY <1>5, <1>6, <1>9 DEF EventsUpTo, PlaceAt, Statuses, OrderStatuses, Unused, NoOrder
<1> QED BY <1>10, <1>11, <1>12, <1>13 DEF PeopleAreTold

(* The timeline and the emails tell the trip the parcel has made, whatever *)
(* was caught up with at once and whoever dropped the job on the way.      *)
THEOREM HistoryAlwaysTrue == HistorySpec => []HistoryIsTrue
<1>1. HistoryInv => HistoryIsTrue
  BY PageIsTrue, PeopleByStatus DEF HistoryIsTrue
<1> QED BY <1>1, InitHistory, NextHistory, PTL DEF HistorySpec
===============================================================================
