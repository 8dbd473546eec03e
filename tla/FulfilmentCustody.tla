-------------------------- MODULE FulfilmentCustody --------------------------
(***************************************************************************)
(* Fulfilment implements ParcelCustody.  Where a parcel is follows from    *)
(* the shelf it lies on and from its delivery leg, two records the code    *)
(* keeps apart from the order's status; the status only tells a parcel on  *)
(* a counter from one that has been collected.                             *)
(***************************************************************************)
EXTENDS Fulfilment

Place(o) ==
  CASE shelf[o].node = Destination[o] -> "destination"
    [] shelf[o].node = Origin[o] ->
         IF leg[o].status = "returned" THEN "origin_again" ELSE "origin"
    [] leg[o].status = "picked_up" -> "courier_out"
    [] leg[o].status = "returning" -> "courier_back"
    [] leg[o].status = "delivered" ->
         IF status[o] = "completed" THEN "receiver" ELSE "destination"
    [] leg[o].status = "returned" ->
         IF status[o] = "return_completed" THEN "sender_again" ELSE "origin_again"
    [] OTHER -> "sender"

(* A courier is one of our riders, or an external provider. *)
Courier == {<<InHouse, r>> : r \in Riders} \cup {<<p, NoRider>> : p \in Providers \ {InHouse}}
OnTheRoad(o) == leg[o].status \in {"picked_up", "returning"}
Carrier(o) == IF OnTheRoad(o) THEN <<leg[o].provider, leg[o].courier>>
              ELSE <<NoProvider, NoRider>>

Custody == INSTANCE ParcelCustody WITH
  Parcels  <- Orders,
  Couriers <- Courier,
  Nobody   <- <<NoProvider, NoRider>>,
  at <- [o \in Orders |-> Place(o)],
  by <- [o \in Orders |-> Carrier(o)]

(* Every behaviour of the handlers moves parcels only as ParcelCustody     *)
(* allows: no parcel is in two hands, none leaves a counter but with a     *)
(* courier or the person it is for, none changes courier on the road.      *)
ImplementsCustody == Custody!CustodySpec
==============================================================================
