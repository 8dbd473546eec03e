-------------------------- MODULE SubmissionCustody --------------------------
(***************************************************************************)
(* CourierSubmission keeps the promise of ParcelCustody on the road: from  *)
(* the origin's counter to the destination's or back, through the races of *)
(* submissions, reports and cancellations that Fulfilment's one step per   *)
(* handler hides.  The order's status tells where the parcel is, its       *)
(* latest leg who has it; the code keeps the two in different rows.        *)
(***************************************************************************)
EXTENDS CourierSubmission

Place ==
  CASE status \in {"parcel_received_at_origin", "rider_assigned"} -> "origin"
    [] status = "in_transit" -> "courier_out"
    [] status = "arrived_at_destination" -> "destination"
    [] status = "return_in_transit" -> "courier_back"
    [] status = "returned_to_origin" -> "origin_again"

(* Whoever the latest leg is with; 0 is nobody. *)
Carrier == IF Latest.status \in {"picked_up", "returning"} THEN Len(legs) ELSE 0

TheOrder == "order"
Custody == INSTANCE ParcelCustody WITH
  Parcels  <- {TheOrder},
  Couriers <- Nr,
  Nobody   <- 0,
  at <- [p \in {TheOrder} |-> Place],
  by <- [p \in {TheOrder} |-> Carrier]

(* However late refusals, reports and cancellations arrive, the order and  *)
(* its latest leg (two rows, orders and delivery_legs) tell one journey:   *)
(* the parcel leaves the counter with one courier, stays with that courier *)
(* on the road, and only ever moves on or turns back.                      *)
MovesAsCustodyAllows == [][Custody!CustodyNext]_(Custody!custodyVars)
==============================================================================
