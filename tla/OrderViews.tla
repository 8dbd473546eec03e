------------------------------ MODULE OrderViews ------------------------------
(***************************************************************************)
(* What people are shown of an order: the counter's work queues and "next  *)
(* action" (handoffs), the riders' list of available orders (handoffs),    *)
(* the code a counter reads out to an external courier (handoffs,          *)
(* logistics) and the public tracking page (tracking).  Each is computed   *)
(* from the order's row and its latest leg by tables of its own; nothing   *)
(* but the properties below keeps them in step with the handlers.          *)
(***************************************************************************)
EXTENDS FulfilmentCustody

(***************************************************************************)
(* The counter.  Sides and actions are those of counter-view.ts.           *)
(***************************************************************************)
OriginPhase == {"awaiting_drop_off", "parcel_received_at_origin", "rider_assigned",
                "return_initiated", "return_in_transit", "returned_to_origin",
                "ready_for_sender_collection"}

NodeRoleFor(o, mine) ==
  IF Origin[o] \in mine /\ (Destination[o] \notin mine \/ status[o] \in OriginPhase)
  THEN "origin" ELSE "destination"

OriginAction(s) ==
  CASE s = "awaiting_drop_off"           -> "confirm_drop_off"
    [] s = "parcel_received_at_origin"   -> "await_courier"
    [] s = "rider_assigned"              -> "hand_to_rider"
    [] s = "return_initiated"            -> "await_arrival"
    [] s = "return_in_transit"           -> "receive_from_rider"
    [] s = "returned_to_origin"          -> "return_intake"
    [] s = "ready_for_sender_collection" -> "hand_to_sender"
    [] OTHER -> "none"

DestinationAction(s) ==
  CASE s = "rider_assigned"         -> "await_arrival"
    [] s = "in_transit"             -> "receive_from_rider"
    [] s = "arrived_at_destination" -> "intake"
    [] s = "ready_for_collection"   -> "hand_to_receiver"
    [] OTHER -> "none"

CourierVariant(action) ==
  CASE action = "hand_to_rider"      -> "hand_to_courier"
    [] action = "receive_from_rider" -> "receive_from_courier"
    [] OTHER -> action

(* The delivery view's handover mode: the provider's capability. *)
GivesCodeToCourier(o) == leg[o].provider \in Providers \ {InHouse}

(* Mutant: the variants for an external courier are forgotten. *)
RiderActionFor(o, role) ==
  IF role = "origin" THEN OriginAction(status[o]) ELSE DestinationAction(status[o])

NextActionFor(o, role) ==
  LET action == IF role = "origin" THEN OriginAction(status[o]) ELSE DestinationAction(status[o])
  IN  IF GivesCodeToCourier(o) THEN CourierVariant(action) ELSE action

(* handoffs/courier-handovers/:id: which code this Node reads out, if any. *)
HandoverKind(o, role) ==
  CASE role = "origin" /\ status[o] = "rider_assigned"      -> "pickup"
    [] role = "destination" /\ status[o] = "in_transit"     -> "delivery"
    [] role = "origin" /\ status[o] = "return_in_transit"   -> "return_delivery"
    [] OTHER -> "none"

HandoverCodes(o) ==
  /\ leg[o].status \in {"assigned", "picked_up", "returning"}
  /\ leg[o].booked /\ GivesCodeToCourier(o)

(* Mutant: a parcel that comes back is in nobody's incoming queue. *)
QueuesWithoutReturns(o, mine) ==
  { q \in {"to_receive", "to_dispatch", "incoming", "to_collect"} :
      \/ /\ Origin[o] \in mine
         /\ \/ q = "to_receive" /\ status[o] = "awaiting_drop_off"
            \/ q = "to_dispatch" /\ status[o] \in {"parcel_received_at_origin", "rider_assigned"}
            \/ q = "to_collect" /\ status[o] \in {"returned_to_origin", "ready_for_sender_collection"}
      \/ /\ Destination[o] \in mine
         /\ \/ q = "incoming" /\ status[o] \in {"rider_assigned", "in_transit"}
            \/ q = "to_collect" /\ status[o] \in {"arrived_at_destination", "ready_for_collection"} }

(* QUEUE_FILTERS. *)
Queues(o, mine) ==
  { q \in {"to_receive", "to_dispatch", "incoming", "to_collect"} :
      \/ /\ Origin[o] \in mine
         /\ \/ q = "to_receive" /\ status[o] = "awaiting_drop_off"
            \/ q = "to_dispatch" /\ status[o] \in {"parcel_received_at_origin", "rider_assigned"}
            \/ q = "incoming" /\ status[o] \in {"return_initiated", "return_in_transit"}
            \/ q = "to_collect" /\ status[o] \in {"returned_to_origin", "ready_for_sender_collection"}
      \/ /\ Destination[o] \in mine
         /\ \/ q = "incoming" /\ status[o] \in {"rider_assigned", "in_transit"}
            \/ q = "to_collect" /\ status[o] \in {"arrived_at_destination", "ready_for_collection"} }

(***************************************************************************)
(* The riders' list and the tracking page.                                 *)
(***************************************************************************)
(* Mutant: orders an external courier has been asked to carry are listed. *)
InPoolWhoeverHasIt(o) == status[o] = "parcel_received_at_origin" /\ riderId[o] = NoRider

InPool(o) ==
  /\ status[o] = "parcel_received_at_origin" /\ riderId[o] = NoRider
  /\ ~(IsActive(leg[o]) /\ leg[o].provider # InHouse)

ToPublicStatus(s) ==
  CASE s = "awaiting_drop_off"         -> "awaiting_drop_off"
    [] s \in {"parcel_received_at_origin", "rider_assigned"} -> "at_origin_station"
    [] s = "in_transit"                -> "on_the_way"
    [] s = "arrived_at_destination"    -> "arrived_at_destination"
    [] s = "ready_for_collection"      -> "ready_for_collection"
    [] s = "completed"                 -> "collected"
    [] s \in {"return_initiated", "return_in_transit"} -> "returning_to_sender"
    [] s \in {"returned_to_origin", "ready_for_sender_collection"} -> "returned_to_sender"
    [] s = "return_completed"          -> "return_completed"
    [] OTHER -> "not_found"

(***************************************************************************)
(* Properties.                                                             *)
(***************************************************************************)
(* Staff are never told to do what the server would refuse: whenever the   *)
(* app shows an action, the view its handler's transaction ends in is one  *)
(* it commits, or the courier's code to read out exists; and who owns both *)
(* Nodes is told something to do, or to wait for, until the order is       *)
(* finished (nextActionFor, nodeRoleFor).                                  *)
NextActionIsPossible ==
  \A o \in Orders :
    /\ \A role \in {"origin", "destination"} :
         LET action == NextActionFor(o, role)
         IN  /\ action = "confirm_drop_off" => \E w \in DroppedOff(o) : w.ok
             /\ action = "hand_to_rider" => MayHandOver(o, "picked_up")
             /\ action = "receive_from_rider" => MayHandOver(o, "delivered")
             /\ action \in {"hand_to_courier", "receive_from_courier"} =>
                  HandoverKind(o, role) # "none" /\ HandoverCodes(o)
             /\ action = "intake" => TakenIn(o).ok
             /\ action = "hand_to_receiver" => HandedOut(o).ok
             /\ action = "return_intake" => TakenBack(o).ok
             /\ action = "hand_to_sender" => HandedBack(o).ok
    /\ NextActionFor(o, NodeRoleFor(o, {Origin[o], Destination[o]})) = "none" =>
         status[o] \in {NoOrder, "completed", "return_completed"}

(* Of the parcels on the counter, the riders' list shows exactly those a   *)
(* rider may claim: none an external courier has been asked to carry, and  *)
(* every one no courier has, those no provider would take included         *)
(* (browse-available-orders.service.ts).                                   *)
PoolListsTheClaimable ==
  \A o \in Orders, r \in Riders :
    Place(o) = "origin" /\ activeOrders[r] < MaxActiveOrders => (InPool(o) <=> MayClaim(o, r))

(* What people are shown follows the parcel, by where shelf and leg say it *)
(* is: one that lies at a Node or is on its way there is in a queue of     *)
(* that Node, a finished order in none (list-my-node-orders.service.ts),   *)
(* and the tracking page, which reads the status only, tells the same      *)
(* place (public-status.ts).                                               *)
ViewsFollowParcel ==
  \A o \in Orders :
    /\ Place(o) \in {"origin", "courier_back", "origin_again"} => Queues(o, {Origin[o]}) # {}
    /\ Place(o) \in {"courier_out", "destination"} => Queues(o, {Destination[o]}) # {}
    /\ status[o] \in {"completed", "return_completed"} => Queues(o, {Origin[o], Destination[o]}) = {}
    /\ status[o] # NoOrder =>
         ToPublicStatus(status[o]) \in
           CASE Place(o) = "sender"       -> {"awaiting_drop_off"}
             [] Place(o) = "origin"       -> {"at_origin_station"}
             [] Place(o) = "courier_out"  -> {"on_the_way"}
             [] Place(o) = "destination"  -> {"arrived_at_destination", "ready_for_collection"}
             [] Place(o) = "receiver"     -> {"collected"}
             [] Place(o) = "courier_back" -> {"returning_to_sender"}
             [] Place(o) = "origin_again" -> {"returned_to_sender"}
             [] Place(o) = "sender_again" -> {"return_completed"}
================================================================================
