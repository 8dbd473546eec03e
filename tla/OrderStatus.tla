----------------------------- MODULE OrderStatus -----------------------------
(***************************************************************************)
(* The order's statuses and the graph of moves between them                *)
(* (orders/domain/order-status.enum.ts, order-transitions.ts).  Pure: no   *)
(* state, no constants.                                                    *)
(***************************************************************************)

OrderStatuses ==
  { "awaiting_drop_off", "parcel_received_at_origin", "rider_assigned",
    "in_transit", "arrived_at_destination", "ready_for_collection",
    "completed", "cancelled", "disputed",
    "return_initiated", "return_in_transit", "returned_to_origin",
    "ready_for_sender_collection", "return_completed" }

(* The graph as a set of edges: ORDER_TRANSITIONS[from] lists the targets. *)
OrderTransitions ==
  { <<"awaiting_drop_off",           "parcel_received_at_origin">>,
    <<"parcel_received_at_origin",   "rider_assigned">>,
    <<"rider_assigned",              "in_transit">>,
    <<"rider_assigned",              "parcel_received_at_origin">>,
    <<"in_transit",                  "arrived_at_destination">>,
    <<"in_transit",                  "return_initiated">>,
    <<"arrived_at_destination",      "ready_for_collection">>,
    <<"ready_for_collection",        "completed">>,
    <<"return_initiated",            "return_in_transit">>,
    <<"return_in_transit",           "returned_to_origin">>,
    <<"returned_to_origin",          "ready_for_sender_collection">>,
    <<"ready_for_sender_collection", "return_completed">> }

IsLegalTransition(from, to) == <<from, to>> \in OrderTransitions
==============================================================================
