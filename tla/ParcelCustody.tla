---------------------------- MODULE ParcelCustody ----------------------------
(***************************************************************************)
(* What the network promises about a parcel, whatever the bookkeeping:     *)
(* it is in one pair of hands, it moves sender -> origin counter ->        *)
(* courier -> destination counter -> receiver, the only way back is with   *)
(* the courier who has it, and it never changes courier on the road.       *)
(*                                                                         *)
(* Couriers report late and reports get lost, so several of a courier's    *)
(* handovers may become known at once.                                     *)
(***************************************************************************)
CONSTANTS Parcels, Couriers, Nobody

VARIABLES
  at,   \* whose hands a parcel is in
  by    \* the courier who has it on the road

custodyVars == <<at, by>>

Hands == {"sender", "origin", "courier_out", "destination", "receiver",
          "courier_back", "origin_again", "sender_again"}

CustodyTypeOK ==
  /\ at \in [Parcels -> Hands]
  /\ by \in [Parcels -> Couriers \cup {Nobody}]

CustodyInit ==
  /\ at = [p \in Parcels |-> "sender"]
  /\ by = [p \in Parcels |-> Nobody]

Handover(p, from, to, courier) ==
  /\ at[p] \in from
  /\ at' = [at EXCEPT ![p] = to]
  /\ by' = [by EXCEPT ![p] = courier]

HandIn(p)  == Handover(p, {"sender"}, "origin", Nobody)
PickUp(p)  == \E c \in Couriers : Handover(p, {"origin"}, "courier_out", c)
Deliver(p) == Handover(p, {"origin", "courier_out"}, "destination", Nobody)
TurnBack(p) ==
  \/ \E c \in Couriers : Handover(p, {"origin"}, "courier_back", c)
  \/ Handover(p, {"courier_out"}, "courier_back", by[p])
BringBack(p) ==
  Handover(p, {"origin", "courier_out", "courier_back"}, "origin_again", Nobody)
Collect(p) == Handover(p, {"destination"}, "receiver", Nobody)
Reclaim(p) == Handover(p, {"origin_again"}, "sender_again", Nobody)

CustodyNext ==
  \E p \in Parcels :
    HandIn(p) \/ PickUp(p) \/ Deliver(p) \/ TurnBack(p)
      \/ BringBack(p) \/ Collect(p) \/ Reclaim(p)

CustodySpec == CustodyInit /\ [][CustodyNext]_custodyVars
==============================================================================
