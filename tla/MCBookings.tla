----------------------------- MODULE MCBookings ------------------------------
(* Two deliveries, and a wallet that covers both with their surcharges or  *)
(* falls just short of that.                                               *)
EXTENDS Bookings

MCFee == [l \in Legs |-> 10]
==============================================================================
