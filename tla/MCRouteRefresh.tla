--------------------------- MODULE MCRouteRefresh ----------------------------
(* Two Nodes and a third that joins in front of them; its distance to the  *)
(* others is within the wider of the two limits only.                      *)
EXTENDS RouteRefresh

MCKm == [a \in Nodes |-> [b \in Nodes |-> IF {a, b} = {1, 3} THEN 9 ELSE 5]]
==============================================================================
