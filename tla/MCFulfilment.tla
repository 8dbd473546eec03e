---------------------------- MODULE MCFulfilment -----------------------------
(* o1 and o2 compete for the one slot of n1; o3 travels the other way and  *)
(* shares the shelves of both Nodes.  Each provider takes an order once; a *)
(* second attempt with the same courier is the courier submission's.       *)
EXTENDS OrderHistory, TLC

CONSTANTS o1, o2, o3, n1, n2, r1, r2, pool, sendii

MCMaxAttempts == (pool :> 1) @@ (sendii :> 1)
MCCapacity == [n \in Nodes |-> 1]
MCOrigin == [o \in Orders |-> IF o = o3 THEN n2 ELSE n1]
MCDestination == [o \in Orders |-> IF o = o3 THEN n1 ELSE n2]
Symmetric == Permutations({o1, o2}) \cup Permutations({r1, r2})
==============================================================================
