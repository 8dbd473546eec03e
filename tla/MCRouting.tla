------------------------------ MODULE MCRouting ------------------------------
(* The pool and Sendii, which has been switched on; neither has vans.      *)
(* o2 was sold before vehicles were chosen.  The other settings are those  *)
(* the migrations insert.                                                  *)
EXTENDS Routing, TLC

CONSTANTS o1, o2, pool, sendii, bike, car, van, n1, n2, a1, a2

MCOffers == [p \in Providers |-> {bike, car}]
MCKeyOrder == (pool :> 1) @@ (sendii :> 2)
MCParcels == [size : {"medium", "large"}, load : {1, 3}]
MCParcel == [o \in Orders |-> [size |-> "medium", load |-> 3]]
MCOrigin == (o1 :> n1) @@ (o2 :> n2)
MCKm == (o1 :> 5) @@ (o2 :> 20)
MCFirstSettings ==
  (pool :> [enabled |-> TRUE, priority |-> 1000, maxAttempts |-> 1, minKm |-> NoLimit,
            maxKm |-> NoLimit, pilots |-> {}, timed |-> FALSE])
  @@ (sendii :> [enabled |-> TRUE, priority |-> 10, maxAttempts |-> 2, minKm |-> 1,
                 maxKm |-> 80, pilots |-> {}, timed |-> TRUE])
MCFirstRules ==
  (bike :> [enabled |-> TRUE, rank |-> 2, sizes |-> {"medium"}, maxLoad |-> 2])
  @@ (car :> [enabled |-> TRUE, rank |-> 3, sizes |-> {"medium", "large"}, maxLoad |-> 4])
  @@ (van :> [enabled |-> FALSE, rank |-> 4, sizes |-> {"medium", "large"}, maxLoad |-> 9])
MCEdits ==
  { [provider |-> sendii, changes |-> [enabled |-> FALSE]],
    [provider |-> sendii, changes |-> [minKm |-> 10]],
    [provider |-> sendii, changes |-> [maxKm |-> 8]],
    [provider |-> sendii, changes |-> [priority |-> 2000]],
    [provider |-> pool, changes |-> [pilots |-> {n2}]],
    [provider |-> pool, changes |-> [maxAttempts |-> 2]],
    [provider |-> pool, changes |-> [timed |-> TRUE]] }
MCRuleEdits ==
  { [vehicle |-> car, changes |-> [enabled |-> FALSE]],
    [vehicle |-> van, changes |-> [enabled |-> TRUE]],
    [vehicle |-> bike, changes |-> [rank |-> 3]],
    [vehicle |-> bike, changes |-> [maxLoad |-> 4]] }
Symmetric == Permutations(Admins)
==============================================================================
