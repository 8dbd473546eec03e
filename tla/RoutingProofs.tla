----------------------------- MODULE RoutingProofs -----------------------------
(***************************************************************************)
(* Routing, for any orders, couriers, vehicles, settings and edits: whoever *)
(* carries has the vehicle, and an order that nobody edited under waits    *)
(* only when every courier that takes it has been tried.                   *)
(***************************************************************************)
EXTENDS Routing, NaturalsInduction, WellFoundedInduction, TLAPS

(* What is sold can go in the pool's vehicles, whatever else happens. *)
SoldFitsThePool ==
  \A o \in Orders :
    stage[o] \in {"sold", "counter", "gone"} /\ vehicle[o] # NoVehicle =>
      vehicle[o] \in Offers[InHouse]

VehicleInv == CarrierHasTheVehicle /\ SoldFitsThePool

(* An order has had nobody until it is dropped off, and has had whoever    *)
(* carries it.                                                             *)
LegsCounted ==
  \A o \in Orders :
    /\ stage[o] \in {"none", "quoted", "sold"} => legs[o] = [p \in Providers |-> 0]
    /\ carrier[o] # NoProvider => legs[o][carrier[o]] > 0

(* While nobody edits, what was sold can be served. *)
SoldCanBeServed ==
  \A o \in Orders \ Earlier :
    stage[o] = "sold" /\ Unedited(o) => CanServe(o, vehicle[o])

QuotesArePast == \A o \in Orders : since[o] <= edits

TriedInv == TypeOK /\ LegsCounted /\ QuotesArePast /\ SoldCanBeServed /\ WaitsOnlyWhenTried

-----------------------------------------------------------------------------
(* The policy. *)

(* One of a set comes first in what it is sorted by. *)
LEMMA Least ==
  ASSUME NEW S, S # {}, NEW f, \A p \in S : f[p] \in Nat
  PROVE  \E p \in S : \A q \in S : f[p] <= f[q]
<1> DEFINE T == { f[p] : p \in S }
<1>1. T \subseteq Nat /\ T # {}
  OBVIOUS
<1>2. \E m \in T : \A k \in T : ~(<<k, m>> \in OpToRel(<, Nat))
  <2> HIDE DEF T
  <2> QED BY <1>1, WFMin, NatLessThanWellFounded, Zenon
<1>3. PICK m \in T : \A k \in T : ~(<<k, m>> \in OpToRel(<, Nat))
  BY <1>2
<1>4. \A k \in T : ~(k < m)
  <2> HIDE DEF T
  <2> QED BY <1>1, <1>3, Zenon DEF OpToRel
<1>5. PICK p \in S : m = f[p]
  OBVIOUS
<1>6. \A q \in S : f[q] \in T /\ f[q] \in Nat
  OBVIOUS
<1> HIDE DEF T
<1>7. \A q \in S : ~(f[q] < f[p])
  BY <1>4, <1>5, <1>6
<1> QED BY <1>6, <1>7

(* There is always a first candidate, so CHOOSE finds it. *)
LEMMA FirstIsOne ==
  ASSUME TypeOK, NEW C \in SUBSET Providers, C # {}
  PROVE  FirstOf(C) \in C
<1> DEFINE rank == [p \in Providers |-> settings[p].priority]
<1>1. \A p \in Providers : rank[p] \in Nat /\ rank[p] = settings[p].priority /\ KeyOrder[p] \in Nat
  BY RoutingAssumption DEF TypeOK, Settings
<1> HIDE DEF rank
<1>2. PICK p \in C : \A q \in C : rank[p] <= rank[q]
  BY <1>1, Least
<1> DEFINE D == { q \in C : rank[q] = rank[p] }
<1>3. D # {} /\ D \subseteq C
  OBVIOUS
<1>4. PICK r \in D : \A q \in D : KeyOrder[r] <= KeyOrder[q]
  <2> HIDE DEF D
  <2> QED BY <1>1, <1>3, Least
<1>5. \A q \in C \ {r} : Before(r, q)
  <2> SUFFICES ASSUME NEW q \in C, q # r PROVE Before(r, q)
    OBVIOUS
  <2>1. CASE rank[q] = rank[p]
    BY <1>1, <1>4, <2>1, RoutingAssumption DEF Before
  <2>2. CASE rank[q] # rank[p]
    BY <1>1, <1>2, <2>2 DEF Before
  <2> QED BY <2>1, <2>2
<1>6. \E x \in C : \A q \in C \ {x} : Before(x, q)
  BY <1>5
<1> QED BY <1>6 DEF FirstOf

Candidates(o, v, had) == { p \in Providers : Takes(p, o, v) /\ had[p] < settings[p].maxAttempts }

LEMMA ChosenTakesIt ==
  ASSUME TypeOK, NEW o, NEW v, NEW had
  PROVE  /\ ChooseProvider(o, v, had) # NoProvider =>
              /\ ChooseProvider(o, v, had) \in Providers
              /\ Takes(ChooseProvider(o, v, had), o, v)
         /\ ChooseProvider(o, v, had) = NoProvider <=> Candidates(o, v, had) = {}
<1>1. ChooseProvider(o, v, had) = FirstOf(Candidates(o, v, had))
  BY DEF ChooseProvider, Candidates
<1>2. CASE Candidates(o, v, had) = {}
  BY <1>1, <1>2 DEF FirstOf
<1>3. CASE Candidates(o, v, had) # {}
  <2>1. Candidates(o, v, had) \in SUBSET Providers
    BY DEF Candidates
  <2>2. ChooseProvider(o, v, had) \in Candidates(o, v, had)
    BY <1>1, <1>3, <2>1, FirstIsOne
  <2>3. ChooseProvider(o, v, had) \in Providers /\ Takes(ChooseProvider(o, v, had), o, v)
    BY <2>2 DEF Candidates
  <2> QED BY <1>3, <2>3, RoutingAssumption
<1> QED BY <1>2, <1>3

-----------------------------------------------------------------------------
(* Rows stay rows whatever an edit names. *)
LEMMA EditedSettings ==
  ASSUME NEW row \in Settings, NEW c, Fit(c, SettingColumns)
  PROVE  With(row, c) \in Settings
<1>1. DOMAIN row = {"enabled", "priority", "maxAttempts", "minKm", "maxKm", "pilots", "timed"}
  BY DEF Settings
<1>2. DOMAIN SettingColumns = DOMAIN row
  BY <1>1 DEF SettingColumns
<1>3. /\ row["enabled"] \in BOOLEAN /\ row["priority"] \in Nat /\ row["maxAttempts"] \in Nat
      /\ row["minKm"] \in Limits /\ row["maxKm"] \in Limits
      /\ row["pilots"] \in SUBSET Nodes /\ row["timed"] \in BOOLEAN
  BY DEF Settings
<1>4. /\ SettingColumns["enabled"] = BOOLEAN /\ SettingColumns["priority"] = Nat
      /\ SettingColumns["maxAttempts"] = Nat /\ SettingColumns["minKm"] = Limits
      /\ SettingColumns["maxKm"] = Limits /\ SettingColumns["pilots"] = SUBSET Nodes
      /\ SettingColumns["timed"] = BOOLEAN
  BY DEF SettingColumns
<1>5. \A f \in DOMAIN row : f \in DOMAIN c => c[f] \in SettingColumns[f]
  BY <1>2 DEF Fit
<1> DEFINE new == With(row, c)
<1>6. /\ DOMAIN new = DOMAIN row
      /\ \A f \in DOMAIN row : new[f] = IF f \in DOMAIN c THEN c[f] ELSE row[f]
  BY DEF With
<1> HIDE DEF new
<1>7. /\ new["enabled"] \in BOOLEAN /\ new["priority"] \in Nat /\ new["maxAttempts"] \in Nat
      /\ new["minKm"] \in Limits /\ new["maxKm"] \in Limits
      /\ new["pilots"] \in SUBSET Nodes /\ new["timed"] \in BOOLEAN
  BY <1>1, <1>3, <1>4, <1>5, <1>6
<1>8. new = [enabled |-> new["enabled"], priority |-> new["priority"],
             maxAttempts |-> new["maxAttempts"], minKm |-> new["minKm"], maxKm |-> new["maxKm"],
             pilots |-> new["pilots"], timed |-> new["timed"]]
  <2> USE DEF new
  <2> QED BY <1>1 DEF With
<1>9. new \in Settings
  BY <1>7, <1>8 DEF Settings
<1> QED BY <1>9 DEF new

LEMMA EditedRules ==
  ASSUME NEW row \in Rules, NEW c, Fit(c, RuleColumns)
  PROVE  With(row, c) \in Rules
<1>1. DOMAIN row = {"enabled", "rank", "sizes", "maxLoad"}
  BY DEF Rules
<1>2. DOMAIN RuleColumns = DOMAIN row
  BY <1>1 DEF RuleColumns
<1>3. /\ row["enabled"] \in BOOLEAN /\ row["rank"] \in Nat
      /\ row["sizes"] \in SUBSET Sizes /\ row["maxLoad"] \in Nat
  BY DEF Rules
<1>4. /\ RuleColumns["enabled"] = BOOLEAN /\ RuleColumns["rank"] = Nat
      /\ RuleColumns["sizes"] = SUBSET Sizes /\ RuleColumns["maxLoad"] = Nat
  BY DEF RuleColumns
<1>5. \A f \in DOMAIN row : f \in DOMAIN c => c[f] \in RuleColumns[f]
  BY <1>2 DEF Fit
<1> DEFINE new == With(row, c)
<1>6. /\ DOMAIN new = DOMAIN row
      /\ \A f \in DOMAIN row : new[f] = IF f \in DOMAIN c THEN c[f] ELSE row[f]
  BY DEF With
<1> HIDE DEF new
<1>7. /\ new["enabled"] \in BOOLEAN /\ new["rank"] \in Nat
      /\ new["sizes"] \in SUBSET Sizes /\ new["maxLoad"] \in Nat
  BY <1>1, <1>3, <1>4, <1>5, <1>6
<1>8. new = [enabled |-> new["enabled"], rank |-> new["rank"],
             sizes |-> new["sizes"], maxLoad |-> new["maxLoad"]]
  <2> USE DEF new
  <2> QED BY <1>1 DEF With
<1>9. new \in Rules
  BY <1>7, <1>8 DEF Rules
<1> QED BY <1>9 DEF new

-----------------------------------------------------------------------------
(* Each step keeps the rows' types.                                        *)

(* dispatch's insert, as the invariants need it. *)
LEMMA Inserted ==
  ASSUME TypeOK, NEW o \in Orders, NEW p \in Providers \cup {NoProvider}, InsertLeg(o, p)
  PROVE  /\ carrier' \in [Orders -> Providers \cup {NoProvider}]
         /\ legs' \in [Orders -> [Providers -> Nat]]
         /\ \A x \in Orders : carrier'[x] = IF x = o THEN p ELSE carrier[x]
         /\ \A x \in Orders : x # o => legs'[x] = legs[x]
         /\ p # NoProvider => legs'[o][p] > 0
         /\ p = NoProvider => legs' = legs
<1>1. /\ carrier' = [carrier EXCEPT ![o] = p]
      /\ carrier \in [Orders -> Providers \cup {NoProvider}]
      /\ legs \in [Orders -> [Providers -> Nat]]
  BY DEF InsertLeg, TypeOK
<1>2. CASE p = NoProvider
  BY <1>1, <1>2 DEF InsertLeg
<1>3. CASE p # NoProvider
  <2>1. p \in Providers /\ legs' = [legs EXCEPT ![o][p] = @ + 1]
    BY <1>3 DEF InsertLeg
  <2>2. legs[o] \in [Providers -> Nat] /\ legs[o][p] \in Nat
    BY <1>1, <2>1
  <2>3. legs' = [legs EXCEPT ![o] = [legs[o] EXCEPT ![p] = legs[o][p] + 1]]
    BY <2>1
  <2>4. legs'[o][p] = legs[o][p] + 1
    BY <1>1, <2>1, <2>3
  <2>5. [legs[o] EXCEPT ![p] = legs[o][p] + 1] \in [Providers -> Nat]
    BY <2>1, <2>2
  <2>6. legs' \in [Orders -> [Providers -> Nat]] /\ \A x \in Orders : x # o => legs'[x] = legs[x]
    BY <1>1, <2>3, <2>5
  <2>7. legs'[o][p] > 0
    BY <2>2, <2>4
  <2>8. carrier' \in [Orders -> Providers \cup {NoProvider}]
        /\ \A x \in Orders : carrier'[x] = IF x = o THEN p ELSE carrier[x]
    BY <1>1
  <2> QED BY <1>3, <2>6, <2>7, <2>8
<1> QED BY <1>2, <1>3

LEMMA TypeInit == Init => TypeOK
BY RoutingAssumption, RowsAssumption DEF Init, TypeOK

LEMMA TypeStep == TypeOK /\ [Next]_vars => TypeOK'
<1> SUFFICES ASSUME TypeOK, [Next]_vars PROVE TypeOK'
  OBVIOUS
<1> USE RoutingAssumption
<1>1. CASE UNCHANGED vars
  BY <1>1 DEF vars, TypeOK
<1>2. ASSUME NEW o \in Orders, QuoteVehicle(o) PROVE TypeOK'
  <2>1. vehicle' \in [Orders -> Vehicles \cup {NoVehicle}]
    BY <1>2 DEF QuoteVehicle, ChooseVehicleClass, TypeOK
  <2>2. edits \in 0 .. MaxEdits /\ carrier[o] = NoProvider
    BY <1>2 DEF QuoteVehicle, TypeOK
  <2> QED BY <1>2, <2>1, <2>2 DEF QuoteVehicle, tables, TypeOK
<1>3. ASSUME NEW o \in Orders, QuoteCourier(o) PROVE TypeOK'
  BY <1>3 DEF QuoteCourier, tables, TypeOK
<1>4. ASSUME NEW o \in Orders, NEW p \in Providers \cup {NoProvider}, InsertLeg(o, p),
             stage' = stage \/ stage' = [stage EXCEPT ![o] = "counter"]
                            \/ stage' = [stage EXCEPT ![o] = "gone"],
             stage'[o] \in {"counter", "gone"}, UNCHANGED <<tables, vehicle, since>>
      PROVE  TypeOK'
  <2>1. /\ carrier' \in [Orders -> Providers \cup {NoProvider}]
        /\ legs' \in [Orders -> [Providers -> Nat]]
        /\ \A x \in Orders : carrier'[x] = IF x = o THEN p ELSE carrier[x]
    BY <1>4, Inserted
  <2>2. stage' \in [Orders -> {"none", "quoted", "sold", "counter", "gone"}]
        /\ \A x \in Orders : x # o => stage'[x] = stage[x]
    BY <1>4 DEF TypeOK
  <2>3. \A x \in Orders : carrier'[x] # NoProvider => stage'[x] \in {"counter", "gone"}
    BY <1>4, <2>1, <2>2 DEF TypeOK
  <2> QED BY <1>4, <2>1, <2>2, <2>3 DEF tables, TypeOK
<1>5. ASSUME NEW o \in Orders, DropOff(o) \/ Refused(o) \/ ExpireUnassigned(o) PROVE TypeOK'
  <2> DEFINE p == ChooseProvider(o, vehicle[o], legs[o])
  <2>1. p \in Providers \cup {NoProvider}
    BY ChosenTakesIt
  <2>2. InsertLeg(o, p)
    BY <1>5 DEF DropOff, Refused, ExpireUnassigned, Dispatch
  <2>3. /\ stage' = stage \/ stage' = [stage EXCEPT ![o] = "counter"]
        /\ stage'[o] \in {"counter", "gone"} /\ UNCHANGED <<tables, vehicle, since>>
    BY <1>5 DEF DropOff, Refused, ExpireUnassigned, TypeOK
  <2> HIDE DEF p
  <2> QED BY <2>1, <2>2, <2>3, <1>4
<1>6. ASSUME NEW o \in Orders, FallbackToInHouse(o) PROVE TypeOK'
  BY <1>6, <1>4 DEF FallbackToInHouse
<1>7. ASSUME NEW o \in Orders, Claimed(o) PROVE TypeOK'
  <2>1. CASE carrier[o] = NoProvider
    <3>1. stage'[o] = "gone"
      BY <1>7 DEF Claimed, TypeOK
    <3> QED BY <1>7, <2>1, <3>1, <1>4 DEF Claimed
  <2>2. CASE carrier[o] # NoProvider
    BY <1>7, <2>2 DEF Claimed, tables, TypeOK
  <2> QED BY <2>1, <2>2
<1>8. ASSUME NEW a \in Admins, NEW e \in Edits, UpdateProviderCheck(a, e) PROVE TypeOK'
  BY <1>8 DEF UpdateProviderCheck, orderRows, TypeOK
<1>9. ASSUME NEW a \in Admins, UpdateProviderWrite(a) PROVE TypeOK'
  <2>1. PICK e \in pending[a] : settings' = [settings EXCEPT ![e.provider] = With(@, e.changes)]
    BY <1>9 DEF UpdateProviderWrite
  <2>2. e \in Edits /\ e.provider \in Providers /\ Fit(e.changes, SettingColumns)
    BY RowsAssumption DEF TypeOK
  <2>3. settings[e.provider] \in Settings
    BY <2>2 DEF TypeOK
  <2>4. With(settings[e.provider], e.changes) \in Settings
    BY <2>2, <2>3, EditedSettings
  <2>5. settings' \in [Providers -> Settings]
    BY <2>1, <2>2, <2>4 DEF TypeOK
  <2>6. pending' \in [Admins -> SUBSET Edits]
    BY <1>9 DEF UpdateProviderWrite, TypeOK
  <2> QED BY <1>9, <2>5, <2>6 DEF UpdateProviderWrite, orderRows, TypeOK
<1>10. ASSUME NEW e \in RuleEdits, UpdateVehicleRule(e) PROVE TypeOK'
  <2>1. e.vehicle \in Vehicles /\ Fit(e.changes, RuleColumns)
    BY RowsAssumption
  <2>2. With(rules[e.vehicle], e.changes) \in Rules
    BY <2>1, EditedRules DEF TypeOK
  <2>3. rules' \in [Vehicles -> Rules]
    BY <1>10, <2>1, <2>2 DEF UpdateVehicleRule, TypeOK
  <2> QED BY <1>10, <2>3 DEF UpdateVehicleRule, orderRows, TypeOK
<1> QED BY <1>1, <1>2, <1>3, <1>5, <1>6, <1>7, <1>8, <1>9, <1>10 DEF Next

-----------------------------------------------------------------------------
(* Whoever carries has the vehicle.                                        *)

Has(p, v) == p # NoProvider /\ v # NoVehicle => v \in Offers[p]

LEMMA ChosenHasIt ==
  ASSUME TypeOK, NEW o, NEW v, NEW had
  PROVE  Has(ChooseProvider(o, v, had), v)
BY ChosenTakesIt DEF Takes, Has

(* A leg for a courier that has the vehicle, of an order that was sold. *)
LEMMA LegWithVehicle ==
  ASSUME VehicleInv, TypeOK', NEW o \in Orders, NEW p \in Providers \cup {NoProvider},
         InsertLeg(o, p), Has(p, vehicle[o]), vehicle' = vehicle,
         stage[o] \in {"sold", "counter"}, \A x \in Orders : x # o => stage'[x] = stage[x]
  PROVE  VehicleInv'
<1>1. \A x \in Orders : carrier'[x] = IF x = o THEN p ELSE carrier[x]
  BY Inserted DEF VehicleInv, CarrierHasTheVehicle
<1>2. CarrierHasTheVehicle'
  BY <1>1 DEF VehicleInv, CarrierHasTheVehicle, Has
<1>3. SoldFitsThePool'
  BY DEF VehicleInv, SoldFitsThePool
<1> QED BY <1>2, <1>3 DEF VehicleInv

(* "Locoomo riders take every parcel": forcedChoice need not ask. *)
LEMMA PoolHasIt ==
  ASSUME VehicleInv, NEW o \in Orders, stage[o] \in {"sold", "counter", "gone"}
  PROVE  Has(InHouse, vehicle[o]) /\ InHouse \in Providers
BY RoutingAssumption DEF VehicleInv, SoldFitsThePool, Has

LEMMA VehicleStep == VehicleInv /\ [Next]_vars => VehicleInv'
<1> SUFFICES ASSUME VehicleInv, [Next]_vars PROVE VehicleInv'
  OBVIOUS
<1>0. TypeOK /\ TypeOK'
  BY TypeStep DEF VehicleInv, CarrierHasTheVehicle
<1>1. CASE UNCHANGED orderRows
  BY <1>0, <1>1 DEF orderRows, VehicleInv, CarrierHasTheVehicle, SoldFitsThePool
<1>2. ASSUME NEW o \in Orders, QuoteVehicle(o) PROVE VehicleInv'
  <2>1. /\ carrier[o] = NoProvider /\ carrier' = carrier /\ stage'[o] = "quoted"
        /\ \A x \in Orders : x # o => stage'[x] = stage[x] /\ vehicle'[x] = vehicle[x]
    BY <1>0, <1>2 DEF QuoteVehicle, TypeOK
  <2> QED BY <1>0, <2>1 DEF VehicleInv, CarrierHasTheVehicle, SoldFitsThePool
<1>3. ASSUME NEW o \in Orders, QuoteCourier(o) PROVE VehicleInv'
  <2>1. /\ carrier' = carrier /\ vehicle' = vehicle
        /\ \A x \in Orders : x # o => stage'[x] = stage[x]
        /\ stage'[o] = IF CanServe(o, vehicle[o]) THEN "sold" ELSE "none"
    BY <1>0, <1>3 DEF QuoteCourier, TypeOK
  <2>2. CanServe(o, vehicle[o]) /\ vehicle[o] # NoVehicle => vehicle[o] \in Offers[InHouse]
    <3> DEFINE p == ChooseProvider(o, vehicle[o], [q \in Providers |-> 0])
    <3>1. p # NoProvider => p \in Providers /\ Takes(p, o, vehicle[o])
      BY <1>0, ChosenTakesIt
    <3>2. CanServe(o, vehicle[o]) => p # NoProvider
      BY DEF CanServe
    <3> HIDE DEF p
    <3> QED BY <3>1, <3>2, PoolOffersAll DEF Takes
  <2> QED BY <1>0, <2>1, <2>2 DEF VehicleInv, CarrierHasTheVehicle, SoldFitsThePool
<1>4. ASSUME NEW o \in Orders, DropOff(o) \/ Refused(o) \/ ExpireUnassigned(o) PROVE VehicleInv'
  <2> DEFINE p == ChooseProvider(o, vehicle[o], legs[o])
  <2>1. p \in Providers \cup {NoProvider} /\ Has(p, vehicle[o])
    BY <1>0, ChosenTakesIt, ChosenHasIt
  <2>2. InsertLeg(o, p) /\ vehicle' = vehicle
    BY <1>4 DEF DropOff, Refused, ExpireUnassigned, Dispatch
  <2>3. stage[o] \in {"sold", "counter"} /\ \A x \in Orders : x # o => stage'[x] = stage[x]
    BY <1>0, <1>4 DEF DropOff, Refused, ExpireUnassigned, TypeOK
  <2> HIDE DEF p
  <2> QED BY <1>0, <2>1, <2>2, <2>3, LegWithVehicle
<1>5. ASSUME NEW o \in Orders, FallbackToInHouse(o) PROVE VehicleInv'
  BY <1>0, <1>5, PoolHasIt, LegWithVehicle DEF FallbackToInHouse
<1>6. ASSUME NEW o \in Orders, Claimed(o) PROVE VehicleInv'
  <2>1. /\ stage[o] = "counter" /\ vehicle' = vehicle
        /\ \A x \in Orders : x # o => stage'[x] = stage[x]
    BY <1>0, <1>6 DEF Claimed, TypeOK
  <2>2. CASE carrier[o] = NoProvider
    BY <1>0, <1>6, <2>1, <2>2, PoolHasIt, LegWithVehicle DEF Claimed
  <2>3. CASE carrier[o] # NoProvider
    <3>1. carrier' = carrier
      BY <1>6, <2>3 DEF Claimed
    <3> QED BY <1>0, <2>1, <3>1 DEF VehicleInv, CarrierHasTheVehicle, SoldFitsThePool
  <2> QED BY <2>2, <2>3
<1>7. ASSUME NEW a \in Admins, NEW e \in Edits, UpdateProviderCheck(a, e) PROVE VehicleInv'
  BY <1>1, <1>7 DEF UpdateProviderCheck
<1>8. ASSUME NEW a \in Admins, UpdateProviderWrite(a) PROVE VehicleInv'
  BY <1>1, <1>8 DEF UpdateProviderWrite
<1>9. ASSUME NEW e \in RuleEdits, UpdateVehicleRule(e) PROVE VehicleInv'
  BY <1>1, <1>9 DEF UpdateVehicleRule
<1>10. CASE UNCHANGED vars
  BY <1>1, <1>10 DEF vars, orderRows
<1> QED BY <1>2, <1>3, <1>4, <1>5, <1>6, <1>7, <1>8, <1>9, <1>10 DEF Next

(* Through refusals, timeouts, edits and an Admin's fallback, whoever has  *)
(* the parcel offers the class of vehicle it was sold with                 *)
(* (chooseProvider, forcedChoice).                                         *)
THEOREM CarriersHaveTheVehicle == Spec => []CarrierHasTheVehicle
<1>1. Init => VehicleInv
  BY TypeInit DEF Init, VehicleInv, CarrierHasTheVehicle, SoldFitsThePool
<1>2. VehicleInv => CarrierHasTheVehicle
  BY DEF VehicleInv
<1> QED BY <1>1, <1>2, VehicleStep, PTL DEF Spec

-----------------------------------------------------------------------------
(* Who waits has been tried.                                               *)

(* An edit makes every quote an old one. *)
LEMMA EditedTried ==
  ASSUME TriedInv, TypeOK', edits' = edits + 1, UNCHANGED orderRows
  PROVE  TriedInv'
<1>1. \A o \in Orders : since[o] <= edits /\ since[o] \in Nat /\ edits \in Nat
  BY RoutingAssumption DEF TriedInv, QuotesArePast, TypeOK
<1>2. QuotesArePast' /\ \A o \in Orders : ~Unedited(o)'
  BY <1>1 DEF orderRows, QuotesArePast, Unedited
<1>3. LegsCounted'
  BY DEF TriedInv, LegsCounted, orderRows
<1>4. SoldCanBeServed' /\ WaitsOnlyWhenTried'
  BY <1>2 DEF SoldCanBeServed, WaitsOnlyWhenTried
<1> QED BY <1>2, <1>3, <1>4 DEF TriedInv

(* What is true of an order that waits. *)
Tried(o) ==
  /\ \E p \in Providers : legs[o][p] > 0
  /\ \A p \in Providers : Takes(p, o, vehicle[o]) => legs[o][p] >= settings[p].maxAttempts

(* dispatch of an order that has had a courier: nobody is left only when   *)
(* all are used up.                                                        *)
LEMMA NobodyLeft ==
  ASSUME TypeOK, NEW o \in Orders, ChooseProvider(o, vehicle[o], legs[o]) = NoProvider
  PROVE  \A p \in Providers : Takes(p, o, vehicle[o]) => legs[o][p] >= settings[p].maxAttempts
<1>1. Candidates(o, vehicle[o], legs[o]) = {}
  BY ChosenTakesIt
<1>2. \A p \in Providers : legs[o][p] \in Nat /\ settings[p].maxAttempts \in Nat
  BY DEF TypeOK, Settings
<1> QED BY <1>1, <1>2 DEF Candidates

(* A step of one order that leaves the tables alone: what it must show. *)
OrderStep(o) ==
  /\ UNCHANGED tables
  /\ \A x \in Orders : x # o =>
       /\ stage'[x] = stage[x] /\ carrier'[x] = carrier[x] /\ legs'[x] = legs[x]
       /\ vehicle'[x] = vehicle[x] /\ since'[x] = since[x]
  /\ since'[o] <= edits
  /\ stage'[o] \in {"none", "quoted", "sold"} => legs'[o] = [p \in Providers |-> 0]
  /\ carrier'[o] # NoProvider => legs'[o][carrier'[o]] > 0
  /\ stage'[o] = "sold" /\ since'[o] = edits /\ o \notin Earlier => CanServe(o, vehicle'[o])
  /\ stage'[o] = "counter" /\ carrier'[o] = NoProvider /\ since'[o] = edits /\ o \notin Earlier
       => Tried(o)'

LEMMA OrderTried ==
  ASSUME TriedInv, TypeOK', NEW o \in Orders, OrderStep(o)
  PROVE  TriedInv'
<1>1. settings' = settings /\ edits' = edits
  BY DEF OrderStep, tables
<1>2. \A x \in Orders : x # o =>
        /\ stage'[x] = stage[x] /\ carrier'[x] = carrier[x] /\ legs'[x] = legs[x]
        /\ vehicle'[x] = vehicle[x] /\ since'[x] = since[x]
  BY DEF OrderStep
<1>3. QuotesArePast'
  BY <1>1, <1>2 DEF TriedInv, QuotesArePast, OrderStep
<1>4. LegsCounted'
  BY <1>2 DEF TriedInv, LegsCounted, OrderStep
<1>5. \A p, x, v : Takes(p, x, v)' <=> Takes(p, x, v')
  BY <1>1 DEF Takes
<1>6. \A x, v : CanServe(x, v)' <=> CanServe(x, v')
  BY <1>1 DEF CanServe, ChooseProvider, FirstOf, Before, Takes
<1>7. SoldCanBeServed'
  BY <1>1, <1>2, <1>6 DEF TriedInv, SoldCanBeServed, Unedited, OrderStep
<1>8. WaitsOnlyWhenTried'
  BY <1>1, <1>2, <1>5 DEF TriedInv, WaitsOnlyWhenTried, Tried, Unedited, OrderStep
<1> QED BY <1>3, <1>4, <1>7, <1>8 DEF TriedInv

(* A check that comes to nothing yet. *)
LEMMA UnchangedTried ==
  ASSUME TriedInv, TypeOK', UNCHANGED <<orderRows, settings, edits>>
  PROVE  TriedInv'
<1>1. UNCHANGED <<stage, vehicle, legs, carrier, since, settings, edits>>
  BY DEF orderRows
<1>2. \A p, x, v : Takes(p, x, v)' <=> Takes(p, x, v')
  BY <1>1 DEF Takes
<1>3. \A x, v : CanServe(x, v)' <=> CanServe(x, v')
  BY <1>1 DEF CanServe, ChooseProvider, FirstOf, Before, Takes
<1>4. LegsCounted' /\ QuotesArePast'
  BY <1>1 DEF TriedInv, LegsCounted, QuotesArePast
<1>5. SoldCanBeServed'
  BY <1>1, <1>3 DEF TriedInv, SoldCanBeServed, Unedited
<1>6. WaitsOnlyWhenTried'
  BY <1>1, <1>2 DEF TriedInv, WaitsOnlyWhenTried, Unedited
<1> QED BY <1>4, <1>5, <1>6 DEF TriedInv

(* A courier or nobody for an order: nobody only if it was tried. *)
LEMMA LegTried ==
  ASSUME TriedInv, TypeOK', NEW o \in Orders, NEW p \in Providers \cup {NoProvider},
         InsertLeg(o, p), UNCHANGED <<tables, vehicle, since>>, stage'[o] \in {"counter", "gone"},
         \A x \in Orders : x # o => stage'[x] = stage[x],
         p = NoProvider /\ since[o] = edits /\ o \notin Earlier => Tried(o)
  PROVE  TriedInv'
<1>1. /\ \A x \in Orders : carrier'[x] = IF x = o THEN p ELSE carrier[x]
      /\ \A x \in Orders : x # o => legs'[x] = legs[x]
      /\ p # NoProvider => legs'[o][p] > 0
      /\ p = NoProvider => legs' = legs
  BY Inserted DEF TriedInv
<1>2. p = NoProvider /\ since[o] = edits /\ o \notin Earlier => Tried(o)'
  BY <1>1 DEF Tried, Takes, tables
<1>3. OrderStep(o)
  BY <1>1, <1>2 DEF OrderStep, TriedInv, QuotesArePast
<1> QED BY <1>3, OrderTried

LEMMA TriedStep == TriedInv /\ [Next]_vars => TriedInv'
<1> SUFFICES ASSUME TriedInv, [Next]_vars PROVE TriedInv'
  OBVIOUS
<1>0. TypeOK /\ TypeOK'
  BY TypeStep DEF TriedInv
<1>1. CASE UNCHANGED vars
  BY <1>0, <1>1, UnchangedTried DEF vars, orderRows
<1>2. ASSUME NEW o \in Orders, QuoteVehicle(o) PROVE TriedInv'
  <2>1. /\ carrier[o] = NoProvider /\ carrier' = carrier /\ legs' = legs /\ UNCHANGED tables
        /\ stage[o] = "none" /\ stage'[o] = "quoted" /\ since'[o] = edits /\ edits <= edits
        /\ \A x \in Orders : x # o =>
             stage'[x] = stage[x] /\ vehicle'[x] = vehicle[x] /\ since'[x] = since[x]
    BY <1>0, <1>2, RoutingAssumption DEF QuoteVehicle, TypeOK
  <2>2. OrderStep(o)
    BY <2>1 DEF OrderStep, TriedInv, LegsCounted
  <2> QED BY <1>0, <2>2, OrderTried
<1>3. ASSUME NEW o \in Orders, QuoteCourier(o) PROVE TriedInv'
  <2>1. /\ UNCHANGED <<carrier, legs, vehicle, since, tables>>
        /\ stage[o] = "quoted" /\ \A x \in Orders : x # o => stage'[x] = stage[x]
        /\ stage'[o] = IF CanServe(o, vehicle[o]) THEN "sold" ELSE "none"
    BY <1>0, <1>3 DEF QuoteCourier, TypeOK
  <2>2. OrderStep(o)
    BY <2>1 DEF OrderStep, TriedInv, LegsCounted, QuotesArePast
  <2> QED BY <1>0, <2>2, OrderTried
<1>4. ASSUME NEW o \in Orders, DropOff(o) PROVE TriedInv'
  <2> DEFINE p == ChooseProvider(o, vehicle[o], legs[o])
  <2>1. p \in Providers \cup {NoProvider}
    BY <1>0, ChosenTakesIt
  <2>2. InsertLeg(o, p) /\ UNCHANGED <<tables, vehicle, since>>
    BY <1>4 DEF DropOff, Dispatch
  <2>3. /\ stage[o] = "sold" /\ stage'[o] = "counter"
        /\ \A x \in Orders : x # o => stage'[x] = stage[x]
    BY <1>0, <1>4 DEF DropOff, TypeOK
  <2>4. since[o] = edits /\ o \notin Earlier => p # NoProvider
    <3>1. legs[o] = [q \in Providers |-> 0]
      BY <2>3 DEF TriedInv, LegsCounted
    <3>2. since[o] = edits /\ o \notin Earlier => CanServe(o, vehicle[o])
      BY <2>3 DEF TriedInv, SoldCanBeServed, Unedited
    <3> QED BY <3>1, <3>2 DEF CanServe
  <2> HIDE DEF p
  <2> QED BY <1>0, <2>1, <2>2, <2>3, <2>4, LegTried
<1>5. ASSUME NEW o \in Orders, Refused(o) \/ ExpireUnassigned(o) PROVE TriedInv'
  <2> DEFINE p == ChooseProvider(o, vehicle[o], legs[o])
  <2>1. p \in Providers \cup {NoProvider}
    BY <1>0, ChosenTakesIt
  <2>2. InsertLeg(o, p) /\ UNCHANGED <<tables, vehicle, since>>
    BY <1>5 DEF Refused, ExpireUnassigned, Dispatch
  <2>3. stage'[o] = "counter" /\ carrier[o] # NoProvider
        /\ \A x \in Orders : x # o => stage'[x] = stage[x]
    BY <1>5 DEF Refused, ExpireUnassigned
  <2>4. p = NoProvider => Tried(o)
    <3>1. carrier[o] \in Providers /\ legs[o][carrier[o]] > 0
      BY <1>0, <2>3 DEF TriedInv, LegsCounted, TypeOK
    <3>2. p = NoProvider =>
            \A q \in Providers : Takes(q, o, vehicle[o]) => legs[o][q] >= settings[q].maxAttempts
      BY <1>0, NobodyLeft
    <3> HIDE DEF p
    <3> QED BY <3>1, <3>2 DEF Tried
  <2> HIDE DEF p
  <2> QED BY <1>0, <2>1, <2>2, <2>3, <2>4, LegTried
<1>6. ASSUME NEW o \in Orders, FallbackToInHouse(o) PROVE TriedInv'
  <2>1. InHouse \in Providers /\ InHouse # NoProvider
    BY RoutingAssumption
  <2> QED BY <1>0, <1>6, <2>1, LegTried DEF FallbackToInHouse
<1>7. ASSUME NEW o \in Orders, Claimed(o) PROVE TriedInv'
  <2>1. /\ stage'[o] = "gone" /\ UNCHANGED <<tables, vehicle, since>>
        /\ \A x \in Orders : x # o => stage'[x] = stage[x]
    BY <1>0, <1>7 DEF Claimed, TypeOK
  <2>2. InHouse \in Providers /\ InHouse # NoProvider
    BY RoutingAssumption
  <2>3. CASE carrier[o] = NoProvider
    BY <1>0, <1>7, <2>1, <2>2, <2>3, LegTried DEF Claimed
  <2>4. CASE carrier[o] # NoProvider
    <3>1. UNCHANGED <<legs, carrier>>
      BY <1>7, <2>4 DEF Claimed
    <3>2. OrderStep(o)
      BY <2>1, <2>4, <3>1 DEF OrderStep, TriedInv, LegsCounted, QuotesArePast
    <3> QED BY <1>0, <3>2, OrderTried
  <2> QED BY <2>3, <2>4
<1>8. ASSUME NEW a \in Admins, NEW e \in Edits, UpdateProviderCheck(a, e) PROVE TriedInv'
  <2>1. UNCHANGED <<orderRows, settings, edits>>
    BY <1>8 DEF UpdateProviderCheck
  <2> QED BY <1>0, <2>1, UnchangedTried
<1>9. ASSUME NEW a \in Admins, UpdateProviderWrite(a) PROVE TriedInv'
  BY <1>0, <1>9, EditedTried DEF UpdateProviderWrite
<1>10. ASSUME NEW e \in RuleEdits, UpdateVehicleRule(e) PROVE TriedInv'
  BY <1>0, <1>10, EditedTried DEF UpdateVehicleRule
<1> QED BY <1>1, <1>2, <1>3, <1>4, <1>5, <1>6, <1>7, <1>8, <1>9, <1>10 DEF Next

(* What checkout sells, dispatch delivers: for any orders, couriers and    *)
(* settings, an order that no Admin edited under waits at the counter only *)
(* when every courier that takes it has used up its attempts               *)
(* (chooseProvider, canServe, dispatch).                                   *)
THEOREM WaitingMeansTried == Spec => []WaitsOnlyWhenTried
<1>1. Init => TriedInv
  <2> SUFFICES ASSUME Init PROVE TriedInv
    OBVIOUS
  <2>1. /\ \A o \in Orders : stage[o] \in {"none", "sold"} /\ (o \notin Earlier => stage[o] = "none")
        /\ \A o \in Orders : carrier[o] = NoProvider /\ legs[o] = [p \in Providers |-> 0]
        /\ \A o \in Orders : since[o] <= edits
    BY DEF Init
  <2> QED BY <2>1, TypeInit DEF TriedInv, LegsCounted, QuotesArePast, SoldCanBeServed, WaitsOnlyWhenTried
<1>2. TriedInv => WaitsOnlyWhenTried
  BY DEF TriedInv
<1> QED BY <1>1, <1>2, TriedStep, PTL DEF Spec
==============================================================================
