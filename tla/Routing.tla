------------------------------- MODULE Routing -------------------------------
(***************************************************************************)
(* Who carries a parcel, and in what (logistics, payments): checkout picks *)
(* the vehicle from the vehicle rules and asks whether any courier would   *)
(* take it; from the drop-off on, each time an order is without a courier, *)
(* dispatch asks the same policy again, with the attempts so far.  Admins  *)
(* edit both tables while orders are under way.                            *)
(*                                                                         *)
(* A parcel is a size and a load (its weight and its longest side, which   *)
(* the rules limit alike).  Money is left out.                             *)
(***************************************************************************)
EXTENDS Integers, FiniteSets

CONSTANTS
  Orders, Admins, Providers, Vehicles, Nodes,
  InHouse,     \* the pool of Locoomo riders
  Registered,  \* the providers whose adapter runs in this process
  Offers,      \* the vehicle classes each adapter offers
  KeyOrder,    \* how provider keys sort
  Parcels,     \* what may be sent: [size, load]
  Parcel,      \* each order's parcel
  Origin, Km,  \* each order's origin Node and straight-line distance
  Earlier,     \* orders from before vehicle selection
  FirstSettings, FirstRules,  \* the rows of both tables at the start
  Edits,       \* what Admins send: [provider, changes], changes a partial row
  RuleEdits,   \* [vehicle, changes]
  MaxEdits,    \* bound: edits applied
  NoVehicle, NoProvider, NoLimit

ASSUME RoutingAssumption ==
  /\ InHouse \in Registered /\ Registered \subseteq Providers
  /\ NoProvider \notin Providers /\ NoVehicle \notin Vehicles /\ NoLimit \notin Int
  /\ Offers \in [Providers -> SUBSET Vehicles]
  /\ KeyOrder \in [Providers -> Nat]
  /\ \A p, q \in Providers : KeyOrder[p] = KeyOrder[q] => p = q
  /\ MaxEdits \in Nat /\ Earlier \subseteq Orders /\ Parcel \in [Orders -> Parcels]

(* "Locoomo riders take every parcel today, cars included": the pool's     *)
(* adapter offers whatever another one does.                               *)
ASSUME PoolOffersAll == \A p \in Providers : Offers[p] \subseteq Offers[InHouse]

(* The rows of both tables, and what an edit may carry: any columns.       *)
Limits == Int \cup {NoLimit}
SettingColumns ==
  [enabled |-> BOOLEAN, priority |-> Nat, maxAttempts |-> Nat, minKm |-> Limits, maxKm |-> Limits,
   pilots |-> SUBSET Nodes, timed |-> BOOLEAN]
Settings ==
  [enabled : BOOLEAN, priority : Nat, maxAttempts : Nat, minKm : Limits, maxKm : Limits,
   pilots : SUBSET Nodes, timed : BOOLEAN]
Sizes == { x.size : x \in Parcels }
RuleColumns == [enabled |-> BOOLEAN, rank |-> Nat, sizes |-> SUBSET Sizes, maxLoad |-> Nat]
Rules == [enabled : BOOLEAN, rank : Nat, sizes : SUBSET Sizes, maxLoad : Nat]
Fit(changes, columns) == \A f \in DOMAIN changes \cap DOMAIN columns : changes[f] \in columns[f]

ASSUME RowsAssumption ==
  /\ FirstSettings \in [Providers -> Settings] /\ FirstRules \in [Vehicles -> Rules]
  /\ \A e \in Edits : e.provider \in Providers /\ Fit(e.changes, SettingColumns)
  /\ \A e \in RuleEdits : e.vehicle \in Vehicles /\ Fit(e.changes, RuleColumns)

VARIABLES
  settings,  \* logistics_providers
  rules,     \* vehicle_class_rules
  stage,     \* none, quoted, sold, counter or gone
  vehicle,   \* orders.vehicleClass
  legs,      \* legs[o][p]: how many the order has had with p
  carrier,   \* the provider of the active leg
  pending,   \* an Admin's edit that has been checked and not yet written
  edits,     \* how many edits have been applied
  since      \* and how many of them when the order was quoted
vars == <<settings, rules, stage, vehicle, legs, carrier, pending, edits, since>>
tables == <<settings, rules, pending, edits>>
orderRows == <<stage, vehicle, legs, carrier, since>>

-----------------------------------------------------------------------------
(* The vehicle. *)

Fits(v, parcel) ==
  rules[v].enabled /\ parcel.size \in rules[v].sizes /\ parcel.load <= rules[v].maxLoad

(* The lowest rank wins; two classes of one rank come as the query returns *)
(* them, in no order.                                                      *)
ChooseVehicleClass(parcel) ==
  { v \in Vehicles :
      Fits(v, parcel) /\ \A w \in Vehicles : Fits(w, parcel) => rules[v].rank <= rules[w].rank }

-----------------------------------------------------------------------------
(* The courier. *)

AtLeast(km, limit) == limit = NoLimit \/ km >= limit
AtMost(km, limit) == limit = NoLimit \/ km <= limit

(* Mutant: the vehicle is nobody's business. *)
TakesAnyVehicle(p, o, v) ==
  /\ settings[p].enabled /\ p \in Registered
  /\ settings[p].pilots = {} \/ Origin[o] \in settings[p].pilots
  /\ AtLeast(Km[o], settings[p].minKm) /\ AtMost(Km[o], settings[p].maxKm)

(* What chooseProvider asks of a provider apart from its attempts. *)
Takes(p, o, v) ==
  /\ settings[p].enabled /\ p \in Registered
  /\ settings[p].pilots = {} \/ Origin[o] \in settings[p].pilots
  /\ v = NoVehicle \/ v \in Offers[p]
  /\ AtLeast(Km[o], settings[p].minKm) /\ AtMost(Km[o], settings[p].maxKm)

Before(p, q) ==
  \/ settings[p].priority < settings[q].priority
  \/ settings[p].priority = settings[q].priority /\ KeyOrder[p] < KeyOrder[q]

FirstOf(candidates) ==
  IF candidates = {} THEN NoProvider
  ELSE CHOOSE p \in candidates : \A q \in candidates \ {p} : Before(p, q)

ChooseProvider(o, v, had) ==
  FirstOf({ p \in Providers : Takes(p, o, v) /\ had[p] < settings[p].maxAttempts })

CanServe(o, v) == ChooseProvider(o, v, [p \in Providers |-> 0]) # NoProvider

-----------------------------------------------------------------------------

Init ==
  /\ settings = FirstSettings /\ rules = FirstRules
  /\ stage = [o \in Orders |-> IF o \in Earlier THEN "sold" ELSE "none"]
  /\ vehicle = [o \in Orders |-> NoVehicle]
  /\ legs = [o \in Orders |-> [p \in Providers |-> 0]]
  /\ carrier = [o \in Orders |-> NoProvider]
  /\ pending = [a \in Admins |-> {}]
  /\ edits = 0 /\ since = [o \in Orders |-> 0]

(* Checkout reads the rules, and only then, after other queries, the       *)
(* couriers' settings.                                                     *)
QuoteVehicle(o) ==
  /\ stage[o] = "none"
  /\ \E v \in ChooseVehicleClass(Parcel[o]) :
       vehicle' = [vehicle EXCEPT ![o] = v]
  /\ stage' = [stage EXCEPT ![o] = "quoted"]
  /\ since' = [since EXCEPT ![o] = edits]
  /\ UNCHANGED <<tables, legs, carrier>>

(* dispatch's insert of a leg with the provider chosen, if there is one. *)
InsertLeg(o, p) ==
  /\ carrier' = [carrier EXCEPT ![o] = p]
  /\ legs' = IF p = NoProvider THEN legs ELSE [legs EXCEPT ![o][p] = @ + 1]

Dispatch(o) == InsertLeg(o, ChooseProvider(o, vehicle[o], legs[o]))

(* The rest of the quote; the payment is taken to succeed. *)
QuoteCourier(o) ==
  /\ stage[o] = "quoted"
  /\ stage' = [stage EXCEPT ![o] = IF CanServe(o, vehicle[o]) THEN "sold" ELSE "none"]
  /\ UNCHANGED <<tables, vehicle, legs, carrier, since>>

DropOff(o) ==
  /\ stage[o] = "sold"
  /\ stage' = [stage EXCEPT ![o] = "counter"]
  /\ Dispatch(o)
  /\ UNCHANGED <<tables, vehicle, since>>

(* Mutant: a refused order waits for an Admin. *)
RefusedAndLeft(o) ==
  /\ stage[o] = "counter" /\ carrier[o] \notin {NoProvider, InHouse}
  /\ InsertLeg(o, NoProvider)
  /\ UNCHANGED <<tables, stage, vehicle, since>>

(* The courier refuses the submission, or cancels the job before pickup. *)
Refused(o) ==
  /\ stage[o] = "counter" /\ carrier[o] \notin {NoProvider, InHouse}
  /\ Dispatch(o)
  /\ UNCHANGED <<tables, stage, vehicle, since>>

(* The reconciler's expireUnassigned; the pool may be given a timeout too. *)
ExpireUnassigned(o) ==
  /\ stage[o] = "counter" /\ carrier[o] # NoProvider
  /\ settings[carrier[o]].timed
  /\ Dispatch(o)
  /\ UNCHANGED <<tables, stage, vehicle, since>>

(* An Admin's fallback sends the order to the pool without asking whether  *)
(* it may have it (forcedChoice).                                          *)
FallbackToInHouse(o) ==
  /\ stage[o] = "counter" /\ carrier[o] \notin {NoProvider, InHouse}
  /\ InsertLeg(o, InHouse)
  /\ UNCHANGED <<tables, stage, vehicle, since>>

(* A courier takes the job.  A waiting order, too, is in the riders' list: *)
(* who claims it makes its in-house leg.                                   *)
Claimed(o) ==
  /\ stage[o] = "counter"
  /\ stage' = [stage EXCEPT ![o] = "gone"]
  /\ IF carrier[o] = NoProvider THEN InsertLeg(o, InHouse) ELSE UNCHANGED <<legs, carrier>>
  /\ UNCHANGED <<tables, vehicle, since>>

-----------------------------------------------------------------------------
(* Admins.  An edit names some columns; the others keep what they hold     *)
(* when it is written.                                                     *)

With(row, changes) ==
  [f \in DOMAIN row |-> IF f \in DOMAIN changes THEN changes[f] ELSE row[f]]

InOrder(row) == NoLimit \notin {row.minKm, row.maxKm} => row.minKm <= row.maxKm

UpdateProviderCheck(a, e) ==
  /\ pending[a] = {} /\ edits < MaxEdits
  /\ ~(e.provider = InHouse /\ "enabled" \in DOMAIN e.changes /\ ~e.changes.enabled)
  /\ InOrder(With(settings[e.provider], e.changes))
  /\ pending' = [pending EXCEPT ![a] = {e}]
  /\ UNCHANGED <<settings, rules, edits, orderRows>>

UpdateProviderWrite(a) ==
  /\ edits < MaxEdits
  /\ \E e \in pending[a] :
       settings' = [settings EXCEPT ![e.provider] = With(@, e.changes)]
  /\ pending' = [pending EXCEPT ![a] = {}]
  /\ edits' = edits + 1
  /\ UNCHANGED <<rules, orderRows>>

UpdateVehicleRule(e) ==
  /\ edits < MaxEdits
  /\ rules' = [rules EXCEPT ![e.vehicle] = With(@, e.changes)]
  /\ edits' = edits + 1
  /\ UNCHANGED <<settings, pending, orderRows>>

Next ==
  \/ \E o \in Orders :
       \/ QuoteVehicle(o) \/ QuoteCourier(o) \/ DropOff(o)
       \/ Refused(o) \/ ExpireUnassigned(o) \/ FallbackToInHouse(o) \/ Claimed(o)
  \/ \E a \in Admins : (\E e \in Edits : UpdateProviderCheck(a, e)) \/ UpdateProviderWrite(a)
  \/ \E e \in RuleEdits : UpdateVehicleRule(e)

Spec == Init /\ [][Next]_vars

-----------------------------------------------------------------------------
(* What must hold. *)

(* Rows hold what their columns can; only an order on the counter or gone  *)
(* has a courier (logistics_providers, vehicle_class_rules, orders).       *)
TypeOK ==
  /\ settings \in [Providers -> Settings] /\ rules \in [Vehicles -> Rules]
  /\ stage \in [Orders -> {"none", "quoted", "sold", "counter", "gone"}]
  /\ vehicle \in [Orders -> Vehicles \cup {NoVehicle}]
  /\ legs \in [Orders -> [Providers -> Nat]]
  /\ carrier \in [Orders -> Providers \cup {NoProvider}]
  /\ pending \in [Admins -> SUBSET Edits]
  /\ edits \in 0 .. MaxEdits /\ since \in [Orders -> 0 .. MaxEdits]
  /\ \A o \in Orders : carrier[o] # NoProvider => stage[o] \in {"counter", "gone"}

Unedited(o) == stage[o] # "none" /\ since[o] = edits

(* What checkout sells, dispatch delivers: unless an Admin has changed the *)
(* tables since the quote, a parcel waits at the counter without a courier *)
(* only when some courier has had it and each that takes such parcels has  *)
(* used up its attempts (chooseProvider, canServe, dispatch).              *)
WaitsOnlyWhenTried ==
  \A o \in Orders \ Earlier :
    stage[o] = "counter" /\ carrier[o] = NoProvider /\ Unedited(o) =>
      /\ \E p \in Providers : legs[o][p] > 0
      /\ \A p \in Providers : Takes(p, o, vehicle[o]) => legs[o][p] >= settings[p].maxAttempts

(* Whoever has the parcel has a vehicle of the class it was sold with,     *)
(* through refusals, timeouts, edits and an Admin's fallback, which does   *)
(* not ask (chooseProvider, forcedChoice).                                 *)
CarrierHasTheVehicle ==
  TypeOK /\ \A o \in Orders :
    carrier[o] # NoProvider /\ vehicle[o] # NoVehicle => vehicle[o] \in Offers[carrier[o]]
==============================================================================
