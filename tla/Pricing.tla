------------------------------- MODULE Pricing -------------------------------
(***************************************************************************)
(* What a delivery costs (payments/domain/vehicle-pricing.ts,              *)
(* pricing.service.ts).  Amounts are kobo.  Lengths are whole: a straight  *)
(* line and a measured road in metres, a priced distance in centimetres    *)
(* (metres times the factor in hundredths), so that every product below is *)
(* exact where the code's floating point is off by at most its last bit.   *)
(***************************************************************************)
EXTENDS Integers

NotMeasured == -1

(* Math.round(n / d): to the nearest, halves up. *)
Round(n, d) == (2 * n + d) \div (2 * d)

(* VEHICLE_RATE_MULTIPLIERS, in tenths. *)
Multiplier == [bicycle |-> 7, motorbike |-> 10, car |-> 24, van |-> 50, truck |-> 80]

(* The classes an Admin may give a rate of their own. *)
PricedVehicleClasses == {"bicycle", "car", "van", "truck"}

VehicleRates == [base : Nat, perKm : Nat]

(* What an Admin may create; the motorbike's rate is the rule's own. *)
IsPricingRule(rule) ==
  /\ {rule.base, rule.perKm, rule.destinationFee} \subseteq Nat
  /\ rule.factor \in 100 .. 300
  /\ DOMAIN rule.rates \subseteq PricedVehicleClasses
  /\ \A v \in DOMAIN rule.rates : rule.rates[v] \in VehicleRates

(* create: rules are only ever added, and hold from that moment on. *)
WithRule(rules, rule, now) == rules \cup {[rule |-> rule, effectiveFrom |-> now]}

(* getCurrentRule: the latest in force; of two of one instant, either. *)
CurrentRules(rules, now) ==
  { r \in rules :
      /\ r.effectiveFrom <= now
      /\ \A q \in rules : q.effectiveFrom <= now => q.effectiveFrom <= r.effectiveFrom }

RateFor(rule, vehicle) ==
  IF vehicle \in DOMAIN rule.rates THEN rule.rates[vehicle]
  ELSE [base  |-> Round(rule.base * Multiplier[vehicle], 10),
        perKm |-> Round(rule.perKm * Multiplier[vehicle], 10)]

DeliveryFee(rate, distance) == rate.base + Round(rate.perKm * distance, 100000)

(* A courier's measurement of the road wins over the straight line. *)
Distance(rule, straight, road) ==
  IF road # NotMeasured THEN road * 100 ELSE straight * rule.factor

(* estimateDeliveryMinutes of the shown distance, which is rounded to ten  *)
(* metres: 15 minutes and 18 km/h, in steps of 5.                          *)
DeliveryMinutes(shown) == 5 * ((450 + shown + 149) \div 150)

(* calculateFee. *)
FeeBreakdown(rule, vehicle, straight, road) ==
  LET rate == RateFor(rule, vehicle)
      distance == Distance(rule, straight, road)
      fee == DeliveryFee(rate, distance)
  IN  [vehicle        |-> vehicle,
       shownDistance  |-> Round(distance, 1000),
       deliveryFee    |-> fee,
       destinationFee |-> rule.destinationFee,
       total          |-> fee + rule.destinationFee]
==============================================================================
