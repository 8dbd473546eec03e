----------------------------- MODULE MCCollection -----------------------------
(* Collection on a small instance: one order, since only the rulesets are  *)
(* shared.  Its price is a quote for a bicycle, and does not divide evenly *)
(* by the percentages.                                                     *)
EXTENDS Collection, TLC, Pricing

CONSTANTS o1, d1, d2, r1, r2, a1

Rule(r, n, p) == [rider |-> r, node |-> n, platform |-> p]
MCRules == {Rule(60, 20, 20), Rule(33, 33, 34)}

PricingRule(base, perKm, rates) ==
  [base |-> base, perKm |-> perKm, destinationFee |-> 10, factor |-> 140, rates |-> rates]
MCQuote == FeeBreakdown(PricingRule(55, 30, <<>>), "bicycle", 1800, NotMeasured)
MCAmount == MCQuote.total
MCDestinationFee == MCQuote.destinationFee

(* The price as vehicle-pricing.spec.ts has it, in naira (TLC's integers   *)
(* have 32 bits), and over bounded inputs:                                 *)
(* rounding to the nearest, a total that covers the destination's fee, and *)
(* an estimate that is a multiple of five, at least the 15 minutes and the *)
(* ride, and less than five minutes more.                                  *)
ASSUME SpecPrices ==
  LET rule == PricingRule(1100, 320, [car |-> [base |-> 2500, perKm |-> 780]]) IN
  /\ RateFor(rule, "motorbike") = [base |-> 1100, perKm |-> 320]
  /\ RateFor([rule EXCEPT !.rates = <<>>], "car") = [base |-> 2640, perKm |-> 768]
  /\ RateFor(rule, "car").base = 2500
  /\ DeliveryFee(RateFor(rule, "motorbike"), 920000) = 4044
  /\ DeliveryMinutes(0) = 15 /\ DeliveryMinutes(920) = 50
ASSUME RoundsToNearest ==
  \A n \in 0 .. 60, d \in 1 .. 12 : 2 * (Round(n, d) * d - n) \in (1 - d) .. d
ASSUME PricesAreWhole ==
  \A base, perKm \in 0 .. 6, straight \in {0, 7, 900, 2500}, v \in DOMAIN Multiplier,
     road \in {NotMeasured, 0, 3100} :
    LET rule == PricingRule(base, perKm, <<>>)
        quote == FeeBreakdown(rule, v, straight, road)
    IN  IsPricingRule(rule) /\ quote.deliveryFee \in Nat /\ quote.total >= quote.destinationFee
ASSUME MinutesAreFives ==
  \A shown \in 0 .. 400 :
    LET minutes == DeliveryMinutes(shown) IN
    minutes % 5 = 0 /\ 30 * (minutes - 15) \in shown .. shown + 149
ASSUME LatestRuleHolds ==
  \A t1, t2, now \in 0 .. 3 :
    LET priced == WithRule(WithRule({}, "first", t1), "second", t2)
        latest == CurrentRules(priced, now)
    IN  /\ latest \subseteq priced
        /\ (latest = {}) <=> (now < t1 /\ now < t2)
        /\ \A r \in latest : r.effectiveFrom <= now
        /\ t1 < t2 /\ t2 <= now => latest = WithRule({}, "second", t2)

MCSymmetry == Permutations(Desks) \cup Permutations(Resends)
==============================================================================
