----------------------------- MODULE RevenueSplit -----------------------------
(* How a completed order's amount is divided (earnings/domain).            *)
EXTENDS Integers

(* A ruleset an Admin may create: percentages that add up to 100. *)
Percent == 0 .. 100
IsRule(rule) ==
  /\ rule \in [rider : Percent, node : Percent, platform : Percent]
  /\ rule.rider + rule.node + rule.platform = 100

Share(amount, percent) == (amount * percent) \div 100

(* Mutant: the platform's share is rounded like the others. *)
CalculateSplitRounded(amount, rule) ==
  [rider    |-> Share(amount, rule.rider),
   node     |-> Share(amount, rule.node),
   platform |-> Share(amount, rule.platform)]

CalculateSplit(amount, rule) ==
  LET rider == Share(amount, rule.rider)
      node  == Share(amount, rule.node)
  IN  [rider |-> rider, node |-> node, platform |-> amount - rider - node]
==============================================================================
