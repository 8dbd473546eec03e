----------------------------- MODULE DeliveryLeg -----------------------------
(***************************************************************************)
(* The courier-neutral vocabulary of logistics/domain/delivery-leg.ts: the *)
(* statuses of a delivery leg (one courier's attempt at one order), the    *)
(* events that move it, and the catch-up path from the status we hold to   *)
(* the status a courier reports.  Pure: no state, no constants.            *)
(***************************************************************************)
EXTENDS Naturals, Sequences

LegStatuses == { "requested", "assigned", "picked_up", "delivered",
                 "returning", "returned", "cancelled" }

ActiveLegStatuses == { "requested", "assigned", "picked_up", "returning" }

IsTerminal(s) == s \notin ActiveLegStatuses

(* Which status each event leads to, and from which it applies. *)
LegTransitions ==
  { [event |-> "assigned",       from |-> {"requested"},             to |-> "assigned"],
    [event |-> "released",       from |-> {"assigned"},              to |-> "requested"],
    [event |-> "picked_up",      from |-> {"assigned"},              to |-> "picked_up"],
    [event |-> "attempt_failed", from |-> {"picked_up"},             to |-> "picked_up"],
    [event |-> "delivered",      from |-> {"picked_up"},             to |-> "delivered"],
    [event |-> "returning",      from |-> {"picked_up"},             to |-> "returning"],
    [event |-> "returned",       from |-> {"returning"},             to |-> "returned"],
    [event |-> "cancelled",      from |-> {"requested", "assigned"}, to |-> "cancelled"] }

DeliveryEvents == { r.event : r \in LegTransitions }

(* The code's null: the event does not apply from the current status. *)
NoStatus == "none"

NextLegStatus(current, event) ==
  LET rules == { r \in LegTransitions : r.event = event /\ current \in r.from }
  IN  IF rules = {} THEN NoStatus ELSE (CHOOSE r \in rules : TRUE).to

(***************************************************************************)
(* The breadth-first search of eventsToReach, level by level: the walks of *)
(* n events from a status that move the leg at every step.                 *)
(***************************************************************************)
Walks(from, depth) ==
  LET level[n \in 0 .. depth] ==
        IF n = 0 THEN { [at |-> from, path |-> << >>] }
        ELSE { [at |-> NextLegStatus(we[1].at, we[2]), path |-> Append(we[1].path, we[2])] :
               we \in { x \in level[n - 1] \X DeliveryEvents :
                          NextLegStatus(x[1].at, x[2]) \notin {NoStatus, x[1].at} } }
  IN  level

(* No shortest path between two of the seven statuses has more than four   *)
(* events (requested to returned).                                         *)
MaxCatchUp == 4

(* The first path the search finds, and << >> when the target is equal or  *)
(* behind us.                                                              *)
CatchUp ==
  [from \in LegStatuses |->
    LET walks == Walks(from, MaxCatchUp) IN
    [to \in LegStatuses |->
      LET found == { n \in 1 .. MaxCatchUp : \E w \in walks[n] : w.at = to }
          least == CHOOSE n \in found : \A m \in found : n <= m
      IN  IF from = to \/ found = {} THEN << >>
          ELSE (CHOOSE w \in walks[least] : w.at = to).path]]

EventsToReach(from, to) == CatchUp[from][to]
==============================================================================
