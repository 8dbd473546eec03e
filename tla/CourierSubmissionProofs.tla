----------------------- MODULE CourierSubmissionProofs ------------------------
(***************************************************************************)
(* Theorems about CourierSubmission, for any workers, pollers, attempts    *)
(* and bounds: one courier at a time, the order where its leg is, and no   *)
(* older report in place of a newer one.                                   *)
(***************************************************************************)
EXTENDS SubmissionCustody, FiniteSetTheorems, SequenceTheorems, TLAPS

-----------------------------------------------------------------------------
(* The life of a leg.                                                      *)

LEMMA NextIs ==
  ASSUME NEW c, NEW e, NextLegStatus(c, e) # NoStatus
  PROVE  \E r \in LegTransitions : r.event = e /\ c \in r.from /\ r.to = NextLegStatus(c, e)
<1> DEFINE rules == { r \in LegTransitions : r.event = e /\ c \in r.from }
<1>1. rules # {} /\ NextLegStatus(c, e) = (CHOOSE r \in rules : TRUE).to
  BY DEF NextLegStatus
<1>2. (CHOOSE r \in rules : TRUE) \in rules
  BY <1>1
<1> QED BY <1>1, <1>2

Moved(c, e, to) ==
  \/ c = "requested" /\ e = "assigned" /\ to = "assigned"
  \/ c = "assigned" /\ e = "released" /\ to = "requested"
  \/ c = "assigned" /\ e = "picked_up" /\ to = "picked_up"
  \/ c = "picked_up" /\ e = "attempt_failed" /\ to = "picked_up"
  \/ c = "picked_up" /\ e = "delivered" /\ to = "delivered"
  \/ c = "picked_up" /\ e = "returning" /\ to = "returning"
  \/ c = "returning" /\ e = "returned" /\ to = "returned"
  \/ c \in {"requested", "assigned"} /\ e = "cancelled" /\ to = "cancelled"

(* An event that applies is one of these. *)
LEMMA LegMoves ==
  ASSUME NEW c, NEW e, NextLegStatus(c, e) # NoStatus
  PROVE  Moved(c, e, NextLegStatus(c, e))
<1>1. PICK r \in LegTransitions : r.event = e /\ c \in r.from /\ r.to = NextLegStatus(c, e)
  BY NextIs
<1> QED BY <1>1 DEF LegTransitions, Moved

(* ... and all of these apply. *)
LEMMA MovesLeg ==
  ASSUME NEW c, NEW e, NEW to, Moved(c, e, to)
  PROVE  NextLegStatus(c, e) = to /\ e \in DeliveryEvents
<1>1. PICK r \in LegTransitions : r.event = e /\ c \in r.from /\ r.to = to
  BY DEF LegTransitions, Moved
<1> DEFINE rules == { x \in LegTransitions : x.event = e /\ c \in x.from }
           x == CHOOSE y \in rules : TRUE
<1>2. rules # {} /\ NextLegStatus(c, e) = x.to /\ e \in DeliveryEvents
  BY <1>1 DEF NextLegStatus, DeliveryEvents
<1>3. x \in rules
  BY <1>2
<1> HIDE DEF x
<1>4. x.to = r.to
  BY <1>1, <1>3 DEF LegTransitions
<1> QED BY <1>1, <1>2, <1>4

-----------------------------------------------------------------------------
(* The catch-up search.                                                    *)

Start(from) == { [at |-> from, path |-> << >>] }
Extended(walks) ==
  { [at |-> NextLegStatus(we[1].at, we[2]), path |-> Append(we[1].path, we[2])] :
      we \in { x \in walks \X DeliveryEvents : NextLegStatus(x[1].at, x[2]) \notin {NoStatus, x[1].at} } }

(* The search is defined level by level, from the one before. *)
LEMMA WalkLevels ==
  ASSUME NEW from
  PROVE  /\ Walks(from, MaxCatchUp)[0] = Start(from)
         /\ \A n \in 1 .. MaxCatchUp :
              Walks(from, MaxCatchUp)[n] = Extended(Walks(from, MaxCatchUp)[n - 1])
<1> DEFINE L0 == Start(from)
           L1 == Extended(L0)
           L2 == Extended(L1)
           L3 == Extended(L2)
           L4 == Extended(L3)
           f == [n \in 0 .. MaxCatchUp |->
                  IF n = 0 THEN L0 ELSE IF n = 1 THEN L1 ELSE IF n = 2 THEN L2
                  ELSE IF n = 3 THEN L3 ELSE L4]
           Level(g) == [n \in 0 .. MaxCatchUp |-> IF n = 0 THEN Start(from) ELSE Extended(g[n - 1])]
<1>1. f = Level(f)
  <2> HIDE DEF L4
  <2>1. L4 = Extended(L3)
    BY DEF L4
  <2> HIDE DEF L3
  <2>2. L3 = Extended(L2)
    BY DEF L3
  <2> HIDE DEF L2
  <2>3. L2 = Extended(L1)
    BY DEF L2
  <2> HIDE DEF L1
  <2>4. L1 = Extended(L0)
    BY DEF L1
  <2> HIDE DEF L0
  <2>5. L0 = Start(from)
    BY DEF L0
  <2>6. \A n \in 0 .. 4 : n = 0 \/ n = 1 \/ n = 2 \/ n = 3 \/ n = 4
    OBVIOUS
  <2>7. ASSUME NEW n \in 0 .. 4
        PROVE  f[n] = IF n = 0 THEN Start(from) ELSE Extended(f[n - 1])
    BY <2>1, <2>2, <2>3, <2>4, <2>5, <2>6 DEF MaxCatchUp
  <2> HIDE DEF f
  <2>8. f = [n \in 0 .. 4 |-> f[n]]
    BY DEF f, MaxCatchUp
  <2> QED BY <2>7, <2>8 DEF MaxCatchUp
<1> DEFINE g == CHOOSE h : h = Level(h)
<1> HIDE DEF f
<1>2. g = Level(g)
  BY <1>1
<1>3. Walks(from, MaxCatchUp) = g
  BY DEF Walks, Start, Extended
<1> HIDE DEF g
<1>4. \A n \in 0 .. MaxCatchUp : g[n] = IF n = 0 THEN Start(from) ELSE Extended(g[n - 1])
  BY <1>2
<1> QED BY <1>3, <1>4 DEF MaxCatchUp

(* A walk of n events: it has moved the leg, and the order with it. *)
IsWalk(from, n, w) ==
  /\ w.path \in Seq(DeliveryEvents) /\ Len(w.path) = n /\ w.at \in LegStatuses
  /\ IF n = 0 THEN w.at = from ELSE from \in ActiveLegStatuses
  /\ status = StatusOf(from) => OrderAfter(w.path) = StatusOf(w.at)

LEMMA OneMove ==
  ASSUME NEW c, NEW e, NEW to, Moved(c, e, to)
  PROVE  /\ Moves(StatusOf(c), e) = StatusOf(to) /\ StatusOf(to) # Rolled
         /\ c \in ActiveLegStatuses /\ to \in LegStatuses
<1>1. CASE c = "requested" /\ e = "assigned" /\ to = "assigned"
  BY <1>1 DEF Moves, StatusOf, Rolled, ActiveLegStatuses, LegStatuses
<1>2. CASE c = "assigned" /\ e = "released" /\ to = "requested"
  BY <1>2 DEF Moves, StatusOf, Rolled, ActiveLegStatuses, LegStatuses
<1>3. CASE c = "assigned" /\ e = "picked_up" /\ to = "picked_up"
  BY <1>3 DEF Moves, StatusOf, Rolled, ActiveLegStatuses, LegStatuses
<1>4. CASE c = "picked_up" /\ e = "attempt_failed" /\ to = "picked_up"
  BY <1>4 DEF Moves, StatusOf, Rolled, ActiveLegStatuses, LegStatuses
<1>5. CASE c = "picked_up" /\ e = "delivered" /\ to = "delivered"
  BY <1>5 DEF Moves, StatusOf, Rolled, ActiveLegStatuses, LegStatuses
<1>6. CASE c = "picked_up" /\ e = "returning" /\ to = "returning"
  BY <1>6 DEF Moves, StatusOf, Rolled, ActiveLegStatuses, LegStatuses
<1>7. CASE c = "returning" /\ e = "returned" /\ to = "returned"
  BY <1>7 DEF Moves, StatusOf, Rolled, ActiveLegStatuses, LegStatuses
<1>8. CASE c = "requested" /\ e = "cancelled" /\ to = "cancelled"
  BY <1>8 DEF Moves, StatusOf, Rolled, ActiveLegStatuses, LegStatuses
<1>9. CASE c = "assigned" /\ e = "cancelled" /\ to = "cancelled"
  BY <1>9 DEF Moves, StatusOf, Rolled, ActiveLegStatuses, LegStatuses
<1> QED BY <1>1, <1>2, <1>3, <1>4, <1>5, <1>6, <1>7, <1>8, <1>9 DEF Moved

LEMMA UpToFour ==
  ASSUME NEW k \in 0 .. 4
  PROVE  k = 0 \/ k = 1 \/ k = 2 \/ k = 3 \/ k = 4
OBVIOUS

(* The order after no more than four events. *)
LEMMA OrderAfterEvents ==
  ASSUME NEW p \in Seq(DeliveryEvents), Len(p) \in 0 .. 4
  PROVE  /\ Len(p) = 0 => OrderAfter(p) = status
         /\ Len(p) = 1 => OrderAfter(p) = Moves(status, p[1])
         /\ Len(p) = 2 => OrderAfter(p) = Moves(Moves(status, p[1]), p[2])
         /\ Len(p) = 3 => OrderAfter(p) = Moves(Moves(Moves(status, p[1]), p[2]), p[3])
         /\ Len(p) = 4 => OrderAfter(p) = Moves(Moves(Moves(Moves(status, p[1]), p[2]), p[3]), p[4])
<1> DEFINE n == Len(p)
           s1 == Moves(status, p[1])
           s2 == Moves(s1, p[2])
           s3 == Moves(s2, p[3])
           s4 == Moves(s3, p[4])
           f == [k \in 0 .. n |->
                  IF k = 0 THEN status ELSE IF k = 1 THEN s1 ELSE IF k = 2 THEN s2
                  ELSE IF k = 3 THEN s3 ELSE s4]
           Level(g) == [k \in 0 .. n |-> IF k = 0 THEN status ELSE Moves(g[k - 1], p[k])]
<1>0. n \in 0 .. 4
  OBVIOUS
<1>1. f = Level(f)
  <2> HIDE DEF n
  <2> HIDE DEF s4
  <2>1. s4 = Moves(s3, p[4])
    BY DEF s4
  <2> HIDE DEF s3
  <2>2. s3 = Moves(s2, p[3])
    BY DEF s3
  <2> HIDE DEF s2
  <2>3. s2 = Moves(s1, p[2])
    BY DEF s2
  <2> HIDE DEF s1
  <2>4. s1 = Moves(status, p[1])
    BY DEF s1
  <2>5. ASSUME NEW k \in 0 .. n
        PROVE  f[k] = IF k = 0 THEN status ELSE Moves(f[k - 1], p[k])
    <3>1. k = 0 \/ k = 1 \/ k = 2 \/ k = 3 \/ k = 4
      BY <1>0
    <3>2. k # 0 => k - 1 \in 0 .. n
      BY <1>0
    <3> QED BY <2>1, <2>2, <2>3, <2>4, <3>1, <3>2
  <2> HIDE DEF f
  <2>6. f = [k \in 0 .. n |-> f[k]]
    BY DEF f
  <2> QED BY <2>5, <2>6
<1> DEFINE g == CHOOSE h : h = Level(h)
<1> HIDE DEF f
<1>2. g = Level(g)
  BY <1>1
<1>3. OrderAfter(p) = g[n]
  BY DEF OrderAfter
<1> HIDE DEF g
<1>4. \A k \in 0 .. n : g[k] = IF k = 0 THEN status ELSE Moves(g[k - 1], p[k])
  BY <1>2
<1>5. g[0] = status
  BY <1>0, <1>4
<1>6. n >= 1 => g[1] = s1
  BY <1>0, <1>4, <1>5
<1> HIDE DEF s1
<1>7. n >= 2 => g[2] = s2
  BY <1>0, <1>4, <1>6
<1> HIDE DEF s2
<1>8. n >= 3 => g[3] = s3
  BY <1>0, <1>4, <1>7
<1> HIDE DEF s3
<1>9. n >= 4 => g[4] = s4
  BY <1>0, <1>4, <1>8
<1> HIDE DEF s4, n
<1>10. /\ n = 0 => OrderAfter(p) = status
       /\ n = 1 => OrderAfter(p) = s1
       /\ n = 2 => OrderAfter(p) = s2
       /\ n = 3 => OrderAfter(p) = s3
       /\ n = 4 => OrderAfter(p) = s4
  BY <1>0, <1>3, <1>5, <1>6, <1>7, <1>8, <1>9
<1> QED BY <1>10, Zenon DEF s1, s2, s3, s4, n

LEMMA OneMoreEvent ==
  ASSUME NEW p \in Seq(DeliveryEvents), Len(p) \in 0 .. 3, NEW e \in DeliveryEvents
  PROVE  OrderAfter(Append(p, e)) = Moves(OrderAfter(p), e)
<1> DEFINE q == Append(p, e)
<1>1. /\ q \in Seq(DeliveryEvents) /\ Len(q) = Len(p) + 1 /\ q[Len(q)] = e
      /\ \A k \in 1 .. Len(p) : q[k] = p[k]
  OBVIOUS
<1> HIDE DEF q
<1>2. /\ Len(p) = 0 \/ Len(p) = 1 \/ Len(p) = 2 \/ Len(p) = 3
      /\ Len(p) \in 0 .. 4 /\ Len(q) \in 0 .. 4
  <2> DEFINE n == Len(p)
  <2>1. n \in 0 .. 3
    OBVIOUS
  <2> HIDE DEF n
  <2>2. (n = 0 \/ n = 1 \/ n = 2 \/ n = 3) /\ n \in 0 .. 4 /\ n + 1 \in 0 .. 4
    BY <2>1
  <2> QED BY <1>1, <2>2 DEF n
<1>3. CASE Len(p) = 0
  <2>1. Len(q) = 1 /\ q[1] = e
    BY <1>1, <1>3
  <2>2. OrderAfter(q) = Moves(status, q[1]) /\ OrderAfter(p) = status
    BY <1>1, <1>2, <1>3, <2>1, OrderAfterEvents
  <2> QED BY <2>1, <2>2 DEF q
<1>4. CASE Len(p) = 1
  <2>1. Len(q) = 2 /\ q[2] = e /\ q[1] = p[1]
    BY <1>1, <1>4
  <2>2. OrderAfter(q) = Moves(Moves(status, q[1]), q[2])
    BY <1>1, <1>2, <2>1, OrderAfterEvents
  <2>3. OrderAfter(p) = Moves(status, p[1])
    BY <1>2, <1>4, OrderAfterEvents
  <2> QED BY <2>1, <2>2, <2>3 DEF q
<1>5. CASE Len(p) = 2
  <2>1. Len(q) = 3 /\ q[3] = e /\ q[1] = p[1] /\ q[2] = p[2]
    BY <1>1, <1>5
  <2>2. OrderAfter(q) = Moves(Moves(Moves(status, q[1]), q[2]), q[3])
    BY <1>1, <1>2, <2>1, OrderAfterEvents
  <2>3. OrderAfter(p) = Moves(Moves(status, p[1]), p[2])
    BY <1>2, <1>5, OrderAfterEvents
  <2> QED BY <2>1, <2>2, <2>3 DEF q
<1>6. CASE Len(p) = 3
  <2>1. Len(q) = 4 /\ q[4] = e /\ q[1] = p[1] /\ q[2] = p[2] /\ q[3] = p[3]
    BY <1>1, <1>6
  <2>2. OrderAfter(q) = Moves(Moves(Moves(Moves(status, q[1]), q[2]), q[3]), q[4])
    BY <1>1, <1>2, <2>1, OrderAfterEvents
  <2>3. OrderAfter(p) = Moves(Moves(Moves(status, p[1]), p[2]), p[3])
    BY <1>2, <1>6, OrderAfterEvents
  <2> QED BY <2>1, <2>2, <2>3 DEF q
<1> QED BY <1>2, <1>3, <1>4, <1>5, <1>6

LEMMA WalksGoOn ==
  ASSUME NEW from, NEW walks, NEW n \in 0 .. 3, \A w \in walks : IsWalk(from, n, w)
  PROVE  \A w \in Extended(walks) : IsWalk(from, n + 1, w)
<1> SUFFICES ASSUME NEW x \in Extended(walks) PROVE IsWalk(from, n + 1, x)
  OBVIOUS
<1>1. PICK w \in walks, e \in DeliveryEvents :
        /\ x = [at |-> NextLegStatus(w.at, e), path |-> Append(w.path, e)]
        /\ NextLegStatus(w.at, e) # NoStatus
  BY DEF Extended
<1>2. IsWalk(from, n, w)
  OBVIOUS
<1> DEFINE to == NextLegStatus(w.at, e)
<1>3. Moved(w.at, e, to)
  BY <1>1, LegMoves
<1> HIDE DEF to
<1>4. x.at = to /\ x.path = Append(w.path, e)
  BY <1>1 DEF to
<1>5. /\ Moves(StatusOf(w.at), e) = StatusOf(to)
      /\ w.at \in ActiveLegStatuses /\ to \in LegStatuses
  BY <1>3, OneMove
<1>6. OrderAfter(x.path) = Moves(OrderAfter(w.path), e)
  BY <1>2, <1>4, OneMoreEvent DEF IsWalk
<1>7. from \in ActiveLegStatuses
  BY <1>2, <1>5 DEF IsWalk
<1>8. x.path \in Seq(DeliveryEvents) /\ Len(x.path) = n + 1
  BY <1>2, <1>4 DEF IsWalk
<1> QED BY <1>2, <1>4, <1>5, <1>6, <1>7, <1>8 DEF IsWalk

LEMMA AllWalks ==
  ASSUME NEW from \in LegStatuses, NEW n \in 1 .. MaxCatchUp
  PROVE  \A w \in Walks(from, MaxCatchUp)[n] : IsWalk(from, n, w)
<1> DEFINE W(k) == Walks(from, MaxCatchUp)[k]
<1>1. /\ W(0) = Start(from) /\ W(1) = Extended(W(0)) /\ W(2) = Extended(W(1))
      /\ W(3) = Extended(W(2)) /\ W(4) = Extended(W(3))
  <2>1. 1 \in 1 .. MaxCatchUp /\ 2 \in 1 .. MaxCatchUp /\ 3 \in 1 .. MaxCatchUp
        /\ 4 \in 1 .. MaxCatchUp /\ 1 - 1 = 0 /\ 2 - 1 = 1 /\ 3 - 1 = 2 /\ 4 - 1 = 3
    BY DEF MaxCatchUp
  <2> QED BY <2>1, WalkLevels
<1> HIDE DEF W
<1>2. \A w \in W(0) : w.at = from /\ w.path = << >>
  BY <1>1 DEF Start
<1>3. \A w \in W(0) : IsWalk(from, 0, w)
  <2>1. << >> \in Seq(DeliveryEvents) /\ Len(<< >>) = 0 /\ Len(<< >>) \in 0 .. 4
    OBVIOUS
  <2>2. OrderAfter(<< >>) = status
    BY <2>1, OrderAfterEvents
  <2> SUFFICES ASSUME NEW w \in W(0) PROVE IsWalk(from, 0, w)
    OBVIOUS
  <2>3. w.at = from /\ w.path = << >>
    BY <1>2
  <2>4. OrderAfter(w.path) = status
    BY <2>2, <2>3
  <2>5. w.path \in Seq(DeliveryEvents) /\ Len(w.path) = 0 
    BY <2>1, <2>3
  <2> QED BY <2>3, <2>4, <2>5 DEF IsWalk
<1>4. \A w \in W(1) : IsWalk(from, 1, w)
  <2>1. \A w \in Extended(W(0)) : IsWalk(from, 0 + 1, w)
    BY <1>3, WalksGoOn
  <2> QED BY <1>1, <2>1
<1>5. \A w \in W(2) : IsWalk(from, 2, w)
  <2>1. \A w \in Extended(W(1)) : IsWalk(from, 1 + 1, w)
    BY <1>4, WalksGoOn
  <2> QED BY <1>1, <2>1
<1>6. \A w \in W(3) : IsWalk(from, 3, w)
  <2>1. \A w \in Extended(W(2)) : IsWalk(from, 2 + 1, w)
    BY <1>5, WalksGoOn
  <2> QED BY <1>1, <2>1
<1>7. \A w \in W(4) : IsWalk(from, 4, w)
  <2>1. \A w \in Extended(W(3)) : IsWalk(from, 3 + 1, w)
    BY <1>6, WalksGoOn
  <2> QED BY <1>1, <2>1
<1>8. n = 1 \/ n = 2 \/ n = 3 \/ n = 4
  BY DEF MaxCatchUp
<1> QED BY <1>4, <1>5, <1>6, <1>7, <1>8 DEF W

LEMMA LeastOfFour ==
  ASSUME NEW found \in SUBSET (1 .. MaxCatchUp), found # {}
  PROVE  (CHOOSE n \in found : \A m \in found : n <= m) \in found
<1>1. \A m \in found : m = 1 \/ m = 2 \/ m = 3 \/ m = 4
  BY DEF MaxCatchUp
<1>2. \E n \in found : \A m \in found : n <= m
  <2>1. CASE 1 \in found
    BY <1>1, <2>1
  <2>2. CASE 1 \notin found /\ 2 \in found
    BY <1>1, <2>2
  <2>3. CASE 1 \notin found /\ 2 \notin found /\ 3 \in found
    BY <1>1, <2>3
  <2>4. CASE 1 \notin found /\ 2 \notin found /\ 3 \notin found
    <3>1. PICK n \in found : TRUE
      OBVIOUS
    <3>2. 4 \in found /\ \A m \in found : m = 4
      BY <1>1, <2>4, <3>1
    <3> QED BY <3>2
  <2> QED BY <2>1, <2>2, <2>3, <2>4
<1> QED BY <1>2

Found(from, to) == { n \in 1 .. MaxCatchUp : \E w \in Walks(from, MaxCatchUp)[n] : w.at = to }

LEMMA TheCatchUp ==
  ASSUME NEW from \in LegStatuses, NEW to \in LegStatuses
  PROVE  /\ from = to \/ Found(from, to) = {} => EventsToReach(from, to) = << >>
         /\ from # to /\ Found(from, to) # {} =>
              \E n \in 1 .. MaxCatchUp : \E w \in Walks(from, MaxCatchUp)[n] :
                w.at = to /\ EventsToReach(from, to) = w.path
<1> DEFINE walks == Walks(from, MaxCatchUp)
           found == { n \in 1 .. MaxCatchUp : \E w \in walks[n] : w.at = to }
           least == CHOOSE n \in found : \A m \in found : n <= m
           w == CHOOSE x \in walks[least] : x.at = to
<1>1. EventsToReach(from, to) = IF from = to \/ found = {} THEN << >> ELSE w.path
  BY DEF EventsToReach, CatchUp
<1>2. found = Found(from, to)
  BY DEF Found
<1>3. ASSUME found # {}
      PROVE  least \in 1 .. MaxCatchUp /\ w \in walks[least] /\ w.at = to
  <2> HIDE DEF walks
  <2>1. least \in found
    <3>1. found \in SUBSET (1 .. MaxCatchUp)
      OBVIOUS
    <3> HIDE DEF found
    <3> QED BY <1>3, <3>1, LeastOfFour
  <2> HIDE DEF least
  <2>2. least \in 1 .. MaxCatchUp /\ \E x \in walks[least] : x.at = to
    BY <2>1
  <2> QED BY <2>2
<1> HIDE DEF found, w, least
<1> QED BY <1>1, <1>2, <1>3

(* A path that was found moves the order to where the courier is. *)
LEMMA CaughtUp ==
  ASSUME NEW from \in LegStatuses, NEW to \in LegStatuses, EventsToReach(from, to) # << >>
  PROVE  /\ from \in ActiveLegStatuses
         /\ status = StatusOf(from) => OrderAfter(EventsToReach(from, to)) = StatusOf(to)
<1>1. PICK n \in 1 .. MaxCatchUp :
        \E w \in Walks(from, MaxCatchUp)[n] : w.at = to /\ EventsToReach(from, to) = w.path
  BY TheCatchUp
<1>2. PICK w \in Walks(from, MaxCatchUp)[n] : w.at = to /\ EventsToReach(from, to) = w.path
  BY <1>1
<1>3. IsWalk(from, n, w) /\ n # 0
  BY AllWalks DEF MaxCatchUp
<1> QED BY <1>2, <1>3 DEF IsWalk

(* A courier's delivery never comes back from where it has been. *)
Ahead(s) ==
  CASE s \in {"requested", "assigned"} -> LegStatuses
    [] s = "picked_up" -> {"picked_up", "delivered", "returning", "returned"}
    [] s = "returning" -> {"returning", "returned"}
    [] OTHER -> {s}

LEMMA AheadIsAPreorder ==
  ASSUME NEW a \in LegStatuses
  PROVE  /\ a \in Ahead(a) /\ Ahead(a) \subseteq LegStatuses
         /\ \A b \in Ahead(a) : Ahead(b) \subseteq Ahead(a)
         /\ \A e, to : Moved(a, e, to) => to \in Ahead(a)
<1> USE DEF LegStatuses
<1>1. CASE a \in {"requested", "assigned"}
  <2>1. Ahead(a) = LegStatuses
    BY <1>1 DEF Ahead
  <2>2. \A b \in LegStatuses : Ahead(b) \subseteq LegStatuses
    BY DEF Ahead
  <2> QED BY <1>1, <2>1, <2>2 DEF Moved
<1>2. CASE a = "picked_up"
  BY <1>2 DEF Ahead, Moved
<1>3. CASE a = "returning"
  BY <1>3 DEF Ahead, Moved
<1>4. CASE a \in {"delivered", "returned", "cancelled"}
  BY <1>4 DEF Ahead, Moved
<1> QED BY <1>1, <1>2, <1>3, <1>4

WalkTo(from, n, s) == \E w \in Walks(from, MaxCatchUp)[n] : w.at = s

LEMMA OneStepFurther ==
  ASSUME NEW from, NEW n \in 0 .. 3, NEW s, NEW e, NEW to, Moved(s, e, to), to # s,
         WalkTo(from, n, s)
  PROVE  WalkTo(from, n + 1, to)
<1>1. /\ NextLegStatus(s, e) = to /\ e \in DeliveryEvents /\ to # NoStatus
  BY MovesLeg DEF Moved, NoStatus
<1>2. PICK w \in Walks(from, MaxCatchUp)[n] : w.at = s
  BY DEF WalkTo
<1> DEFINE x == [at |-> NextLegStatus(w.at, e), path |-> Append(w.path, e)]
           we == <<w, e>>
<1>3. x \in Extended(Walks(from, MaxCatchUp)[n])
  <2>1. we \in Walks(from, MaxCatchUp)[n] \X DeliveryEvents /\ we[1] = w /\ we[2] = e
    BY <1>1
  <2>2. NextLegStatus(we[1].at, we[2]) \notin {NoStatus, we[1].at}
    BY <1>1, <1>2, <2>1
  <2>3. x = [at |-> NextLegStatus(we[1].at, we[2]), path |-> Append(we[1].path, we[2])]
    BY <2>1
  <2> HIDE DEF we, x
  <2> QED BY <2>1, <2>2, <2>3 DEF Extended
<1>4. n + 1 \in 1 .. MaxCatchUp /\ (n + 1) - 1 = n
  BY DEF MaxCatchUp
<1>5. x \in Walks(from, MaxCatchUp)[n + 1]
  BY <1>3, <1>4, WalkLevels
<1>6. x.at = to
  BY <1>1, <1>2
<1> QED BY <1>5, <1>6 DEF WalkTo

LEMMA AtStart ==
  ASSUME NEW from
  PROVE  WalkTo(from, 0, from)
<1>1. Walks(from, MaxCatchUp)[0] = Start(from)
  BY WalkLevels
<1> QED BY <1>1 DEF WalkTo, Start

LEMMA AheadIsReached ==
  ASSUME NEW from \in LegStatuses, NEW to \in Ahead(from), from # to
  PROVE  EventsToReach(from, to) # << >>
<1>0. to \in LegStatuses
  BY AheadIsAPreorder
<1>1. \E n \in 1 .. 4 : WalkTo(from, n, to)
  <2>0. /\ 0 \in 0 .. 3 /\ 1 \in 0 .. 3 /\ 2 \in 0 .. 3 /\ 3 \in 0 .. 3
        /\ 0 + 1 = 1 /\ 1 + 1 = 2 /\ 2 + 1 = 3 /\ 3 + 1 = 4
        /\ 1 \in 1 .. 4 /\ 2 \in 1 .. 4 /\ 3 \in 1 .. 4 /\ 4 \in 1 .. 4
    OBVIOUS
  <2>1. /\ Moved("requested", "assigned", "assigned") /\ Moved("assigned", "released", "requested")
        /\ Moved("assigned", "picked_up", "picked_up") /\ Moved("picked_up", "delivered", "delivered")
        /\ Moved("picked_up", "returning", "returning") /\ Moved("returning", "returned", "returned")
        /\ Moved("requested", "cancelled", "cancelled") /\ Moved("assigned", "cancelled", "cancelled")
    BY DEF Moved
  <2>2. WalkTo(from, 0, from)
    BY AtStart
  <2>3. ASSUME from = "returning" PROVE WalkTo(from, 1, "returned")
    BY <2>0, <2>1, <2>2, <2>3, OneStepFurther
  <2>4. ASSUME from = "picked_up"
        PROVE  WalkTo(from, 1, "delivered") /\ WalkTo(from, 1, "returning") /\ WalkTo(from, 2, "returned")
    <3>1. WalkTo(from, 1, "delivered") /\ WalkTo(from, 1, "returning")
      BY <2>0, <2>1, <2>2, <2>4, OneStepFurther
    <3> QED BY <2>0, <2>1, <3>1, OneStepFurther
  <2>5. ASSUME from = "assigned"
        PROVE  /\ WalkTo(from, 1, "requested") /\ WalkTo(from, 1, "picked_up")
               /\ WalkTo(from, 1, "cancelled") /\ WalkTo(from, 2, "delivered")
               /\ WalkTo(from, 2, "returning") /\ WalkTo(from, 3, "returned")
    <3>1. WalkTo(from, 1, "requested") /\ WalkTo(from, 1, "picked_up") /\ WalkTo(from, 1, "cancelled")
      BY <2>0, <2>1, <2>2, <2>5, OneStepFurther
    <3>2. WalkTo(from, 2, "delivered") /\ WalkTo(from, 2, "returning")
      BY <2>0, <2>1, <3>1, OneStepFurther
    <3>3. WalkTo(from, 3, "returned")
      BY <2>0, <2>1, <3>2, OneStepFurther
    <3> QED BY <3>1, <3>2, <3>3
  <2>6. ASSUME from = "requested"
        PROVE  /\ WalkTo(from, 1, "assigned") /\ WalkTo(from, 2, "picked_up")
               /\ WalkTo(from, 1, "cancelled") /\ WalkTo(from, 3, "delivered")
               /\ WalkTo(from, 3, "returning") /\ WalkTo(from, 4, "returned")
    <3>1. WalkTo(from, 1, "assigned") /\ WalkTo(from, 1, "cancelled")
      BY <2>0, <2>1, <2>2, <2>6, OneStepFurther
    <3>2. WalkTo(from, 2, "picked_up")
      BY <2>0, <2>1, <3>1, OneStepFurther
    <3>3. WalkTo(from, 3, "delivered") /\ WalkTo(from, 3, "returning")
      BY <2>0, <2>1, <3>2, OneStepFurther
    <3>4. WalkTo(from, 4, "returned")
      BY <2>0, <2>1, <3>3, OneStepFurther
    <3> QED BY <3>1, <3>2, <3>3, <3>4
  <2>7. CASE from = "requested"
    BY <1>0, <2>0, <2>6, <2>7 DEF LegStatuses
  <2>8. CASE from = "assigned"
    BY <1>0, <2>0, <2>5, <2>8 DEF LegStatuses
  <2>9. CASE from = "picked_up"
    BY <2>0, <2>4, <2>9 DEF Ahead
  <2>10. CASE from = "returning"
    BY <2>0, <2>3, <2>10 DEF Ahead
  <2>11. CASE from \in {"delivered", "returned", "cancelled"}
    BY <2>11 DEF Ahead
  <2> QED BY <2>7, <2>8, <2>9, <2>10, <2>11 DEF LegStatuses
<1>2. PICK n \in 1 .. 4 : WalkTo(from, n, to)
  BY <1>1
<1>3. Found(from, to) # {}
  BY <1>2 DEF Found, WalkTo, MaxCatchUp
<1>4. PICK m \in 1 .. MaxCatchUp :
        \E w \in Walks(from, MaxCatchUp)[m] : w.at = to /\ EventsToReach(from, to) = w.path
  BY <1>0, <1>3, TheCatchUp
<1>5. PICK w \in Walks(from, MaxCatchUp)[m] : w.at = to /\ EventsToReach(from, to) = w.path
  BY <1>4
<1>6. Len(w.path) # 0
  BY AllWalks DEF IsWalk, MaxCatchUp
<1> QED BY <1>5, <1>6, EmptySeq

-----------------------------------------------------------------------------
(* What holds whatever an Admin retries.                                   *)

LegRows == [remote : BOOLEAN, status : LegStatuses, booked : BOOLEAN, sequence : 0 .. MaxSequence]
Jobs == [status : LegStatuses \cup {NoStatus}, sequence : 0 .. MaxSequence]

(* A row with what is queued for it and what its courier does: only the    *)
(* last leg is active, only a remote leg has a courier, and the courier is *)
(* where the row says or ahead of it.                                      *)
RowOK(r, last, due, j) ==
  /\ r.status \in ActiveLegStatuses => last
  /\ due > 0 => r.remote
  /\ r.booked => j.status # NoStatus
  /\ ~r.remote => j.status = NoStatus
  /\ r.remote /\ ~r.booked => r.status \in {"requested", "cancelled"} /\ r.sequence = 0
  /\ r.sequence <= j.sequence
  /\ j.status # NoStatus /\ r.status # "cancelled" => j.status \in Ahead(r.status)
  /\ r.sequence > 0 /\ r.sequence = j.sequence => r.status \in {j.status, "cancelled"}

JobOK(j) == IF j.status = NoStatus THEN j.sequence = 0 ELSE j.sequence > 0

Rows == \A l \in DOMAIN legs : RowOK(legs[l], l = Len(legs), queue[l], job[l])
NotYet == \A l \in Nr : l > Len(legs) => queue[l] = 0 /\ job[l].status = NoStatus
Couriers == \A l \in Nr : JobOK(job[l])

WorkerOK(w) ==
  IF submit[w].at = "idle" THEN submit[w].leg = 0
  ELSE /\ submit[w].leg \in DOMAIN legs /\ legs[submit[w].leg].remote
       /\ submit[w].at = "accepted" => job[submit[w].leg].status # NoStatus

(* A report is not ahead of the courier, and one that is newer than the    *)
(* row is where the row is or ahead of it.                                 *)
SeenOK(seen, r, j) ==
  /\ r.booked /\ seen.status # NoStatus /\ seen.sequence > 0
  /\ seen.sequence <= j.sequence /\ j.status \in Ahead(seen.status)
  /\ seen.sequence = j.sequence => seen.status = j.status
  /\ seen.sequence > r.sequence /\ r.status # "cancelled" => seen.status \in Ahead(r.status)

PollOK(p) ==
  poll[p] # IdlePoller =>
    poll[p].leg \in DOMAIN legs /\ SeenOK(poll[p].seen, legs[poll[p].leg], job[poll[p].leg])

(* Of two reports of one courier, the one with the higher sequence is      *)
(* ahead.                                                                  *)
InOrder(p, q) ==
  /\ poll[p] # IdlePoller /\ poll[q] # IdlePoller /\ poll[p].leg = poll[q].leg
  /\ poll[p].seen.sequence <= poll[q].seen.sequence
  => poll[q].seen.status \in Ahead(poll[p].seen.status)

CancelOK == cancel.at = "idle" \/ (cancel.leg \in DOMAIN legs /\ legs[cancel.leg].remote)

CourierInv ==
  /\ TypeOK /\ Rows /\ NotYet /\ Couriers /\ CancelOK
  /\ \A w \in Workers : WorkerOK(w)
  /\ \A p \in Pollers : PollOK(p)
  /\ \A p, q \in Pollers : InOrder(p, q)

LEMMA FirstLegs ==
  ASSUME Init
  PROVE  CourierInv
<1> USE SubmissionAssumption
<1>1. /\ Len(legs) = 1 /\ DOMAIN legs = {1} /\ legs[1] = Row(TRUE)
  <2> DEFINE r == Row(TRUE)
  <2>1. legs = <<r>>
    BY DEF Init
  <2> HIDE DEF r
  <2>2. Len(legs) = 1 /\ legs[1] = r /\ DOMAIN legs = 1 .. 1
    BY <2>1
  <2> QED BY <2>2 DEF r
<1>2. 1 \in Nr
  BY DEF Nr
<1>3. Row(TRUE) \in LegRows /\ NoJob \in Jobs /\ 0 \in 0 .. MaxLegs
  BY DEF Row, LegRows, NoJob, Jobs, LegStatuses
<1>4. TypeOK
  <2>1. status \in OrderStatuses
    BY DEF Init, OrderStatuses
  <2>2. legs \in Seq(LegRows)
    <3> DEFINE r == Row(TRUE)
    <3>1. legs = <<r>> /\ r \in LegRows
      BY <1>3 DEF Init
    <3> HIDE DEF r
    <3> QED BY <3>1
  <2>3. queue \in [Nr -> Nat]
    BY DEF Init
  <2>4. job \in [Nr -> Jobs]
    BY <1>3 DEF Init
  <2>5. poll \in [Pollers -> [leg : 0 .. MaxLegs, seen : Jobs]]
    BY <1>3 DEF Init, IdlePoller
  <2>6. submit \in [Workers -> [leg : 0 .. MaxLegs, at : {"idle", "asking", "accepted", "refused"}]]
    BY <1>3 DEF Init, IdleWorker
  <2>7. cancel \in [leg : 0 .. MaxLegs, at : {"idle", "asking", "closing"}]
    BY <1>3 DEF Init, NoCancel
  <2> QED BY <1>1, <1>2, <2>1, <2>2, <2>3, <2>4, <2>5, <2>6, <2>7 DEF TypeOK, LegRows, Jobs
<1>5. Rows
  <2>1. queue[1] = 1 /\ job[1] = NoJob
    BY <1>2 DEF Init
  <2> QED BY <1>1, <2>1 DEF Rows, RowOK, Row, NoJob
<1>6. NotYet /\ Couriers /\ CancelOK
  BY <1>1 DEF Init, NotYet, Couriers, JobOK, CancelOK, NoJob, NoCancel, Nr
<1>7. /\ \A w \in Workers : WorkerOK(w)
      /\ \A p \in Pollers : PollOK(p)
      /\ \A p, q \in Pollers : InOrder(p, q)
  BY DEF Init, WorkerOK, PollOK, InOrder, IdleWorker
<1> QED BY <1>4, <1>5, <1>6, <1>7 DEF CourierInv

LEMMA NewRow ==
  ASSUME NEW remote \in BOOLEAN
  PROVE  /\ Row(remote) \in LegRows /\ Row(remote).status = "requested"
         /\ Row(remote).remote = remote /\ ~Row(remote).booked /\ Row(remote).sequence = 0
BY SubmissionAssumption DEF Row, LegRows, LegStatuses

(* What dispatch does with the rows: it leaves them, or adds a leg when    *)
(* none is active.                                                         *)
LEMMA Dispatched ==
  ASSUME NEW rows \in Seq(LegRows), Len(rows) \in Nr, queue \in [Nr -> Nat], Dispatch(rows)
  PROVE  \/ legs' = rows /\ queue' = queue
         \/ /\ Active(rows) = {} /\ Len(rows) + 1 \in Nr
            /\ \E remote \in BOOLEAN :
                 /\ legs' = Append(rows, Row(remote))
                 /\ queue' = [queue EXCEPT ![Len(rows) + 1] = IF remote THEN 1 ELSE @]
<1> USE SubmissionAssumption
<1>1. CASE legs' = rows /\ queue' = queue
  BY <1>1
<1>2. CASE /\ Active(rows) = {} /\ Len(rows) < MaxLegs
           /\ DispatchTo(rows, TRUE) \/ DispatchTo(rows, FALSE)
  <2>1. Len(rows) + 1 \in Nr
    BY <1>2 DEF Nr
  <2>2. queue = [queue EXCEPT ![Len(rows) + 1] = @]
    BY <2>1
  <2>3. CASE DispatchTo(rows, TRUE)
    BY <1>2, <2>1, <2>3 DEF DispatchTo
  <2>4. CASE DispatchTo(rows, FALSE)
    BY <1>2, <2>1, <2>2, <2>4 DEF DispatchTo
  <2> QED BY <1>2, <2>3, <2>4
<1> QED BY <1>1, <1>2 DEF Dispatch

(* A leg that dispatch adds is the only active one, and nobody carries it  *)
(* yet.                                                                    *)
LEMMA AfterDispatch ==
  ASSUME NEW rows \in Seq(LegRows), Len(rows) \in Nr, queue \in [Nr -> Nat],
         job \in [Nr -> Jobs], job' = job, Couriers,
         \A l \in DOMAIN rows : RowOK(rows[l], l = Len(rows), queue[l], job[l]),
         \A l \in Nr : l > Len(rows) => queue[l] = 0 /\ job[l].status = NoStatus,
         Dispatch(rows)
  PROVE  /\ legs' \in Seq(LegRows) /\ Len(legs') \in Nr /\ queue' \in [Nr -> Nat]
         /\ Rows' /\ NotYet'
         /\ \A l \in DOMAIN rows : l \in DOMAIN legs' /\ legs'[l] = rows[l] /\ queue'[l] = queue[l]
<1> USE SubmissionAssumption
<1>1. CASE legs' = rows /\ queue' = queue
  BY <1>1 DEF Rows, NotYet
<1>2. CASE /\ Active(rows) = {} /\ Len(rows) + 1 \in Nr
           /\ \E remote \in BOOLEAN :
                /\ legs' = Append(rows, Row(remote))
                /\ queue' = [queue EXCEPT ![Len(rows) + 1] = IF remote THEN 1 ELSE @]
  <2>1. PICK remote \in BOOLEAN :
          /\ legs' = Append(rows, Row(remote))
          /\ queue' = [queue EXCEPT ![Len(rows) + 1] = IF remote THEN 1 ELSE @]
    BY <1>2
  <2> DEFINE r == Row(remote)
             n == Len(rows) + 1
  <2>2. /\ r \in LegRows /\ r.status = "requested" /\ r.remote = remote
        /\ ~r.booked /\ r.sequence = 0
    BY NewRow
  <2>3. legs' = Append(rows, r) /\ queue' = [queue EXCEPT ![n] = IF remote THEN 1 ELSE @]
    BY <2>1
  <2> HIDE DEF r
  <2>4. /\ legs' \in Seq(LegRows) /\ Len(legs') = n /\ legs'[n] = r
        /\ DOMAIN legs' = DOMAIN rows \cup {n} /\ n \notin DOMAIN rows
        /\ \A l \in DOMAIN rows : legs'[l] = rows[l]
    BY <2>2, <2>3
  <2>5. DOMAIN rows = 1 .. Len(rows) /\ Len(rows) \in Nat /\ DOMAIN rows \subseteq Nr
    BY DEF Nr
  <2> DEFINE len == Len(rows)
  <2>6. n = len + 1 /\ len \in Nat /\ DOMAIN rows = 1 .. len /\ n \in Nr
    BY <1>2, <2>5
  <2>7. queue' \in [Nr -> Nat]
    BY <2>3
  <2>8. \A l \in Nr : l # n => queue'[l] = queue[l]
    BY <2>3
  <2>9. queue[n] = 0 /\ job[n].status = NoStatus
    BY <2>6 DEF Nr
  <2>10. queue'[n] = (IF remote THEN 1 ELSE 0)
    BY <2>3, <2>6, <2>9
  <2>11. job[n].sequence = 0
    BY <2>6, <2>9 DEF Couriers, JobOK
  <2>12. RowOK(legs'[n], n = Len(legs'), queue'[n], job'[n])
    BY <2>2, <2>4, <2>9, <2>10, <2>11 DEF RowOK
  <2>13. ASSUME NEW l \in DOMAIN rows
         PROVE  RowOK(legs'[l], l = Len(legs'), queue'[l], job'[l])
    <3>1. rows[l].status \notin ActiveLegStatuses
      BY <1>2 DEF Active
    <3>2. legs'[l] = rows[l] /\ queue'[l] = queue[l] /\ job'[l] = job[l]
      BY <2>4, <2>5, <2>8
    <3> QED BY <3>1, <3>2 DEF RowOK
  <2>14. Rows'
    BY <2>4, <2>12, <2>13 DEF Rows
  <2>15. NotYet'
    <3> SUFFICES ASSUME NEW l \in Nr, l > Len(legs')
                 PROVE  queue'[l] = 0 /\ job[l].status = NoStatus
      BY DEF NotYet
    <3>1. l > n
      BY <2>4
    <3>2. l > Len(rows) /\ l # n
      BY <2>6, <3>1 DEF Nr
    <3> QED BY <2>8, <3>2
  <2> QED BY <2>4, <2>5, <2>6, <2>7, <2>8, <2>14, <2>15
<1> QED BY <1>1, <1>2, Dispatched

(* A row that a step only closes, or books. *)
Kept(r, s) ==
  /\ s.remote = r.remote /\ s.sequence = r.sequence
  /\ r.booked => s.booked
  /\ s.status \in {r.status, "cancelled"}

RowsKept == \A l \in DOMAIN legs : l \in DOMAIN legs' /\ Kept(legs[l], legs'[l])

LEMMA PollsKept ==
  ASSUME CourierInv, RowsKept, job' = job, poll' = poll
  PROVE  /\ \A p \in Pollers : PollOK(p)'
         /\ \A p, q \in Pollers : InOrder(p, q)'
<1>1. ASSUME NEW p \in Pollers PROVE PollOK(p)'
  <2>1. CASE poll[p] = IdlePoller
    BY <2>1 DEF PollOK
  <2>2. CASE poll[p] # IdlePoller
    <3> DEFINE l == poll[p].leg
    <3>1. l \in DOMAIN legs /\ SeenOK(poll[p].seen, legs[l], job[l])
      BY <2>2 DEF CourierInv, PollOK
    <3>2. l \in DOMAIN legs' /\ Kept(legs[l], legs'[l])
      BY <3>1 DEF RowsKept
    <3>3. SeenOK(poll[p].seen, legs'[l], job[l])
      BY <3>1, <3>2 DEF SeenOK, Kept
    <3> QED BY <3>2, <3>3 DEF PollOK
  <2> QED BY <2>1, <2>2
<1>2. \A p, q \in Pollers : InOrder(p, q)'
  BY DEF InOrder, CourierInv
<1> QED BY <1>1, <1>2

(* The workers and the cancellation hold remote legs. *)
RemoteKept == \A l \in DOMAIN legs : l \in DOMAIN legs' /\ legs'[l].remote = legs[l].remote

LEMMA CancelKept ==
  ASSUME CourierInv, RemoteKept, cancel' = cancel
  PROVE  CancelOK'
BY DEF CourierInv, CancelOK, RemoteKept

LEMMA WorkerKept ==
  ASSUME CourierInv, RemoteKept, NEW w \in Workers, submit'[w] = submit[w],
         submit[w].at = "accepted" =>
           job'[submit[w].leg].status # NoStatus \/ job'[submit[w].leg] = job[submit[w].leg]
  PROVE  WorkerOK(w)'
BY DEF CourierInv, WorkerOK, RemoteKept

LEMMA IdleKept ==
  ASSUME CourierInv, RemoteKept, job' = job, NEW w \in Workers,
         submit' = [submit EXCEPT ![w] = IdleWorker]
  PROVE  \A v \in Workers : WorkerOK(v)'
<1> SUFFICES ASSUME NEW v \in Workers PROVE WorkerOK(v)'
  OBVIOUS
<1>0. submit \in [Workers -> [leg : 0 .. MaxLegs, at : {"idle", "asking", "accepted", "refused"}]]
  BY DEF CourierInv, TypeOK
<1>1. CASE v = w
  <2>1. submit'[v] = IdleWorker
    BY <1>0, <1>1
  <2> QED BY <2>1 DEF WorkerOK, IdleWorker
<1>2. CASE v # w
  <2>1. submit'[v] = submit[v]
    BY <1>0, <1>2
  <2> QED BY <2>1, WorkerKept
<1> QED BY <1>1, <1>2

LEMMA Types ==
  ASSUME TypeOK
  PROVE  /\ legs \in Seq(LegRows) /\ Len(legs) \in Nr /\ DOMAIN legs \subseteq Nr
         /\ queue \in [Nr -> Nat] /\ job \in [Nr -> Jobs]
         /\ submit \in [Workers -> [leg : 0 .. MaxLegs, at : {"idle", "asking", "accepted", "refused"}]]
         /\ poll \in [Pollers -> [leg : 0 .. MaxLegs, seen : Jobs]]
<1>1. /\ legs \in Seq(LegRows) /\ Len(legs) \in Nr
      /\ queue \in [Nr -> Nat] /\ job \in [Nr -> Jobs]
      /\ submit \in [Workers -> [leg : 0 .. MaxLegs, at : {"idle", "asking", "accepted", "refused"}]]
      /\ poll \in [Pollers -> [leg : 0 .. MaxLegs, seen : Jobs]]
  BY DEF TypeOK, LegRows, Jobs
<1>2. DOMAIN legs \subseteq Nr
  BY <1>1, SubmissionAssumption DEF Nr
<1> QED BY <1>1, <1>2

(* Steps of the submission that touch no row. *)
LEMMA UnmovedRows ==
  ASSUME CourierInv, legs' = legs, job' = job,
         \A l \in Nr : queue'[l] = queue[l] \/ (l \in DOMAIN legs /\ legs[l].remote)
  PROVE  Rows' /\ NotYet' /\ Couriers' /\ RowsKept /\ RemoteKept
<1>0. DOMAIN legs \subseteq Nr /\ legs \in Seq(LegRows) /\ Len(legs) \in Nr
  BY Types DEF CourierInv
<1>1. Rows'
  <2> SUFFICES ASSUME NEW l \in DOMAIN legs
               PROVE  RowOK(legs[l], l = Len(legs), queue'[l], job[l])
    BY DEF Rows
  <2>1. RowOK(legs[l], l = Len(legs), queue[l], job[l])
    BY DEF CourierInv, Rows
  <2>2. queue'[l] = queue[l] \/ legs[l].remote
    BY <1>0
  <2> QED BY <2>1, <2>2 DEF RowOK
<1>2. NotYet'
  <2> SUFFICES ASSUME NEW l \in Nr, l > Len(legs)
               PROVE  queue'[l] = 0 /\ job[l].status = NoStatus
    BY DEF NotYet
  <2>1. l \notin DOMAIN legs
    BY <1>0 DEF Nr
  <2> QED BY <2>1 DEF CourierInv, NotYet
<1>3. Couriers'
  BY DEF CourierInv, Couriers
<1>4. RowsKept /\ RemoteKept
  BY DEF RowsKept, RemoteKept, Kept
<1> QED BY <1>1, <1>2, <1>3, <1>4

LEMMA BeginSubmitKeeps ==
  ASSUME CourierInv, NEW l \in DOMAIN legs, NEW w \in Workers, BeginSubmit(w, l)
  PROVE  CourierInv'
<1>0. /\ TypeOK /\ DOMAIN legs \subseteq Nr /\ Rows /\ legs \in Seq(LegRows) /\ Len(legs) \in Nr
      /\ queue \in [Nr -> Nat]
      /\ submit \in [Workers -> [leg : 0 .. MaxLegs, at : {"idle", "asking", "accepted", "refused"}]]
  BY Types DEF CourierInv
<1>1. legs[l].remote
  BY DEF BeginSubmit, CourierInv, Rows, RowOK
<1>2. /\ legs' = legs /\ job' = job /\ poll' = poll /\ cancel' = cancel
      /\ queue' = [queue EXCEPT ![l] = @ - 1] /\ queue[l] > 0
      /\ \/ submit' = submit
         \/ submit' = [submit EXCEPT ![w] = [leg |-> l, at |-> "asking"]]
  BY DEF BeginSubmit
<1>3. \A m \in Nr : queue'[m] = queue[m] \/ (m \in DOMAIN legs /\ legs[m].remote)
  BY <1>0, <1>1, <1>2
<1>4. Rows' /\ NotYet' /\ Couriers' /\ RowsKept /\ RemoteKept
  BY <1>2, <1>3, UnmovedRows
<1>5. TypeOK'
  <2>1. queue' \in [Nr -> Nat]
    BY <1>0, <1>2
  <2>2. l \in 0 .. MaxLegs
    BY <1>0 DEF Nr
  <2>3. submit' \in [Workers -> [leg : 0 .. MaxLegs, at : {"idle", "asking", "accepted", "refused"}]]
    BY <1>0, <1>2, <2>2
  <2> QED BY <1>0, <1>2, <2>1, <2>3 DEF TypeOK, BeginSubmit
<1>6. ASSUME NEW v \in Workers PROVE WorkerOK(v)'
  <2>1. CASE submit'[v] = submit[v]
    BY <1>2, <1>4, <2>1, WorkerKept
  <2>2. CASE v = w /\ submit' = [submit EXCEPT ![w] = [leg |-> l, at |-> "asking"]]
    <3>1. submit'[v] = [leg |-> l, at |-> "asking"]
      BY <1>0, <2>2
    <3> QED BY <1>1, <1>2, <3>1 DEF WorkerOK
  <2> QED BY <1>0, <1>2, <2>1, <2>2
<1>7. CancelOK'
  BY <1>2, <1>4, CancelKept
<1>8. (\A p \in Pollers : PollOK(p)') /\ (\A p, q \in Pollers : InOrder(p, q)')
  BY <1>2, <1>4, PollsKept
<1> QED BY <1>4, <1>5, <1>6, <1>7, <1>8 DEF CourierInv

LEMMA RetryKeeps ==
  ASSUME CourierInv, NEW l \in DOMAIN legs, Retry(l)
  PROVE  CourierInv'
<1>0. /\ TypeOK /\ DOMAIN legs \subseteq Nr
      /\ queue \in [Nr -> Nat]
  BY Types DEF CourierInv
<1>1. /\ legs' = legs /\ job' = job /\ poll' = poll /\ cancel' = cancel /\ submit' = submit
      /\ queue' = [queue EXCEPT ![l] = 1] /\ legs[l].remote /\ status' = status
  BY DEF Retry
<1>2. \A m \in Nr : queue'[m] = queue[m] \/ (m \in DOMAIN legs /\ legs[m].remote)
  BY <1>0, <1>1
<1>3. Rows' /\ NotYet' /\ Couriers' /\ RowsKept /\ RemoteKept
  BY <1>1, <1>2, UnmovedRows
<1>4. queue' \in [Nr -> Nat]
  BY <1>0, <1>1
<1>5. TypeOK'
  BY <1>0, <1>1, <1>4 DEF TypeOK
<1>6. \A v \in Workers : WorkerOK(v)'
  BY <1>1, <1>3, WorkerKept
<1>7. CancelOK'
  BY <1>1, <1>3, CancelKept
<1>8. (\A p \in Pollers : PollOK(p)') /\ (\A p, q \in Pollers : InOrder(p, q)')
  BY <1>1, <1>3, PollsKept
<1> QED BY <1>3, <1>5, <1>6, <1>7, <1>8 DEF CourierInv

LEMMA SubmitFailsKeeps ==
  ASSUME CourierInv, NEW w \in Workers, SubmitFails(w)
  PROVE  CourierInv'
<1> DEFINE l == submit[w].leg
<1>0. /\ TypeOK /\ DOMAIN legs \subseteq Nr
      /\ queue \in [Nr -> Nat]
      /\ submit \in [Workers -> [leg : 0 .. MaxLegs, at : {"idle", "asking", "accepted", "refused"}]]
  BY Types DEF CourierInv
<1>1. l \in DOMAIN legs /\ legs[l].remote
  BY DEF SubmitFails, CourierInv, WorkerOK
<1>2. /\ legs' = legs /\ job' = job /\ poll' = poll /\ cancel' = cancel /\ status' = status
      /\ submit' = [submit EXCEPT ![w] = IdleWorker]
      /\ queue' \in {queue, [queue EXCEPT ![l] = @ + 1]}
  BY DEF SubmitFails
<1> HIDE DEF l
<1>3. \A m \in Nr : queue'[m] = queue[m] \/ (m \in DOMAIN legs /\ legs[m].remote)
  BY <1>0, <1>1, <1>2
<1>4. Rows' /\ NotYet' /\ Couriers' /\ RowsKept /\ RemoteKept
  BY <1>2, <1>3, UnmovedRows
<1>5. queue' \in [Nr -> Nat]
  BY <1>0, <1>1, <1>2
<1>6. submit' \in [Workers -> [leg : 0 .. MaxLegs, at : {"idle", "asking", "accepted", "refused"}]]
  BY <1>0, <1>2, SubmissionAssumption DEF IdleWorker
<1>7. TypeOK'
  BY <1>0, <1>2, <1>5, <1>6 DEF TypeOK
<1>8. \A v \in Workers : WorkerOK(v)'
  BY <1>2, <1>4, IdleKept
<1>9. CancelOK'
  BY <1>2, <1>4, CancelKept
<1>10. (\A p \in Pollers : PollOK(p)') /\ (\A p, q \in Pollers : InOrder(p, q)')
  BY <1>2, <1>4, PollsKept
<1> QED BY <1>4, <1>7, <1>8, <1>9, <1>10 DEF CourierInv

LEMMA RefusalKeeps ==
  ASSUME CourierInv, NEW w \in Workers, CourierRefuses(w)
  PROVE  CourierInv'
<1>0. /\ TypeOK
      /\ submit \in [Workers -> [leg : 0 .. MaxLegs, at : {"idle", "asking", "accepted", "refused"}]]
  BY Types DEF CourierInv
<1>1. /\ legs' = legs /\ job' = job /\ poll' = poll /\ cancel' = cancel /\ status' = status
      /\ queue' = queue
      /\ submit[w].at = "asking" /\ submit' = [submit EXCEPT ![w].at = "refused"]
  BY DEF CourierRefuses, Working
<1>2. Rows' /\ NotYet' /\ Couriers' /\ RowsKept /\ RemoteKept
  BY <1>1, UnmovedRows
<1>3. submit' \in [Workers -> [leg : 0 .. MaxLegs, at : {"idle", "asking", "accepted", "refused"}]]
  BY <1>0, <1>1
<1>4. TypeOK'
  BY <1>0, <1>1, <1>3 DEF TypeOK
<1>5. ASSUME NEW v \in Workers PROVE WorkerOK(v)'
  <2>1. CASE v # w
    BY <1>0, <1>1, <1>2, <2>1, WorkerKept
  <2>2. CASE v = w
    <3>1. submit'[v].leg = submit[v].leg /\ submit'[v].at = "refused"
      BY <1>0, <1>1, <2>2
    <3> QED BY <1>1, <2>2, <3>1 DEF WorkerOK, CourierInv
  <2> QED BY <2>1, <2>2
<1>6. CancelOK'
  BY <1>1, <1>2, CancelKept
<1>7. (\A p \in Pollers : PollOK(p)') /\ (\A p, q \in Pollers : InOrder(p, q)')
  BY <1>1, <1>2, PollsKept
<1> QED BY <1>2, <1>4, <1>5, <1>6, <1>7 DEF CourierInv

LEMMA BeginCancelKeeps ==
  ASSUME CourierInv, NEW l \in DOMAIN legs, BeginCancel(l)
  PROVE  CourierInv'
<1>0. TypeOK /\ DOMAIN legs \subseteq Nr
  BY Types DEF CourierInv
<1>1. /\ legs' = legs /\ job' = job /\ poll' = poll /\ submit' = submit /\ status' = status
      /\ queue' = queue /\ legs[l].remote
      /\ cancel' = [leg |-> l, at |-> IF legs[l].booked THEN "asking" ELSE "closing"]
  BY DEF BeginCancel
<1>2. Rows' /\ NotYet' /\ Couriers' /\ RowsKept /\ RemoteKept
  BY <1>1, UnmovedRows
<1>3. cancel' \in [leg : 0 .. MaxLegs, at : {"idle", "asking", "closing"}]
  <2>1. l \in 0 .. MaxLegs
    BY <1>0 DEF Nr
  <2> QED BY <1>1, <2>1
<1>4. TypeOK'
  BY <1>0, <1>1, <1>3 DEF TypeOK
<1>5. CancelOK'
  BY <1>1 DEF CancelOK
<1>6. \A v \in Workers : WorkerOK(v)'
  BY <1>1, <1>2, WorkerKept
<1>7. (\A p \in Pollers : PollOK(p)') /\ (\A p, q \in Pollers : InOrder(p, q)')
  BY <1>1, <1>2, PollsKept
<1> QED BY <1>2, <1>4, <1>5, <1>6, <1>7 DEF CourierInv

LEMMA NoJobIs ==
  ASSUME NEW j \in Jobs, j.status = NoStatus, j.sequence = 0
  PROVE  j = NoJob
<1>1. j = [status |-> j.status, sequence |-> j.sequence]
  BY DEF Jobs
<1> QED BY <1>1 DEF NoJob

LEMMA ReadJobKeeps ==
  ASSUME CourierInv, NEW p \in Pollers, NEW l \in DOMAIN legs, ReadJob(p, l)
  PROVE  CourierInv'
<1>0. /\ TypeOK /\ DOMAIN legs \subseteq Nr /\ job \in [Nr -> Jobs]
      /\ legs \in Seq(LegRows)
      /\ poll \in [Pollers -> [leg : 0 .. MaxLegs, seen : Jobs]]
  BY Types DEF CourierInv
<1>1. /\ legs' = legs /\ job' = job /\ cancel' = cancel /\ submit' = submit /\ status' = status
      /\ queue' = queue /\ legs[l].booked
      /\ poll' = [poll EXCEPT ![p] = [leg |-> l, seen |-> job[l]]]
  BY DEF ReadJob
<1>2. Rows' /\ NotYet' /\ Couriers' /\ RowsKept /\ RemoteKept
  BY <1>1, UnmovedRows
<1>3. l \in 0 .. MaxLegs /\ l \in Nr /\ job[l] \in Jobs /\ legs[l] \in LegRows
  BY <1>0 DEF Nr
<1>4. poll' \in [Pollers -> [leg : 0 .. MaxLegs, seen : Jobs]]
  BY <1>0, <1>1, <1>3
<1>5. TypeOK'
  BY <1>0, <1>1, <1>4 DEF TypeOK, Jobs
<1>6. CancelOK'
  BY <1>1, <1>2, CancelKept
<1>7. \A v \in Workers : WorkerOK(v)'
  BY <1>1, <1>2, WorkerKept
<1>8. poll'[p].leg = l /\ poll'[p].seen = job[l] /\ \A q \in Pollers : q # p => poll'[q] = poll[q]
  BY <1>0, <1>1
<1>9. RowOK(legs[l], l = Len(legs), queue[l], job[l]) /\ JobOK(job[l])
  BY <1>3 DEF CourierInv, Rows, Couriers
<1>10. /\ job[l].status \in LegStatuses /\ legs[l].status \in LegStatuses
       /\ job[l].sequence \in Nat
  BY <1>1, <1>3, <1>9 DEF RowOK, Jobs, LegRows
<1>11. SeenOK(job[l], legs[l], job[l])
  BY <1>1, <1>9, <1>10, AheadIsAPreorder DEF RowOK, JobOK, SeenOK
<1>12. ASSUME NEW q \in Pollers PROVE PollOK(q)'
  <2>1. CASE q = p
    BY <1>1, <1>8, <1>11, <2>1 DEF PollOK
  <2>2. CASE q # p
    BY <1>1, <1>8, <2>2 DEF PollOK, CourierInv
  <2> QED BY <2>1, <2>2
<1>13. ASSUME NEW q \in Pollers, q # p
       PROVE  InOrder(p, q)' /\ InOrder(q, p)'
  <2>1. CASE poll[q] = IdlePoller \/ poll[q].leg # l
    BY <1>8, <1>13, <2>1 DEF InOrder
  <2>2. CASE poll[q] # IdlePoller /\ poll[q].leg = l
    <3>1. SeenOK(poll[q].seen, legs[l], job[l]) /\ poll[q].seen \in Jobs
      BY <1>0, <2>2 DEF CourierInv, PollOK
    <3>2. job[l].status \in Ahead(poll[q].seen.status)
      BY <3>1 DEF SeenOK
    <3>3. job[l].sequence <= poll[q].seen.sequence => poll[q].seen.status = job[l].status
      BY <1>10, <3>1 DEF SeenOK, Jobs
    <3>4. job[l].status \in Ahead(job[l].status)
      BY <1>10, AheadIsAPreorder
    <3> QED BY <1>8, <1>13, <3>2, <3>3, <3>4 DEF InOrder
  <2> QED BY <2>1, <2>2
<1>14. InOrder(p, p)'
  BY <1>8, <1>10, AheadIsAPreorder DEF InOrder
<1>15. \A q, r \in Pollers : InOrder(q, r)'
  <2> SUFFICES ASSUME NEW q \in Pollers, NEW r \in Pollers PROVE InOrder(q, r)'
    OBVIOUS
  <2>1. CASE q # p /\ r # p
    BY <1>8, <2>1 DEF InOrder, CourierInv
  <2>2. CASE q = p \/ r = p
    BY <1>13, <1>14, <2>2
  <2> QED BY <2>1, <2>2
<1> QED BY <1>2, <1>5, <1>6, <1>7, <1>12, <1>15 DEF CourierInv

(* A courier that moves a delivery forwards, under the next sequence       *)
(* number, leaves the rows and the reports behind it.                      *)
LEMMA CourierMoves ==
  ASSUME CourierInv, NEW l \in DOMAIN legs, NEW to \in LegStatuses,
         job[l].status # NoStatus, to \in Ahead(job[l].status), job[l].sequence < MaxSequence,
         job' = [job EXCEPT ![l] = JobAfter(@, to)],
         legs' = legs, queue' = queue, poll' = poll, submit' = submit
  PROVE  /\ job' \in [Nr -> Jobs] /\ job'[l].status = to
         /\ Rows' /\ NotYet' /\ Couriers' /\ RemoteKept
         /\ \A w \in Workers : WorkerOK(w)'
         /\ \A p \in Pollers : PollOK(p)'
         /\ \A p, q \in Pollers : InOrder(p, q)'
<1> DEFINE j == JobAfter(job[l], to)
<1>0. /\ DOMAIN legs \subseteq Nr /\ job \in [Nr -> Jobs] /\ legs \in Seq(LegRows)
      /\ poll \in [Pollers -> [leg : 0 .. MaxLegs, seen : Jobs]]
  BY Types DEF CourierInv
<1>1. /\ j.status = to /\ j.sequence = job[l].sequence + 1
      /\ job[l].sequence \in 0 .. MaxSequence /\ j \in Jobs
      /\ job[l].status \in LegStatuses
  <2>1. job[l] \in Jobs
    BY <1>0
  <2>2. job[l].sequence \in 0 .. MaxSequence
    BY <2>1 DEF Jobs
  <2>3. job[l].sequence + 1 \in 0 .. MaxSequence
    BY <2>2, SubmissionAssumption
  <2> QED BY <2>1, <2>2, <2>3 DEF JobAfter, Jobs
<1>2. job' = [job EXCEPT ![l] = j]
  OBVIOUS
<1> HIDE DEF j
<1>3. /\ l \in Nr /\ job' \in [Nr -> Jobs] /\ job'[l] = j
      /\ \A m \in Nr : m # l => job'[m] = job[m]
  BY <1>0, <1>1, <1>2
<1>4. to # NoStatus
  BY DEF LegStatuses, NoStatus
<1>5. ASSUME NEW s \in LegStatuses, job[l].status \in Ahead(s) PROVE to \in Ahead(s)
  BY <1>5, AheadIsAPreorder
<1>6. Rows'
  <2> SUFFICES ASSUME NEW m \in DOMAIN legs
               PROVE  RowOK(legs[m], m = Len(legs), queue[m], job'[m])
    BY DEF Rows
  <2>1. RowOK(legs[m], m = Len(legs), queue[m], job[m])
    BY DEF CourierInv, Rows
  <2>2. CASE m # l
    BY <1>0, <1>3, <2>1, <2>2
  <2>3. CASE m = l
    <3>1. legs[l] \in LegRows
      BY <1>0
    <3>2. legs[l].sequence \in Nat /\ legs[l].status \in LegStatuses
      BY <3>1 DEF LegRows
    <3>3. legs[l].sequence < j.sequence
      BY <1>1, <2>1, <2>3, <3>2 DEF RowOK
    <3>4. legs[l].status # "cancelled" => to \in Ahead(legs[l].status)
      BY <1>5, <2>1, <2>3, <3>2 DEF RowOK
    <3> QED BY <1>1, <1>3, <1>4, <2>1, <2>3, <3>2, <3>3, <3>4 DEF RowOK
  <2> QED BY <2>2, <2>3
<1>7. NotYet'
  <2> SUFFICES ASSUME NEW m \in Nr, m > Len(legs)
               PROVE  queue[m] = 0 /\ job'[m].status = NoStatus
    BY DEF NotYet
  <2>1. queue[m] = 0 /\ job[m].status = NoStatus
    BY DEF CourierInv, NotYet
  <2> QED BY <1>3, <2>1
<1>8. Couriers'
  BY <1>1, <1>3, <1>4 DEF CourierInv, Couriers, JobOK
<1>9. RemoteKept
  BY DEF RemoteKept
<1>10. ASSUME NEW w \in Workers PROVE WorkerOK(w)'
  <2>1. CASE submit[w].leg = l
    BY <1>1, <1>3, <1>4, <1>9, <2>1, WorkerKept
  <2>2. CASE submit[w].leg # l
    <3>1. submit[w].at # "idle" => submit[w].leg \in Nr
      BY <1>0 DEF CourierInv, WorkerOK
    <3>2. submit[w].at = "accepted" => job'[submit[w].leg] = job[submit[w].leg]
      BY <1>3, <2>2, <3>1
    <3> QED BY <1>9, <3>2, WorkerKept
  <2> QED BY <2>1, <2>2
<1>11. ASSUME NEW p \in Pollers PROVE PollOK(p)'
  <2>1. CASE poll[p] = IdlePoller
    BY <2>1 DEF PollOK
  <2>2. CASE poll[p] # IdlePoller
    <3> DEFINE seen == poll[p].seen
               m == poll[p].leg
    <3>1. m \in DOMAIN legs /\ SeenOK(seen, legs[m], job[m]) /\ seen \in Jobs
      BY <1>0, <2>2 DEF CourierInv, PollOK
    <3>2. CASE m # l
      BY <1>0, <1>3, <2>2, <3>1, <3>2 DEF PollOK
    <3>3. CASE m = l
      <4>1. seen.status \in LegStatuses /\ seen.sequence \in Nat
        BY <3>1 DEF SeenOK, Jobs
      <4>2. to \in Ahead(seen.status) /\ seen.sequence < j.sequence
        BY <1>1, <1>5, <3>1, <3>3, <4>1 DEF SeenOK
      <4>3. SeenOK(seen, legs[m], j)
        BY <1>1, <3>1, <4>1, <4>2 DEF SeenOK
      <4> QED BY <1>3, <3>1, <3>3, <4>3 DEF PollOK
    <3> QED BY <3>2, <3>3
  <2> QED BY <2>1, <2>2
<1>12. \A p, q \in Pollers : InOrder(p, q)'
  BY DEF CourierInv, InOrder
<1> QED BY <1>1, <1>3, <1>6, <1>7, <1>8, <1>9, <1>10, <1>11, <1>12

LEMMA ProgressKeeps ==
  ASSUME CourierInv, NEW l \in DOMAIN legs, NEW event, CourierProgresses(l, event)
  PROVE  CourierInv'
<1> DEFINE to == NextLegStatus(job[l].status, event)
<1>1. /\ legs' = legs /\ poll' = poll /\ submit' = submit /\ status' = status
      /\ queue' = queue /\ cancel' = cancel /\ job[l].sequence < MaxSequence
      /\ job' = [job EXCEPT ![l] = JobAfter(@, to)] /\ to # NoStatus
  BY DEF CourierProgresses
<1>2. Moved(job[l].status, event, to)
  BY <1>1, LegMoves
<1> HIDE DEF to
<1>3. job[l].status \in ActiveLegStatuses /\ to \in LegStatuses
  BY <1>2, OneMove
<1>4. job[l].status \in LegStatuses /\ job[l].status # NoStatus
  BY <1>3 DEF ActiveLegStatuses, LegStatuses, NoStatus
<1>5. to \in Ahead(job[l].status)
  BY <1>2, <1>4, AheadIsAPreorder
<1>6. /\ job' \in [Nr -> Jobs]
      /\ Rows' /\ NotYet' /\ Couriers' /\ RemoteKept
      /\ \A w \in Workers : WorkerOK(w)'
      /\ \A p \in Pollers : PollOK(p)'
      /\ \A p, q \in Pollers : InOrder(p, q)'
  BY <1>1, <1>3, <1>4, <1>5, CourierMoves
<1>7. CancelOK'
  BY <1>1, <1>6, CancelKept
<1>8. TypeOK'
  BY <1>1, <1>6 DEF CourierInv, TypeOK, Jobs
<1> QED BY <1>6, <1>7, <1>8 DEF CourierInv

LEMMA CourierCancelsKeeps ==
  ASSUME CourierInv, CourierCancels
  PROVE  CourierInv'
<1> DEFINE l == cancel.leg
           open == job[l].status \in {"requested", "assigned"}
<1>0. /\ TypeOK /\ CancelOK
      /\ cancel \in [leg : 0 .. MaxLegs, at : {"idle", "asking", "closing"}]
  BY DEF CourierInv, TypeOK
<1>1. /\ legs' = legs /\ poll' = poll /\ submit' = submit /\ status' = status
      /\ queue' = queue /\ cancel.at = "asking"
      /\ open => job[l].sequence < MaxSequence /\ job' = [job EXCEPT ![l] = JobAfter(@, "cancelled")]
      /\ ~open => job' = job
      /\ \/ cancel' = [cancel EXCEPT !.at = "closing"]
         \/ cancel' = NoCancel
  BY DEF CourierCancels
<1>2. l \in DOMAIN legs /\ legs[l].remote
  BY <1>0, <1>1 DEF CancelOK
<1>3. CancelOK' /\ cancel' \in [leg : 0 .. MaxLegs, at : {"idle", "asking", "closing"}]
  <2>1. CASE cancel' = [cancel EXCEPT !.at = "closing"]
    <3>1. cancel'.leg = l
      BY <1>0, <2>1
    <3> QED BY <1>0, <1>1, <1>2, <2>1, <3>1 DEF CancelOK
  <2>2. CASE cancel' = NoCancel
    BY <2>2, SubmissionAssumption DEF CancelOK, NoCancel
  <2> QED BY <1>1, <2>1, <2>2
<1>4. CASE open
  <2>1. /\ "cancelled" \in Ahead(job[l].status) /\ "cancelled" \in LegStatuses
        /\ job[l].status # NoStatus
    BY <1>4 DEF Ahead, LegStatuses, NoStatus
  <2>2. /\ job' \in [Nr -> Jobs]
        /\ Rows' /\ NotYet' /\ Couriers' /\ RemoteKept
        /\ \A w \in Workers : WorkerOK(w)'
        /\ \A p \in Pollers : PollOK(p)'
        /\ \A p, q \in Pollers : InOrder(p, q)'
    BY <1>1, <1>2, <1>4, <2>1, CourierMoves
  <2>3. TypeOK'
    BY <1>0, <1>1, <1>3, <2>2 DEF TypeOK, Jobs
  <2> QED BY <1>3, <2>2, <2>3 DEF CourierInv
<1>5. CASE ~open
  <2> HIDE DEF open, l
  <2>1. Rows' /\ NotYet' /\ Couriers' /\ RowsKept /\ RemoteKept
    BY <1>1, <1>5, UnmovedRows
  <2>2. \A v \in Workers : WorkerOK(v)'
    BY <1>1, <1>5, <2>1, WorkerKept
  <2>3. (\A p \in Pollers : PollOK(p)') /\ (\A p, q \in Pollers : InOrder(p, q)')
    BY <1>1, <1>5, <2>1, PollsKept
  <2>4. TypeOK'
    BY <1>0, <1>1, <1>3, <1>5 DEF TypeOK
  <2> QED BY <1>3, <2>1, <2>2, <2>3, <2>4 DEF CourierInv
<1> QED BY <1>4, <1>5

(* Where an order can be after an event, or that the event throws. *)
LEMMA MovesTypes ==
  ASSUME NEW s \in OrderStatuses \cup {Rolled}, NEW e
  PROVE  Moves(s, e) \in OrderStatuses \cup {Rolled}
BY DEF Moves, OrderStatuses, Rolled

LEMMA PathTypes ==
  ASSUME NEW from \in LegStatuses, NEW to \in LegStatuses
  PROVE  EventsToReach(from, to) \in Seq(DeliveryEvents) /\ Len(EventsToReach(from, to)) \in 0 .. 4
<1>1. CASE from = to \/ Found(from, to) = {}
  <2>1. EventsToReach(from, to) = << >>
    BY <1>1, TheCatchUp
  <2> QED BY <2>1
<1>2. CASE from # to /\ Found(from, to) # {}
  <2>1. PICK n \in 1 .. MaxCatchUp :
          \E w \in Walks(from, MaxCatchUp)[n] : w.at = to /\ EventsToReach(from, to) = w.path
    BY <1>2, TheCatchUp
  <2>2. PICK w \in Walks(from, MaxCatchUp)[n] : w.at = to /\ EventsToReach(from, to) = w.path
    BY <2>1
  <2>3. w.path \in Seq(DeliveryEvents) /\ Len(w.path) = n
    BY AllWalks DEF IsWalk
  <2> QED BY <2>2, <2>3 DEF MaxCatchUp
<1> QED BY <1>1, <1>2

LEMMA OrderAfterTypes ==
  ASSUME NEW p \in Seq(DeliveryEvents), Len(p) \in 0 .. 4, status \in OrderStatuses
  PROVE  OrderAfter(p) \in OrderStatuses \cup {Rolled}
<1>1. Len(p) = 0 \/ Len(p) = 1 \/ Len(p) = 2 \/ Len(p) = 3 \/ Len(p) = 4
  BY UpToFour
<1>2. status \in OrderStatuses \cup {Rolled}
  OBVIOUS
<1> DEFINE s1 == Moves(status, p[1])
           s2 == Moves(s1, p[2])
           s3 == Moves(s2, p[3])
           s4 == Moves(s3, p[4])
<1>3. s1 \in OrderStatuses \cup {Rolled}
  BY <1>2, MovesTypes
<1>4. s2 \in OrderStatuses \cup {Rolled}
  BY <1>3, MovesTypes
<1>5. s3 \in OrderStatuses \cup {Rolled}
  BY <1>4, MovesTypes
<1>6. s4 \in OrderStatuses \cup {Rolled}
  BY <1>5, MovesTypes
<1>7. /\ Len(p) = 0 => OrderAfter(p) = status
      /\ Len(p) = 1 => OrderAfter(p) = s1
      /\ Len(p) = 2 => OrderAfter(p) = s2
      /\ Len(p) = 3 => OrderAfter(p) = s3
      /\ Len(p) = 4 => OrderAfter(p) = s4
  BY OrderAfterEvents
<1> HIDE DEF s1, s2, s3, s4
<1> QED BY <1>1, <1>2, <1>3, <1>4, <1>5, <1>6, <1>7

LEMMA OneEvent ==
  ASSUME NEW e \in DeliveryEvents
  PROVE  /\ OrderAfter(<<e>>) = Moves(status, e)
         /\ status \in OrderStatuses => OrderAfter(<<e>>) \in OrderStatuses \cup {Rolled}
<1> DEFINE p == <<e>>
<1>1. p \in Seq(DeliveryEvents) /\ Len(p) = 1 /\ p[1] = e /\ Len(p) \in 0 .. 4
  OBVIOUS
<1> HIDE DEF p
<1>2. OrderAfter(p) = Moves(status, e)
  BY <1>1, OrderAfterEvents
<1>3. status \in OrderStatuses => OrderAfter(p) \in OrderStatuses \cup {Rolled}
  BY <1>1, OrderAfterTypes
<1> QED BY <1>2, <1>3 DEF p

LEMMA AcceptanceKeeps ==
  ASSUME CourierInv, NEW w \in Workers, CourierAccepts(w)
  PROVE  CourierInv'
<1> DEFINE l == submit[w].leg
           j == [status |-> "requested", sequence |-> 1]
<1>0. /\ TypeOK /\ DOMAIN legs \subseteq Nr /\ job \in [Nr -> Jobs] /\ legs \in Seq(LegRows)
      /\ submit \in [Workers -> [leg : 0 .. MaxLegs, at : {"idle", "asking", "accepted", "refused"}]]
      /\ poll \in [Pollers -> [leg : 0 .. MaxLegs, seen : Jobs]]
  BY Types DEF CourierInv
<1>1. /\ legs' = legs /\ poll' = poll /\ status' = status /\ queue' = queue /\ cancel' = cancel
      /\ submit[w].at = "asking"
      /\ job' = IF job[l] = NoJob THEN [job EXCEPT ![l] = j] ELSE job
      /\ submit' = [submit EXCEPT ![w].at = "accepted"]
  BY DEF CourierAccepts, Working
<1>2. l \in DOMAIN legs /\ legs[l].remote /\ l \in Nr
  BY <1>0, <1>1 DEF CourierInv, WorkerOK
<1>3. j \in Jobs /\ j.status = "requested" /\ j.sequence = 1 /\ j.status # NoStatus
  BY SubmissionAssumption DEF Jobs, LegStatuses, NoStatus
<1> HIDE DEF j, l
<1>4. job' \in [Nr -> Jobs] /\ job'[l].status # NoStatus
  <2>1. CASE job[l] = NoJob
    BY <1>0, <1>1, <1>2, <1>3, <2>1
  <2>2. CASE job[l] # NoJob
    <3>1. job[l] \in Jobs /\ JobOK(job[l])
      BY <1>0, <1>2 DEF CourierInv, Couriers
    <3>2. job[l].status # NoStatus
      BY <2>2, <3>1, NoJobIs DEF JobOK
    <3> QED BY <1>0, <1>1, <2>2, <3>2
  <2> QED BY <2>1, <2>2
<1>5. submit' \in [Workers -> [leg : 0 .. MaxLegs, at : {"idle", "asking", "accepted", "refused"}]]
  BY <1>0, <1>1
<1>6. TypeOK'
  BY <1>0, <1>1, <1>4, <1>5 DEF TypeOK, Jobs
<1>7. RemoteKept /\ RowsKept
  BY <1>1 DEF RemoteKept, RowsKept, Kept
<1>8. CancelOK'
  BY <1>1, <1>7, CancelKept
<1>9. \A m \in Nr : job'[m] = job[m] \/ (m = l /\ job'[m] = j /\ job[m].status = NoStatus)
  BY <1>0, <1>1, <1>2 DEF NoJob
<1>10. ASSUME NEW v \in Workers PROVE WorkerOK(v)'
  <2>1. CASE v = w
    <3>1. submit'[v].leg = l /\ submit'[v].at = "accepted"
      BY <1>0, <1>1, <2>1 DEF l
    <3> QED BY <1>1, <1>2, <1>4, <3>1 DEF WorkerOK
  <2>2. CASE v # w
    <3>1. submit'[v] = submit[v]
      BY <1>0, <1>1, <2>2
    <3>2. submit[v].at # "idle" => submit[v].leg \in Nr
      BY <1>0 DEF CourierInv, WorkerOK
    <3>3. submit[v].at = "accepted" =>
            job'[submit[v].leg].status # NoStatus \/ job'[submit[v].leg] = job[submit[v].leg]
      BY <1>3, <1>9, <3>2
    <3> QED BY <1>7, <3>1, <3>3, WorkerKept
  <2> QED BY <2>1, <2>2
<1>11. Rows'
  <2> SUFFICES ASSUME NEW m \in DOMAIN legs
               PROVE  RowOK(legs[m], m = Len(legs), queue[m], job'[m])
    BY <1>1 DEF Rows
  <2>1. RowOK(legs[m], m = Len(legs), queue[m], job[m]) /\ m \in Nr
    BY <1>0 DEF CourierInv, Rows
  <2>2. CASE job'[m] = job[m]
    BY <2>1, <2>2
  <2>3. CASE m = l /\ job'[m] = j /\ job[m].status = NoStatus
    <3>1. ~legs[l].booked /\ legs[l].status \in {"requested", "cancelled"} /\ legs[l].sequence = 0
      BY <1>2, <2>1, <2>3 DEF RowOK
    <3>2. "requested" \in Ahead("requested")
      BY DEF Ahead, LegStatuses
    <3> QED BY <1>2, <1>3, <2>1, <2>3, <3>1, <3>2 DEF RowOK
  <2> QED BY <1>9, <2>1, <2>2, <2>3
<1>12. NotYet'
  <2> SUFFICES ASSUME NEW m \in Nr, m > Len(legs)
               PROVE  queue[m] = 0 /\ job'[m].status = NoStatus
    BY <1>1 DEF NotYet
  <2>1. m # l
    BY <1>0, <1>2 DEF Nr
  <2> QED BY <1>9, <2>1 DEF CourierInv, NotYet
<1>13. Couriers'
  BY <1>3, <1>9 DEF CourierInv, Couriers, JobOK
<1>14. ASSUME NEW p \in Pollers PROVE PollOK(p)'
  <2>1. CASE poll[p] = IdlePoller
    BY <1>1, <2>1 DEF PollOK
  <2>2. CASE poll[p] # IdlePoller
    <3> DEFINE m == poll[p].leg
    <3>1. m \in DOMAIN legs /\ SeenOK(poll[p].seen, legs[m], job[m])
      BY <2>2 DEF CourierInv, PollOK
    <3>2. RowOK(legs[m], m = Len(legs), queue[m], job[m]) /\ m \in Nr
      BY <1>0, <3>1 DEF CourierInv, Rows
    <3>3. job'[m] = job[m]
      BY <1>9, <3>1, <3>2 DEF SeenOK, RowOK
    <3> QED BY <1>1, <3>1, <3>3 DEF PollOK
  <2> QED BY <2>1, <2>2
<1>15. \A p, q \in Pollers : InOrder(p, q)'
  BY <1>1 DEF CourierInv, InOrder
<1> QED BY <1>6, <1>8, <1>10, <1>11, <1>12, <1>13, <1>14, <1>15 DEF CourierInv

LEMMA RecordAcceptedKeeps ==
  ASSUME CourierInv, NEW w \in Workers, RecordAccepted(w)
  PROVE  CourierInv' /\ RowsKept
<1> DEFINE l == submit[w].leg
<1>0. /\ TypeOK /\ DOMAIN legs \subseteq Nr /\ job \in [Nr -> Jobs] /\ legs \in Seq(LegRows)
      /\ Len(legs) \in Nr
      /\ submit \in [Workers -> [leg : 0 .. MaxLegs, at : {"idle", "asking", "accepted", "refused"}]]
  BY Types DEF CourierInv
<1>1. /\ poll' = poll /\ status' = status /\ queue' = queue /\ cancel' = cancel /\ job' = job
      /\ submit[w].at = "accepted"
      /\ legs' = [legs EXCEPT ![l].booked = TRUE]
      /\ submit' = [submit EXCEPT ![w] = IdleWorker]
  BY DEF RecordAccepted, Working
<1>2. l \in DOMAIN legs /\ legs[l].remote /\ job[l].status # NoStatus
  BY <1>1 DEF CourierInv, WorkerOK
<1> HIDE DEF l
<1>3. /\ legs' \in Seq(LegRows) /\ Len(legs') = Len(legs) /\ DOMAIN legs' = DOMAIN legs
      /\ \A m \in DOMAIN legs : m # l => legs'[m] = legs[m]
      /\ legs'[l] = [legs[l] EXCEPT !.booked = TRUE] /\ legs[l] \in LegRows
  <2>1. legs[l] \in LegRows
    BY <1>0, <1>2
  <2> DEFINE r == [legs[l] EXCEPT !.booked = TRUE]
  <2>2. r \in LegRows
    BY <2>1 DEF LegRows
  <2>3. legs' = [legs EXCEPT ![l] = r]
    BY <1>1, <1>2
  <2> HIDE DEF r
  <2>4. /\ legs' \in Seq(LegRows) /\ Len(legs') = Len(legs) /\ DOMAIN legs' = DOMAIN legs
        /\ \A m \in DOMAIN legs : m # l => legs'[m] = legs[m]
        /\ legs'[l] = r
    BY <1>0, <1>2, <2>2, <2>3
  <2> QED BY <2>1, <2>4 DEF r
<1>4. /\ legs'[l].remote = legs[l].remote /\ legs'[l].status = legs[l].status
      /\ legs'[l].sequence = legs[l].sequence /\ legs'[l].booked
  BY <1>3 DEF LegRows
<1>5. RowsKept /\ RemoteKept
  BY <1>3, <1>4 DEF RowsKept, RemoteKept, Kept
<1>6. submit' \in [Workers -> [leg : 0 .. MaxLegs, at : {"idle", "asking", "accepted", "refused"}]]
  BY <1>0, <1>1, SubmissionAssumption DEF IdleWorker
<1>7. TypeOK'
  BY <1>0, <1>1, <1>3, <1>6 DEF TypeOK, LegRows
<1>8. Rows'
  <2> SUFFICES ASSUME NEW m \in DOMAIN legs
               PROVE  RowOK(legs'[m], m = Len(legs), queue[m], job[m])
    BY <1>1, <1>3 DEF Rows
  <2>1. RowOK(legs[m], m = Len(legs), queue[m], job[m])
    BY DEF CourierInv, Rows
  <2> QED BY <1>2, <1>3, <1>4, <2>1 DEF RowOK
<1>9. NotYet' /\ Couriers'
  BY <1>1, <1>3 DEF CourierInv, NotYet, Couriers
<1>10. CancelOK'
  BY <1>1, <1>5, CancelKept
<1>11. \A v \in Workers : WorkerOK(v)'
  BY <1>1, <1>5, IdleKept
<1>12. (\A p \in Pollers : PollOK(p)') /\ (\A p, q \in Pollers : InOrder(p, q)')
  BY <1>1, <1>5, PollsKept
<1> QED BY <1>5, <1>7, <1>8, <1>9, <1>10, <1>11, <1>12 DEF CourierInv

(* Replacing one row and dispatching. *)
LEMMA OneRow ==
  ASSUME TypeOK, NEW l \in DOMAIN legs, NEW r \in LegRows
  PROVE  /\ [legs EXCEPT ![l] = r] \in Seq(LegRows)
         /\ Len([legs EXCEPT ![l] = r]) = Len(legs)
         /\ DOMAIN [legs EXCEPT ![l] = r] = DOMAIN legs
         /\ [legs EXCEPT ![l] = r][l] = r
         /\ \A m \in DOMAIN legs : m # l => [legs EXCEPT ![l] = r][m] = legs[m]
BY Types

LEMMA RowReplaced ==
  ASSUME CourierInv, NEW l \in DOMAIN legs, NEW r \in LegRows, job' = job,
         RowOK(r, l = Len(legs), queue[l], job[l]), Dispatch([legs EXCEPT ![l] = r])
  PROVE  /\ legs' \in Seq(LegRows) /\ Len(legs') \in Nr /\ queue' \in [Nr -> Nat]
         /\ Rows' /\ NotYet' /\ Couriers'
         /\ l \in DOMAIN legs' /\ legs'[l] = r
         /\ \A m \in DOMAIN legs : m # l => m \in DOMAIN legs' /\ legs'[m] = legs[m]
<1> DEFINE rows == [legs EXCEPT ![l] = r]
<1>0. /\ TypeOK /\ DOMAIN legs \subseteq Nr /\ job \in [Nr -> Jobs] /\ Len(legs) \in Nr
      /\ queue \in [Nr -> Nat] /\ Couriers /\ NotYet
  BY Types DEF CourierInv
<1>1. /\ rows \in Seq(LegRows) /\ Len(rows) = Len(legs) /\ DOMAIN rows = DOMAIN legs
      /\ rows[l] = r /\ \A m \in DOMAIN legs : m # l => rows[m] = legs[m]
  BY <1>0, OneRow
<1>2. Dispatch(rows)
  OBVIOUS
<1> HIDE DEF rows
<1>3. \A m \in DOMAIN rows : RowOK(rows[m], m = Len(rows), queue[m], job[m])
  BY <1>1 DEF CourierInv, Rows
<1>4. \A m \in Nr : m > Len(rows) => queue[m] = 0 /\ job[m].status = NoStatus
  BY <1>0, <1>1 DEF NotYet
<1>5. /\ legs' \in Seq(LegRows) /\ Len(legs') \in Nr /\ queue' \in [Nr -> Nat]
      /\ Rows' /\ NotYet'
      /\ \A m \in DOMAIN rows : m \in DOMAIN legs' /\ legs'[m] = rows[m] /\ queue'[m] = queue[m]
  BY <1>0, <1>1, <1>2, <1>3, <1>4, AfterDispatch
<1>6. Couriers'
  BY <1>0 DEF Couriers
<1> QED BY <1>1, <1>5, <1>6

(* Closing a leg, and what dispatch makes of it. *)
LEMMA LegClosed ==
  ASSUME CourierInv, NEW l \in DOMAIN legs, job' = job,
         Dispatch([legs EXCEPT ![l].status = "cancelled"])
  PROVE  /\ legs' \in Seq(LegRows) /\ Len(legs') \in Nr /\ queue' \in [Nr -> Nat]
         /\ Rows' /\ NotYet' /\ Couriers' /\ RowsKept /\ RemoteKept
<1> DEFINE r == [legs[l] EXCEPT !.status = "cancelled"]
<1>1. legs[l] \in LegRows /\ TypeOK
  BY Types DEF CourierInv
<1>2. /\ r \in LegRows /\ r.status = "cancelled" /\ r.remote = legs[l].remote
      /\ r.booked = legs[l].booked /\ r.sequence = legs[l].sequence
  BY <1>1 DEF LegRows, LegStatuses
<1>3. Dispatch([legs EXCEPT ![l] = r])
  <2>1. [legs EXCEPT ![l].status = "cancelled"] = [legs EXCEPT ![l] = r]
    OBVIOUS
  <2> QED BY <2>1
<1> HIDE DEF r
<1>4. RowOK(legs[l], l = Len(legs), queue[l], job[l])
  BY DEF CourierInv, Rows
<1>5. RowOK(r, l = Len(legs), queue[l], job[l])
  BY <1>2, <1>4 DEF RowOK, ActiveLegStatuses
<1>6. /\ legs' \in Seq(LegRows) /\ Len(legs') \in Nr /\ queue' \in [Nr -> Nat]
      /\ Rows' /\ NotYet' /\ Couriers'
      /\ l \in DOMAIN legs' /\ legs'[l] = r
      /\ \A m \in DOMAIN legs : m # l => m \in DOMAIN legs' /\ legs'[m] = legs[m]
  BY <1>2, <1>3, <1>5, RowReplaced
<1>7. ASSUME NEW m \in DOMAIN legs PROVE m \in DOMAIN legs' /\ Kept(legs[m], legs'[m])
  BY <1>2, <1>6 DEF Kept
<1>8. RowsKept /\ RemoteKept
  BY <1>7 DEF RowsKept, RemoteKept, Kept
<1> QED BY <1>6, <1>8

LEMMA RecordRefusedKeeps ==
  ASSUME CourierInv, NEW w \in Workers, RecordRefused(w)
  PROVE  CourierInv' /\ RowsKept
<1> DEFINE l == submit[w].leg
<1>0. /\ TypeOK
      /\ submit \in [Workers -> [leg : 0 .. MaxLegs, at : {"idle", "asking", "accepted", "refused"}]]
  BY Types DEF CourierInv
<1>1. /\ poll' = poll /\ status' = status /\ cancel' = cancel /\ job' = job
      /\ submit[w].at = "refused" /\ Dispatch([legs EXCEPT ![l].status = "cancelled"])
      /\ submit' = [submit EXCEPT ![w] = IdleWorker]
  BY DEF RecordRefused, Working
<1>2. l \in DOMAIN legs
  BY <1>1 DEF CourierInv, WorkerOK
<1> HIDE DEF l
<1>3. /\ legs' \in Seq(LegRows) /\ Len(legs') \in Nr /\ queue' \in [Nr -> Nat]
      /\ Rows' /\ NotYet' /\ Couriers' /\ RowsKept /\ RemoteKept
  BY <1>1, <1>2, LegClosed
<1>4. submit' \in [Workers -> [leg : 0 .. MaxLegs, at : {"idle", "asking", "accepted", "refused"}]]
  BY <1>0, <1>1, SubmissionAssumption DEF IdleWorker
<1>5. TypeOK'
  BY <1>0, <1>1, <1>3, <1>4 DEF TypeOK, LegRows
<1>6. CancelOK'
  BY <1>1, <1>3, CancelKept
<1>7. \A v \in Workers : WorkerOK(v)'
  BY <1>1, <1>3, IdleKept
<1>8. (\A p \in Pollers : PollOK(p)') /\ (\A p, q \in Pollers : InOrder(p, q)')
  BY <1>1, <1>3, PollsKept
<1> QED BY <1>3, <1>5, <1>6, <1>7, <1>8 DEF CourierInv

LEMMA CancelLegKeeps ==
  ASSUME CourierInv, CancelLeg
  PROVE  CourierInv' /\ RowsKept
<1> DEFINE l == cancel.leg
<1>0. TypeOK /\ CancelOK /\ status \in OrderStatuses
  BY DEF CourierInv, TypeOK
<1>1. /\ poll' = poll /\ job' = job /\ submit' = submit /\ cancel' = NoCancel
      /\ cancel.at = "closing"
      /\ \/ status' = status /\ legs' = legs /\ queue' = queue
         \/ /\ status' = OrderAfter(<<"cancelled">>)
            /\ Dispatch([legs EXCEPT ![l].status = "cancelled"])
  BY DEF CancelLeg
<1>2. l \in DOMAIN legs
  BY <1>0, <1>1 DEF CancelOK
<1> HIDE DEF l
<1>3. /\ legs' \in Seq(LegRows) /\ Len(legs') \in Nr /\ queue' \in [Nr -> Nat]
      /\ Rows' /\ NotYet' /\ Couriers' /\ RowsKept /\ RemoteKept
  <2>1. CASE legs' = legs /\ queue' = queue
    BY <1>0, <1>1, <2>1, UnmovedRows, Types
  <2>2. CASE Dispatch([legs EXCEPT ![l].status = "cancelled"])
    BY <1>1, <1>2, <2>2, LegClosed
  <2> QED BY <1>1, <2>1, <2>2
<1>4. status' \in OrderStatuses
  <2>1. Moved("requested", "cancelled", "cancelled")
    BY DEF Moved
  <2>2. OrderAfter(<<"cancelled">>) = Moves(status, "cancelled")
    BY <2>1, MovesLeg, OneEvent
  <2>3. Moves(status, "cancelled") \in OrderStatuses
    BY <1>0 DEF Moves, OrderStatuses
  <2> QED BY <1>0, <1>1, <2>2, <2>3
<1>5. cancel' \in [leg : 0 .. MaxLegs, at : {"idle", "asking", "closing"}] /\ CancelOK'
  BY <1>1, SubmissionAssumption DEF NoCancel, CancelOK
<1>6. TypeOK'
  BY <1>0, <1>1, <1>3, <1>4, <1>5 DEF TypeOK, LegRows
<1>7. \A v \in Workers : WorkerOK(v)'
  BY <1>1, <1>3, WorkerKept
<1>8. (\A p \in Pollers : PollOK(p)') /\ (\A p, q \in Pollers : InOrder(p, q)')
  BY <1>1, <1>3, PollsKept
<1> QED BY <1>3, <1>5, <1>6, <1>7, <1>8 DEF CourierInv

LEMMA PoolKeeps ==
  ASSUME CourierInv, NEW l \in DOMAIN legs, NEW event \in DeliveryEvents, PoolProgresses(l, event)
  PROVE  CourierInv'
<1> DEFINE to == NextLegStatus(legs[l].status, event)
           r == [legs[l] EXCEPT !.status = to]
<1>0. /\ TypeOK /\ DOMAIN legs \subseteq Nr /\ job \in [Nr -> Jobs] /\ legs \in Seq(LegRows)
      /\ Len(legs) \in Nr /\ legs[l] \in LegRows /\ status \in OrderStatuses
  BY Types DEF CourierInv, TypeOK
<1>1. /\ poll' = poll /\ submit' = submit /\ queue' = queue /\ cancel' = cancel /\ job' = job
      /\ ~legs[l].remote /\ to # NoStatus
      /\ legs' = [legs EXCEPT ![l] = r] /\ status' = OrderAfter(<<event>>)
      /\ OrderAfter(<<event>>) # Rolled
  BY DEF PoolProgresses
<1>2. Moved(legs[l].status, event, to)
  BY <1>1, LegMoves
<1> HIDE DEF to
<1>3. legs[l].status \in ActiveLegStatuses /\ to \in LegStatuses
  BY <1>2, OneMove
<1>4. /\ r \in LegRows /\ r.status = to /\ r.remote = legs[l].remote
      /\ r.booked = legs[l].booked /\ r.sequence = legs[l].sequence
  BY <1>0, <1>3 DEF LegRows
<1> HIDE DEF r
<1>5. /\ legs' \in Seq(LegRows) /\ Len(legs') = Len(legs) /\ DOMAIN legs' = DOMAIN legs
      /\ legs'[l] = r /\ \A m \in DOMAIN legs : m # l => legs'[m] = legs[m]
  BY <1>0, <1>1, <1>4, OneRow
<1>6. RowOK(legs[l], l = Len(legs), queue[l], job[l]) /\ JobOK(job[l])
  BY <1>0 DEF CourierInv, Rows, Couriers
<1>7. job[l].status = NoStatus /\ job[l].sequence = 0 /\ legs[l].sequence = 0
  <2>1. job[l].status = NoStatus /\ job[l].sequence = 0
    BY <1>1, <1>6 DEF RowOK, JobOK
  <2>2. legs[l].sequence \in Nat /\ legs[l].sequence <= 0
    BY <1>0, <1>6, <2>1 DEF RowOK, LegRows
  <2> QED BY <2>1, <2>2
<1>8. RowOK(r, l = Len(legs), queue[l], job[l])
  BY <1>1, <1>3, <1>4, <1>6, <1>7 DEF RowOK
<1>9. Rows'
  BY <1>1, <1>5, <1>8 DEF CourierInv, Rows
<1>10. NotYet' /\ Couriers'
  BY <1>1, <1>5 DEF CourierInv, NotYet, Couriers
<1>11. status' \in OrderStatuses
  BY <1>0, <1>1, OneEvent
<1>12. TypeOK'
  BY <1>0, <1>1, <1>5, <1>11 DEF TypeOK, LegRows
<1>13. RemoteKept
  BY <1>4, <1>5 DEF RemoteKept
<1>14. CancelOK'
  BY <1>1, <1>13, CancelKept
<1>15. \A v \in Workers : WorkerOK(v)'
  BY <1>1, <1>13, WorkerKept
<1>16. ASSUME NEW p \in Pollers PROVE PollOK(p)'
  <2>1. CASE poll[p] = IdlePoller
    BY <1>1, <2>1 DEF PollOK
  <2>2. CASE poll[p] # IdlePoller
    <3> DEFINE m == poll[p].leg
    <3>1. m \in DOMAIN legs /\ SeenOK(poll[p].seen, legs[m], job[m])
      BY <2>2 DEF CourierInv, PollOK
    <3>2. m # l
      BY <1>6, <1>7, <3>1 DEF SeenOK, RowOK
    <3> QED BY <1>1, <1>5, <3>1, <3>2 DEF PollOK
  <2> QED BY <2>1, <2>2
<1>17. \A p, q \in Pollers : InOrder(p, q)'
  BY <1>1 DEF CourierInv, InOrder
<1> QED BY <1>9, <1>10, <1>12, <1>14, <1>15, <1>16, <1>17 DEF CourierInv

(* The row after a report that is not stale. *)
RowAfter(r, seen) ==
  [r EXCEPT !.sequence = seen.sequence,
            !.status = IF EventsToReach(r.status, seen.status) = << >> THEN @ ELSE seen.status]

(* A row that is not closed is brought to where the report is. *)
LEMMA ReportTaken ==
  ASSUME NEW r \in LegRows, NEW seen \in Jobs, NEW j \in Jobs, NEW last, NEW due,
         RowOK(r, last, due, j), SeenOK(seen, r, j), r.sequence = 0 \/ seen.sequence > r.sequence
  PROVE  LET n == RowAfter(r, seen) IN
         /\ n \in LegRows /\ n.remote = r.remote /\ n.booked = r.booked
         /\ n.sequence = seen.sequence
         /\ n.status = IF r.status = "cancelled" THEN r.status ELSE seen.status
         /\ EventsToReach(r.status, seen.status) # << >> =>
              r.status \in ActiveLegStatuses /\ last /\ seen.status # r.status
         /\ RowOK(n, last, due, j)
<1> DEFINE path == EventsToReach(r.status, seen.status)
           n == RowAfter(r, seen)
<1>1. /\ seen.status \in LegStatuses /\ r.status \in LegStatuses /\ seen.sequence \in Nat
      /\ seen.sequence > r.sequence /\ r.remote
      /\ r.status # "cancelled" => seen.status \in Ahead(r.status)
      /\ seen.sequence \in 0 .. MaxSequence
  <2>1. /\ seen.status \in LegStatuses \cup {NoStatus} /\ r.status \in LegStatuses
        /\ seen.sequence \in Nat /\ r.sequence \in Nat /\ seen.sequence \in 0 .. MaxSequence
    BY DEF Jobs, LegRows
  <2>2. seen.sequence > r.sequence
    BY <2>1 DEF SeenOK
  <2> QED BY <2>1, <2>2 DEF SeenOK, RowOK
<1>2. path # << >> => r.status \in ActiveLegStatuses
  BY <1>1, CaughtUp
<1>3. path # << >> => seen.status # r.status
  BY <1>1, TheCatchUp
<1>4. r.status # "cancelled" /\ seen.status # r.status => path # << >>
  BY <1>1, AheadIsReached
<1>5. /\ n \in LegRows /\ n.remote = r.remote /\ n.booked = r.booked
      /\ n.sequence = seen.sequence
      /\ n.status = IF path = << >> THEN r.status ELSE seen.status
  BY <1>1 DEF RowAfter, LegRows
<1> HIDE DEF n, path
<1>6. n.status = IF r.status = "cancelled" THEN r.status ELSE seen.status
  BY <1>2, <1>4, <1>5 DEF ActiveLegStatuses
<1>7. n.status \in ActiveLegStatuses => last
  BY <1>2, <1>5 DEF RowOK
<1>8. RowOK(n, last, due, j)
  BY <1>1, <1>5, <1>6, <1>7 DEF RowOK, SeenOK
<1>9. path # << >> => last
  BY <1>2 DEF RowOK
<1> QED BY <1>2, <1>3, <1>5, <1>6, <1>8, <1>9 DEF n, path

(* What applying a report does: nothing, or the row it leads to and the    *)
(* dispatch that follows, with the order moved along the path.             *)
LEMMA SnapshotIs ==
  ASSUME CourierInv, NEW p \in Pollers, ApplySnapshot(p)
  PROVE  LET l == poll[p].leg
             seen == poll[p].seen
             path == EventsToReach(legs[l].status, seen.status) IN
         /\ poll[p] # IdlePoller /\ poll' = [poll EXCEPT ![p] = IdlePoller]
         /\ submit' = submit /\ job' = job /\ cancel' = cancel
         /\ \/ status' = status /\ legs' = legs /\ queue' = queue
            \/ /\ legs[l].sequence = 0 \/ seen.sequence > legs[l].sequence
               /\ OrderAfter(path) # Rolled /\ status' = OrderAfter(path)
               /\ Dispatch([legs EXCEPT ![l] = RowAfter(legs[l], seen)])
               /\ path = << >> \/ seen.status # "cancelled" =>
                    legs' = [legs EXCEPT ![l] = RowAfter(legs[l], seen)] /\ queue' = queue
<1> DEFINE l == poll[p].leg
           seen == poll[p].seen
           path == EventsToReach(legs[l].status, seen.status)
           row == RowAfter(legs[l], seen)
           rows == [legs EXCEPT ![l] = row]
           stale == legs[l].sequence # 0 /\ seen.sequence <= legs[l].sequence
<1>1. /\ poll[p] # IdlePoller /\ poll' = [poll EXCEPT ![p] = IdlePoller]
      /\ submit' = submit /\ job' = job /\ cancel' = cancel
      /\ \/ status' = status /\ legs' = legs /\ queue' = queue
         \/ /\ ~stale /\ OrderAfter(path) # Rolled /\ status' = OrderAfter(path)
            /\ Dispatch(rows) \/ (legs' = rows /\ queue' = queue)
            /\ path = << >> \/ seen.status # "cancelled" => legs' = rows /\ queue' = queue
  BY DEF ApplySnapshot, RowAfter
<1>2. legs' = rows /\ queue' = queue => Dispatch(rows)
  BY DEF Dispatch
<1>3. l \in DOMAIN legs /\ legs[l] \in LegRows /\ seen \in Jobs
  <2>1. l \in DOMAIN legs
    BY <1>1 DEF CourierInv, PollOK
  <2> QED BY <2>1, Types DEF CourierInv
<1>4. ~stale => legs[l].sequence = 0 \/ seen.sequence > legs[l].sequence
  BY <1>3 DEF LegRows, Jobs
<1> QED BY <1>1, <1>2, <1>4

LEMMA SnapshotKeeps ==
  ASSUME CourierInv, NEW p \in Pollers, ApplySnapshot(p)
  PROVE  /\ CourierInv'
         /\ \A m \in DOMAIN legs :
              \/ m \in DOMAIN legs' /\ legs'[m] = legs[m]
              \/ /\ m = poll[p].leg
                 /\ legs[m].sequence = 0 \/ job[m].sequence > legs[m].sequence
<1> DEFINE l == poll[p].leg
           seen == poll[p].seen
           path == EventsToReach(legs[l].status, seen.status)
           row == RowAfter(legs[l], seen)
<1>0. /\ TypeOK /\ DOMAIN legs \subseteq Nr /\ job \in [Nr -> Jobs] /\ legs \in Seq(LegRows)
      /\ Len(legs) \in Nr /\ status \in OrderStatuses
      /\ poll \in [Pollers -> [leg : 0 .. MaxLegs, seen : Jobs]]
  BY Types DEF CourierInv, TypeOK
<1>1. /\ poll[p] # IdlePoller /\ poll' = [poll EXCEPT ![p] = IdlePoller]
      /\ submit' = submit /\ job' = job /\ cancel' = cancel
      /\ \/ status' = status /\ legs' = legs /\ queue' = queue
         \/ /\ legs[l].sequence = 0 \/ seen.sequence > legs[l].sequence
            /\ OrderAfter(path) # Rolled /\ status' = OrderAfter(path)
            /\ Dispatch([legs EXCEPT ![l] = row])
  BY SnapshotIs
<1>2. /\ l \in DOMAIN legs /\ l \in Nr /\ legs[l] \in LegRows /\ seen \in Jobs /\ job[l] \in Jobs
      /\ SeenOK(seen, legs[l], job[l])
  BY <1>0, <1>1 DEF CourierInv, PollOK
<1>3. RowOK(legs[l], l = Len(legs), queue[l], job[l])
  BY <1>2 DEF CourierInv, Rows
<1>4. seen.status \in LegStatuses /\ legs[l].status \in LegStatuses
  BY <1>2 DEF SeenOK, Jobs, LegRows
<1>5. /\ \A q \in Pollers : q # p => poll'[q] = poll[q]
      /\ poll'[p] = IdlePoller /\ poll' \in [Pollers -> [leg : 0 .. MaxLegs, seen : Jobs]]
  BY <1>0, <1>1, SubmissionAssumption DEF IdlePoller, NoJob, Jobs
<1>6. \A q, r \in Pollers : InOrder(q, r)'
  BY <1>5 DEF CourierInv, InOrder
<1>7. CASE status' = status /\ legs' = legs /\ queue' = queue
  <2>1. Rows' /\ NotYet' /\ Couriers' /\ RowsKept /\ RemoteKept
    BY <1>1, <1>7, UnmovedRows
  <2>2. CancelOK'
    BY <1>1, <2>1, CancelKept
  <2>3. \A v \in Workers : WorkerOK(v)'
    BY <1>1, <2>1, WorkerKept
  <2>4. TypeOK'
    BY <1>0, <1>1, <1>5, <1>7 DEF TypeOK, Jobs
  <2>5. ASSUME NEW q \in Pollers PROVE PollOK(q)'
    BY <1>1, <1>5, <1>7 DEF CourierInv, PollOK
  <2> QED BY <1>6, <1>7, <2>1, <2>2, <2>3, <2>4, <2>5 DEF CourierInv
<1>8. CASE /\ legs[l].sequence = 0 \/ seen.sequence > legs[l].sequence
           /\ OrderAfter(path) # Rolled /\ status' = OrderAfter(path)
           /\ Dispatch([legs EXCEPT ![l] = row])
  <2>1. /\ row \in LegRows /\ row.remote = legs[l].remote /\ row.booked = legs[l].booked
        /\ row.sequence = seen.sequence
        /\ row.status = IF legs[l].status = "cancelled" THEN legs[l].status ELSE seen.status
        /\ RowOK(row, l = Len(legs), queue[l], job[l])
    BY <1>2, <1>3, <1>8, ReportTaken
  <2> DEFINE r == row
  <2>2. Dispatch([legs EXCEPT ![l] = r])
    BY <1>8
  <2> HIDE DEF r
  <2>3. /\ legs' \in Seq(LegRows) /\ Len(legs') \in Nr /\ queue' \in [Nr -> Nat]
        /\ Rows' /\ NotYet' /\ Couriers'
        /\ l \in DOMAIN legs' /\ legs'[l] = r
        /\ \A m \in DOMAIN legs : m # l => m \in DOMAIN legs' /\ legs'[m] = legs[m]
    BY <1>1, <1>2, <2>1, <2>2, RowReplaced DEF r
  <2>4. status' \in OrderStatuses
    BY <1>0, <1>4, <1>8, PathTypes, OrderAfterTypes
  <2>5. TypeOK'
    BY <1>0, <1>1, <1>5, <2>3, <2>4 DEF TypeOK, LegRows, Jobs
  <2>6. RemoteKept
    BY <2>1, <2>3 DEF RemoteKept, r
  <2>7. CancelOK'
    BY <1>1, <2>6, CancelKept
  <2>8. \A v \in Workers : WorkerOK(v)'
    BY <1>1, <2>6, WorkerKept
  <2>9. ASSUME NEW q \in Pollers PROVE PollOK(q)'
    <3>1. CASE q = p \/ poll[q] = IdlePoller
      BY <1>5, <3>1 DEF PollOK
    <3>2. CASE q # p /\ poll[q] # IdlePoller
      <4> DEFINE m == poll[q].leg
                 s == poll[q].seen
      <4>1. /\ m \in DOMAIN legs /\ SeenOK(s, legs[m], job[m])
            /\ s \in Jobs /\ poll'[q] = poll[q]
        BY <1>0, <1>5, <3>2 DEF CourierInv, PollOK
      <4>2. CASE m # l
        BY <1>1, <2>3, <4>1, <4>2 DEF PollOK
      <4>3. CASE m = l
        <5>1. InOrder(p, q)
          BY DEF CourierInv
        <5>2. seen.sequence <= s.sequence => s.status \in Ahead(seen.status)
          BY <1>1, <3>2, <4>3, <5>1 DEF InOrder
        <5>3. seen.sequence \in Nat /\ s.sequence \in Nat
          BY <1>2, <4>1 DEF Jobs
        <5>4. SeenOK(s, r, job[l])
          BY <2>1, <4>1, <4>3, <5>2, <5>3 DEF SeenOK, r
        <5> QED BY <1>1, <2>3, <4>1, <4>3, <5>4 DEF PollOK
      <4> QED BY <4>2, <4>3
    <3> QED BY <3>1, <3>2
  <2>10. job[l].sequence > legs[l].sequence \/ legs[l].sequence = 0
    BY <1>2, <1>8 DEF SeenOK, Jobs, LegRows
  <2>11. CourierInv'
    BY <1>6, <2>3, <2>5, <2>7, <2>8, <2>9 DEF CourierInv
  <2> QED BY <2>3, <2>10, <2>11
<1> QED BY <1>1, <1>7, <1>8

-----------------------------------------------------------------------------

CourierStep ==
  \/ \E l \in DOMAIN legs : \E w \in Workers : BeginSubmit(w, l)
  \/ \E l \in DOMAIN legs : Retry(l)
  \/ \E l \in DOMAIN legs : \E event \in DeliveryEvents : CourierProgresses(l, event)
  \/ \E l \in DOMAIN legs : \E p \in Pollers : ReadJob(p, l)
  \/ \E l \in DOMAIN legs : BeginCancel(l)
  \/ \E w \in Workers : CourierAccepts(w) \/ CourierRefuses(w) \/ SubmitFails(w)
  \/ CourierCancels

LEMMA CourierInvStep ==
  ASSUME CourierInv, [Next]_vars
  PROVE  CourierInv'
<1>1. CASE UNCHANGED vars
  <2> USE <1>1 DEF vars
  <2>1. TypeOK' /\ Rows' /\ NotYet' /\ Couriers' /\ CancelOK'
    BY DEF CourierInv, TypeOK, Rows, NotYet, Couriers, CancelOK
  <2>2. /\ \A w \in Workers : WorkerOK(w)'
        /\ \A p \in Pollers : PollOK(p)'
        /\ \A p, q \in Pollers : InOrder(p, q)'
    BY DEF CourierInv, WorkerOK, PollOK, InOrder
  <2> QED BY <2>1, <2>2 DEF CourierInv
<1>2. CASE CourierStep
  BY <1>2, BeginSubmitKeeps, RetryKeeps, ProgressKeeps, ReadJobKeeps, BeginCancelKeeps,
     AcceptanceKeeps, RefusalKeeps, SubmitFailsKeeps, CourierCancelsKeeps DEF CourierStep
<1>3. ASSUME NEW l \in DOMAIN legs, NEW event \in {"assigned", "picked_up", "delivered"},
             PoolProgresses(l, event)
      PROVE  CourierInv'
  <2>1. event \in DeliveryEvents
    BY DEF DeliveryEvents, LegTransitions
  <2> QED BY <1>3, <2>1, PoolKeeps
<1>4. ASSUME NEW w \in Workers, RecordAccepted(w) \/ RecordRefused(w)
      PROVE  CourierInv'
  BY <1>4, RecordAcceptedKeeps, RecordRefusedKeeps
<1>5. ASSUME NEW p \in Pollers, ApplySnapshot(p)
      PROVE  CourierInv'
  BY <1>5, SnapshotKeeps
<1>6. CASE CancelLeg
  BY <1>6, CancelLegKeeps
<1> QED BY <1>1, <1>2, <1>3, <1>4, <1>5, <1>6 DEF Next, CourierStep

LEMMA CourierAlways == Spec => []CourierInv
BY FirstLegs, CourierInvStep, PTL DEF Spec

(* Whatever answers come late, and however often a submission is retried,  *)
(* no order has two active legs: the one-active-leg index of               *)
(* delivery-leg.entity.ts never rejects a dispatch.                        *)
THEOREM OneCourierAtATime == Spec => []OneActiveLeg
<1>1. CourierInv => OneActiveLeg
  <2> SUFFICES ASSUME CourierInv PROVE OneActiveLeg
    OBVIOUS
  <2>1. Active(legs) \subseteq {Len(legs)}
    BY DEF CourierInv, Rows, RowOK, Active
  <2>2. IsFiniteSet({Len(legs)}) /\ Cardinality({Len(legs)}) = 1
    BY FS_Singleton
  <2>3. Cardinality(Active(legs)) <= 1
    BY <2>1, <2>2, FS_Subset
  <2> QED BY <2>3 DEF OneActiveLeg, CourierInv
<1> QED BY <1>1, CourierAlways, PTL

(* A row that has seen its courier's latest change stays where the courier *)
(* is, unless we close it: no older webhook or poll moves it back          *)
(* (DeliveryEventsService.applyCourierUpdate).                             *)
LEMMA LatestStays ==
  ASSUME CourierInv, [Next]_vars, NEW l \in DOMAIN legs,
         legs[l].sequence > 0, legs[l].sequence = job[l].sequence
  PROVE  legs'[l].sequence = legs[l].sequence /\ legs'[l].status \in {legs[l].status, "cancelled"}
<1>0. legs[l] \in LegRows /\ l \in Nr /\ legs[l].sequence \in Nat
  <2>1. legs[l] \in LegRows /\ l \in Nr
    BY Types DEF CourierInv
  <2> QED BY <2>1 DEF LegRows
<1>1. CASE UNCHANGED vars \/ CourierStep
  <2>1. legs' = legs
    BY <1>1 DEF vars, CourierStep, BeginSubmit, Retry, CourierProgresses, ReadJob, BeginCancel,
       CourierAccepts, CourierRefuses, SubmitFails, CourierCancels
  <2> QED BY <2>1
<1>2. CASE RowsKept
  BY <1>2 DEF RowsKept, Kept
<1>3. ASSUME NEW m \in DOMAIN legs, NEW event, PoolProgresses(m, event)
      PROVE  legs'[l] = legs[l]
  <2>1. RowOK(legs[l], l = Len(legs), queue[l], job[l]) /\ JobOK(job[l])
    BY <1>0 DEF CourierInv, Rows, Couriers
  <2>2. legs[l].remote
    BY <1>0, <2>1 DEF RowOK, JobOK
  <2>3. m # l /\ legs' = [legs EXCEPT ![m].status = NextLegStatus(@, event)]
    BY <1>3, <2>2 DEF PoolProgresses
  <2> QED BY <2>3
<1>4. ASSUME NEW p \in Pollers, ApplySnapshot(p)
      PROVE  legs'[l] = legs[l]
  <2>1. \/ legs'[l] = legs[l]
        \/ legs[l].sequence = 0 \/ job[l].sequence > legs[l].sequence
    BY <1>4, SnapshotKeeps
  <2> QED BY <1>0, <2>1
<1>5. CASE \E w \in Workers : RecordAccepted(w) \/ RecordRefused(w)
  BY <1>2, <1>5, RecordAcceptedKeeps, RecordRefusedKeeps
<1>6. CASE CancelLeg
  BY <1>2, <1>6, CancelLegKeeps
<1> QED BY <1>1, <1>3, <1>4, <1>5, <1>6 DEF Next, CourierStep

(* A leg that has seen its courier's latest change is where the courier is *)
(* and stays there until we close it: webhooks and polls that come late,   *)
(* twice or in another order do not take it back (applySnapshot of         *)
(* delivery-events.service.ts).                                            *)
THEOREM ReportsNeverGoBack == Spec => LegIsWhereCourierIs
<1>1. ASSUME CourierInv, [Next]_vars, NEW l \in DOMAIN legs,
             legs[l].sequence > 0, legs[l].sequence = job[l].sequence
      PROVE  legs[l].status \in {job[l].status, "cancelled"}
  BY <1>1 DEF CourierInv, Rows, RowOK
<1>2. CourierInv /\ [Next]_vars =>
        [\A l \in DOMAIN legs :
           legs[l].sequence > 0 /\ legs[l].sequence = job[l].sequence =>
             /\ legs[l].status \in {job[l].status, "cancelled"}
             /\ legs'[l].sequence = legs[l].sequence /\ legs'[l].status \in {legs[l].status, "cancelled"}]_vars
  BY <1>1, LatestStays
<1> QED BY <1>2, CourierAlways, PTL DEF Spec, LegIsWhereCourierIs

-----------------------------------------------------------------------------
(* What holds when a leg has one submission at a time.                     *)

(* One event or one worker for each leg, and none once the leg is booked. *)
Alone ==
  /\ \A l \in Nr : queue[l] <= 1 /\ (queue[l] > 0 => \A w \in Workers : submit[w].leg # l)
  /\ \A v, w \in Workers : submit[v].at # "idle" /\ submit[v].leg = submit[w].leg => v = w
  /\ \A w \in Workers : submit[w].at # "idle" => ~legs[submit[w].leg].booked

Ended(s) == s \in {"delivered", "returned"}

(* The delivery under way has not ended. *)
OnTheWay ==
  /\ ~Ended(Latest.status)
  /\ Latest.status \in ActiveLegStatuses /\ Latest.booked => ~Ended(job[Len(legs)].status)

(* While a submission is unanswered the delivery does not end. *)
Quiet ==
  /\ \A w \in Workers : submit[w].at # "idle" => OnTheWay
  /\ \A w \in Workers : submit[w].at = "accepted" => ~Ended(job[submit[w].leg].status)

AgreeInv == CourierInv /\ Alone /\ Quiet /\ LegAndOrderAgree

LEMMA LastLeg ==
  ASSUME TypeOK
  PROVE  /\ Len(legs) \in DOMAIN legs /\ Len(legs) \in Nr /\ Latest \in LegRows
         /\ Latest.status \in LegStatuses
<1>1. legs \in Seq(LegRows) /\ Len(legs) \in Nr /\ Len(legs) \in Nat
  BY Types, SubmissionAssumption DEF Nr
<1>2. Len(legs) \in DOMAIN legs
  BY <1>1 DEF Nr
<1>3. Latest \in LegRows
  BY <1>1, <1>2 DEF Latest
<1> QED BY <1>1, <1>2, <1>3 DEF LegRows

LEMMA FirstAgree ==
  ASSUME Init
  PROVE  AgreeInv
<1>0. CourierInv
  BY FirstLegs
<1>1. \A w \in Workers : submit[w].at = "idle" /\ submit[w].leg = 0
  BY DEF Init, IdleWorker
<1>2. Alone
  <2>1. \A l \in Nr : l # 0 /\ queue[l] <= 1
    BY DEF Init, Nr
  <2> QED BY <1>1, <2>1 DEF Alone
<1>3. Quiet
  BY <1>1 DEF Quiet
<1>4. LegAndOrderAgree
  <2> DEFINE r == Row(TRUE)
  <2>1. legs = <<r>> /\ r.status = "requested" /\ status = "parcel_received_at_origin"
    BY NewRow DEF Init
  <2> HIDE DEF r
  <2>2. Latest = r
    BY <2>1 DEF Latest
  <2> QED BY <2>1, <2>2 DEF LegAndOrderAgree, StatusOf
<1> QED BY <1>0, <1>2, <1>3, <1>4 DEF AgreeInv

(* Steps that take up no submission. *)
LEMMA AloneKept ==
  ASSUME CourierInv, Alone,
         \A w \in Workers : \/ submit'[w] = IdleWorker
                            \/ submit'[w].leg = submit[w].leg /\ submit[w].at # "idle"
                            \/ submit'[w] = submit[w],
         \A l \in DOMAIN legs : queue'[l] = queue[l] /\ legs'[l].booked = legs[l].booked,
         \A l \in Nr : l \in DOMAIN legs \/ queue'[l] <= 1
  PROVE  Alone'
<1>0. DOMAIN legs \subseteq Nr /\ 0 \notin Nr
  BY Types DEF CourierInv, Nr
<1>1. \A w \in Workers : /\ submit[w].at # "idle" => submit[w].leg \in DOMAIN legs
                         /\ submit[w].leg \in DOMAIN legs \/ submit[w].leg = 0
  BY DEF CourierInv, WorkerOK
<1>2. \A w \in Workers : /\ submit'[w].leg = submit[w].leg \/ submit'[w].leg = 0
                         /\ submit'[w].at # "idle" => submit[w].at # "idle" /\ submit'[w].leg = submit[w].leg
  BY DEF IdleWorker
<1>3. ASSUME NEW l \in Nr
      PROVE  queue'[l] <= 1 /\ (queue'[l] > 0 => \A w \in Workers : submit'[w].leg # l)
  <2>1. CASE l \in DOMAIN legs
    BY <1>0, <1>2, <2>1 DEF Alone
  <2>2. CASE l \notin DOMAIN legs
    BY <1>0, <1>1, <1>2, <2>2
  <2> QED BY <2>1, <2>2
<1>4. ASSUME NEW v \in Workers, NEW w \in Workers,
             submit'[v].at # "idle", submit'[v].leg = submit'[w].leg
      PROVE  v = w
  <2>1. submit[v].at # "idle" /\ submit[v].leg = submit'[v].leg /\ submit[v].leg \in DOMAIN legs
    BY <1>1, <1>2, <1>4
  <2>2. submit'[w].leg = submit[w].leg
    BY <1>0, <1>2, <1>4, <2>1
  <2> QED BY <1>4, <2>1, <2>2 DEF Alone
<1>5. ASSUME NEW w \in Workers, submit'[w].at # "idle"
      PROVE  ~legs'[submit'[w].leg].booked
  <2>1. submit[w].at # "idle" /\ submit'[w].leg = submit[w].leg /\ submit[w].leg \in DOMAIN legs
    BY <1>1, <1>2, <1>5
  <2> QED BY <2>1 DEF Alone
<1> QED BY <1>3, <1>4, <1>5 DEF Alone

(* What a replaced row and the dispatch after it leave. *)
LEMMA AfterRow ==
  ASSUME CourierInv, NEW l \in DOMAIN legs, NEW r \in LegRows, r.booked = legs[l].booked,
         Dispatch([legs EXCEPT ![l] = r])
  PROVE  /\ \A m \in DOMAIN legs : queue'[m] = queue[m] /\ legs'[m].booked = legs[m].booked
         /\ \A m \in Nr : m \in DOMAIN legs \/ queue'[m] <= 1
         /\ \/ /\ Len(legs') = Len(legs) /\ legs' = [legs EXCEPT ![l] = r]
               /\ Latest' = IF l = Len(legs) THEN r ELSE Latest
            \/ /\ Latest'.status = "requested" /\ ~Latest'.booked
               /\ IF l = Len(legs) THEN r.status \notin ActiveLegStatuses
                  ELSE Latest.status \notin ActiveLegStatuses
<1> DEFINE rows == [legs EXCEPT ![l] = r]
<1>0. /\ TypeOK /\ DOMAIN legs \subseteq Nr /\ queue \in [Nr -> Nat] /\ NotYet
      /\ Len(legs) \in Nr /\ legs \in Seq(LegRows) /\ Len(legs) \in DOMAIN legs
      /\ DOMAIN legs = 1 .. Len(legs) /\ Len(legs) \in Nat
  BY Types, LastLeg DEF CourierInv, Nr
<1>1. /\ rows \in Seq(LegRows) /\ Len(rows) = Len(legs) /\ DOMAIN rows = DOMAIN legs
      /\ rows[l] = r /\ \A m \in DOMAIN legs : m # l => rows[m] = legs[m]
  BY <1>0, OneRow
<1>2. Dispatch(rows)
  OBVIOUS
<1>3. legs' = rows => legs' = [legs EXCEPT ![l] = r]
  OBVIOUS
<1> HIDE DEF rows
<1>4. \A m \in Nr : m \in DOMAIN legs \/ queue[m] = 0
  BY <1>0 DEF NotYet, Nr
<1>5. \A m \in DOMAIN legs : rows[m].booked = legs[m].booked
  BY <1>1
<1>6. CASE legs' = rows /\ queue' = queue
  <2>1. Latest' = IF l = Len(legs) THEN r ELSE Latest
    BY <1>0, <1>1, <1>6 DEF Latest
  <2> QED BY <1>1, <1>3, <1>4, <1>5, <1>6, <2>1
<1>7. CASE /\ Active(rows) = {} /\ Len(rows) + 1 \in Nr
           /\ \E remote \in BOOLEAN :
                /\ legs' = Append(rows, Row(remote))
                /\ queue' = [queue EXCEPT ![Len(rows) + 1] = IF remote THEN 1 ELSE @]
  <2>1. PICK remote \in BOOLEAN :
          /\ legs' = Append(rows, Row(remote))
          /\ queue' = [queue EXCEPT ![Len(rows) + 1] = IF remote THEN 1 ELSE @]
    BY <1>7
  <2> DEFINE x == Row(remote)
             n == Len(rows) + 1
  <2>2. x \in LegRows /\ x.status = "requested" /\ ~x.booked
    BY NewRow
  <2>3. legs' = Append(rows, x) /\ queue' = [queue EXCEPT ![n] = IF remote THEN 1 ELSE @]
    BY <2>1
  <2> HIDE DEF x
  <2>4. /\ Len(legs') = n /\ legs'[n] = x /\ n \notin DOMAIN legs
        /\ \A m \in DOMAIN legs : legs'[m] = rows[m]
    BY <1>0, <1>1, <2>2, <2>3
  <2>5. Latest' = x
    BY <2>4 DEF Latest
  <2>6. n \in Nr
    BY <1>7
  <2> HIDE DEF n
  <2>7. queue[n] = 0 /\ queue'[n] <= 1
    BY <1>0, <1>4, <2>3, <2>4, <2>6
  <2>8. \A m \in Nr : m # n => queue'[m] = queue[m]
    BY <1>0, <2>3, <2>6
  <2>9. \A m \in DOMAIN rows : rows[m].status \notin ActiveLegStatuses
    BY <1>7 DEF Active
  <2>10. IF l = Len(legs) THEN r.status \notin ActiveLegStatuses
         ELSE Latest.status \notin ActiveLegStatuses
    BY <1>0, <1>1, <2>9 DEF Latest
  <2>11. \A m \in DOMAIN legs : queue'[m] = queue[m] /\ legs'[m].booked = legs[m].booked
    BY <1>0, <1>5, <2>4, <2>8
  <2>12. \A m \in Nr : m \in DOMAIN legs \/ queue'[m] <= 1
    BY <1>0, <1>4, <2>7, <2>8
  <2> QED BY <2>2, <2>5, <2>10, <2>11, <2>12
<1> QED BY <1>0, <1>1, <1>2, <1>6, <1>7, Dispatched

LEMMA SameRowsAgree ==
  ASSUME AgreeInv, legs' = legs, status' = status
  PROVE  LegAndOrderAgree'
BY DEF AgreeInv, LegAndOrderAgree, Latest

LEMMA BeginSubmitAgrees ==
  ASSUME AgreeInv, NEW l \in DOMAIN legs, NEW w \in Workers, BeginSubmit(w, l)
  PROVE  Alone' /\ Quiet'
<1>0. /\ TypeOK /\ DOMAIN legs \subseteq Nr /\ queue \in [Nr -> Nat] /\ CourierInv /\ Alone /\ Quiet
      /\ submit \in [Workers -> [leg : 0 .. MaxLegs, at : {"idle", "asking", "accepted", "refused"}]]
  BY Types DEF AgreeInv, CourierInv
<1>1. /\ legs' = legs /\ job' = job /\ queue[l] > 0 /\ l \in Nr /\ submit[w].at = "idle"
      /\ queue' = [queue EXCEPT ![l] = @ - 1]
      /\ \/ submit' = submit
         \/ /\ submit' = [submit EXCEPT ![w] = [leg |-> l, at |-> "asking"]]
            /\ legs[l].status = "requested" /\ ~legs[l].booked
  BY <1>0 DEF BeginSubmit, Working
<1>2. /\ \A v \in Workers : submit[v].leg # l
      /\ queue'[l] = 0 /\ \A m \in Nr : m # l => queue'[m] = queue[m]
  <2>1. queue[l] <= 1 /\ \A v \in Workers : submit[v].leg # l
    BY <1>0, <1>1 DEF Alone
  <2> QED BY <1>0, <1>1, <2>1
<1>3. CASE submit' = submit
  <2>1. Alone'
    BY <1>0, <1>1, <1>2, <1>3 DEF Alone
  <2>2. Quiet'
    BY <1>0, <1>1, <1>3 DEF Quiet, OnTheWay, Latest
  <2> QED BY <2>1, <2>2
<1>4. CASE /\ submit' = [submit EXCEPT ![w] = [leg |-> l, at |-> "asking"]]
           /\ legs[l].status = "requested" /\ ~legs[l].booked
  <2>1. submit'[w].leg = l /\ submit'[w].at = "asking" /\ \A v \in Workers : v # w => submit'[v] = submit[v]
    BY <1>0, <1>4
  <2>2. ASSUME NEW m \in Nr
        PROVE  queue'[m] <= 1 /\ (queue'[m] > 0 => \A v \in Workers : submit'[v].leg # m)
    <3>1. CASE m = l
      BY <1>2, <3>1
    <3>2. CASE m # l
      BY <1>0, <1>2, <2>1, <3>2 DEF Alone
    <3> QED BY <3>1, <3>2
  <2>3. ASSUME NEW v \in Workers, NEW u \in Workers,
               submit'[v].at # "idle", submit'[v].leg = submit'[u].leg
        PROVE  v = u
    BY <1>0, <1>2, <2>1, <2>3 DEF Alone
  <2>4. ASSUME NEW v \in Workers, submit'[v].at # "idle"
        PROVE  ~legs'[submit'[v].leg].booked
    BY <1>0, <1>1, <1>4, <2>1, <2>4 DEF Alone
  <2>5. l = Len(legs)
    <3>1. RowOK(legs[l], l = Len(legs), queue[l], job[l])
      BY <1>0 DEF CourierInv, Rows
    <3> QED BY <1>4, <3>1 DEF RowOK, ActiveLegStatuses
  <2>6. OnTheWay'
    BY <1>1, <1>4, <2>5 DEF OnTheWay, Ended, Latest
  <2>7. \A v \in Workers : submit'[v].at = "accepted" => ~Ended(job[submit'[v].leg].status)
    BY <1>0, <2>1 DEF Quiet
  <2> QED BY <1>1, <2>2, <2>3, <2>4, <2>6, <2>7 DEF Alone, Quiet
<1> QED BY <1>1, <1>3, <1>4

(* An Admin retries only what is no longer under way. *)
LEMMA RetryAgrees ==
  ASSUME AgreeInv, ~Duplicates, NEW l \in DOMAIN legs, Retry(l)
  PROVE  Alone' /\ Quiet'
<1>0. /\ TypeOK /\ DOMAIN legs \subseteq Nr /\ queue \in [Nr -> Nat] /\ Alone /\ Quiet
  BY Types DEF AgreeInv, CourierInv
<1>1. /\ legs' = legs /\ job' = job /\ submit' = submit /\ l \in Nr
      /\ queue' = [queue EXCEPT ![l] = 1] /\ \A w \in Workers : submit[w].leg # l
  BY <1>0 DEF Retry, Outstanding
<1>2. queue'[l] = 1 /\ \A m \in Nr : m # l => queue'[m] = queue[m]
  BY <1>0, <1>1
<1>3. Alone'
  BY <1>0, <1>1, <1>2 DEF Alone
<1>4. Quiet'
  BY <1>0, <1>1 DEF Quiet, OnTheWay, Latest
<1> QED BY <1>3, <1>4

LEMMA SubmitFailsAgrees ==
  ASSUME AgreeInv, NEW w \in Workers, SubmitFails(w)
  PROVE  Alone' /\ Quiet'
<1> DEFINE l == submit[w].leg
<1>0. /\ TypeOK /\ DOMAIN legs \subseteq Nr /\ queue \in [Nr -> Nat] /\ Alone /\ Quiet /\ CourierInv
      /\ submit \in [Workers -> [leg : 0 .. MaxLegs, at : {"idle", "asking", "accepted", "refused"}]]
  BY Types DEF AgreeInv, CourierInv
<1>1. /\ legs' = legs /\ job' = job /\ submit[w].at # "idle"
      /\ submit' = [submit EXCEPT ![w] = IdleWorker]
      /\ queue' \in {queue, [queue EXCEPT ![l] = @ + 1]}
  BY DEF SubmitFails
<1>2. l \in DOMAIN legs /\ l \in Nr
  BY <1>0, <1>1 DEF CourierInv, WorkerOK
<1>3. /\ queue[l] = 0
      /\ \A v \in Workers : v # w => submit[v].leg # l
  BY <1>0, <1>1, <1>2 DEF Alone
<1> HIDE DEF l
<1>4. queue'[l] <= 1 /\ \A m \in Nr : m # l => queue'[m] = queue[m]
  BY <1>0, <1>1, <1>2, <1>3
<1>5. /\ submit'[w].leg = 0 /\ submit'[w].at = "idle" /\ 0 \notin Nr
      /\ \A v \in Workers : v # w => submit'[v] = submit[v]
  BY <1>0, <1>1 DEF IdleWorker, Nr
<1>6. ASSUME NEW m \in Nr
      PROVE  queue'[m] <= 1 /\ (queue'[m] > 0 => \A v \in Workers : submit'[v].leg # m)
  <2>1. CASE m = l
    BY <1>2, <1>3, <1>4, <1>5, <2>1
  <2>2. CASE m # l
    BY <1>0, <1>4, <1>5, <2>2 DEF Alone
  <2> QED BY <2>1, <2>2
<1>7. ASSUME NEW v \in Workers, NEW u \in Workers,
             submit'[v].at # "idle", submit'[v].leg = submit'[u].leg
      PROVE  v = u
  <2>1. v # w /\ submit'[v] = submit[v] /\ submit[v].leg \in Nr
    BY <1>0, <1>5, <1>7 DEF CourierInv, WorkerOK
  <2>2. u # w
    BY <1>5, <1>7, <2>1
  <2> QED BY <1>0, <1>5, <1>7, <2>1, <2>2 DEF Alone
<1>8. \A v \in Workers : submit'[v].at # "idle" => ~legs'[submit'[v].leg].booked
  BY <1>0, <1>1, <1>5 DEF Alone
<1>9. Quiet'
  BY <1>0, <1>1, <1>5 DEF Quiet, OnTheWay, Latest
<1> QED BY <1>6, <1>7, <1>8, <1>9 DEF Alone

LEMMA AnswersAgree ==
  ASSUME AgreeInv, NEW w \in Workers, CourierAccepts(w) \/ CourierRefuses(w)
  PROVE  Alone' /\ Quiet'
<1> DEFINE l == submit[w].leg
<1>0. /\ TypeOK /\ DOMAIN legs \subseteq Nr /\ queue \in [Nr -> Nat] /\ Alone /\ Quiet /\ CourierInv
      /\ job \in [Nr -> Jobs] /\ NotYet
      /\ submit \in [Workers -> [leg : 0 .. MaxLegs, at : {"idle", "asking", "accepted", "refused"}]]
      /\ Len(legs) \in DOMAIN legs /\ DOMAIN legs = 1 .. Len(legs) /\ Len(legs) \in Nat
  BY Types, LastLeg DEF AgreeInv, CourierInv, Nr
<1>1. /\ legs' = legs /\ queue' = queue /\ submit[w].at = "asking"
      /\ submit' = [submit EXCEPT ![w].at = "accepted"] \/ submit' = [submit EXCEPT ![w].at = "refused"]
      /\ submit' = [submit EXCEPT ![w].at = "accepted"] => job[l].status \in ActiveLegStatuses \cup {NoStatus}
      /\ job' = job \/ job' = [job EXCEPT ![l] = [status |-> "requested", sequence |-> 1]]
  <2>1. CASE CourierAccepts(w)
    BY <2>1 DEF CourierAccepts, Working
  <2>2. CASE CourierRefuses(w)
    <3>1. submit' = [submit EXCEPT ![w].at = "refused"] /\ submit[w].at = "asking"
      BY <2>2 DEF CourierRefuses, Working
    <3>2. submit'[w].at = "refused"
      BY <1>0, <3>1
    <3>3. submit' # [submit EXCEPT ![w].at = "accepted"]
      BY <1>0, <3>2
    <3> QED BY <2>2, <3>1, <3>3 DEF CourierRefuses
  <2> QED BY <2>1, <2>2
<1>2. l \in DOMAIN legs /\ l \in Nr
  BY <1>0, <1>1 DEF CourierInv, WorkerOK
<1>3. /\ submit'[w].leg = l /\ submit'[w].at # "idle"
      /\ \A v \in Workers : v # w => submit'[v] = submit[v]
      /\ submit'[w].at = "accepted" => job[l].status \in ActiveLegStatuses \cup {NoStatus}
  BY <1>0, <1>1
<1>4. ASSUME NEW m \in Nr, Ended(job'[m].status) PROVE Ended(job[m].status)
  <2> DEFINE j == [status |-> "requested", sequence |-> 1]
  <2>1. ~Ended(j.status)
    BY DEF Ended
  <2>2. job' = job \/ job' = [job EXCEPT ![l] = j]
    BY <1>1
  <2> HIDE DEF j, l
  <2>3. job'[m] = job[m] \/ job'[m] = j
    BY <1>0, <2>2
  <2> QED BY <1>4, <2>1, <2>3
<1>5. Alone'
  <2>1. \A v \in Workers : \/ submit'[v] = IdleWorker
                           \/ submit'[v].leg = submit[v].leg /\ submit[v].at # "idle"
                           \/ submit'[v] = submit[v]
    BY <1>1, <1>3
  <2>2. \A m \in DOMAIN legs : queue'[m] = queue[m] /\ legs'[m].booked = legs[m].booked
    BY <1>1
  <2>3. \A m \in Nr : m \in DOMAIN legs \/ queue'[m] <= 1
    BY <1>0, <1>1 DEF NotYet, Nr
  <2>4. CourierInv /\ Alone
    BY <1>0
  <2> QED BY ONLY <2>1, <2>2, <2>3, <2>4, AloneKept
<1>6. OnTheWay'
  <2>1. OnTheWay
    BY <1>0, <1>1 DEF Quiet
  <2> QED BY <1>0, <1>1, <1>4, <2>1 DEF OnTheWay, Latest
<1>7. ASSUME NEW v \in Workers, submit'[v].at = "accepted"
      PROVE  ~Ended(job'[submit'[v].leg].status)
  <2>1. CASE v = w
    <3>1. ~Ended(job[l].status)
      BY <1>3, <1>7, <2>1 DEF Ended, ActiveLegStatuses, NoStatus
    <3> QED BY <1>2, <1>3, <1>4, <2>1, <3>1
  <2>2. CASE v # w
    <3>1. submit'[v] = submit[v] /\ submit[v].leg \in Nr /\ ~Ended(job[submit[v].leg].status)
      BY <1>0, <1>3, <1>7, <2>2 DEF Quiet, CourierInv, WorkerOK
    <3> QED BY <1>4, <3>1
  <2> QED BY <2>1, <2>2
<1> QED BY <1>5, <1>6, <1>7 DEF Quiet

LEMMA RecordAcceptedAgrees ==
  ASSUME AgreeInv, NEW w \in Workers, RecordAccepted(w)
  PROVE  Alone' /\ Quiet' /\ LegAndOrderAgree'
<1> DEFINE l == submit[w].leg
<1>0. /\ TypeOK /\ DOMAIN legs \subseteq Nr /\ Alone /\ Quiet /\ CourierInv /\ legs \in Seq(LegRows)
      /\ submit \in [Workers -> [leg : 0 .. MaxLegs, at : {"idle", "asking", "accepted", "refused"}]]
      /\ Len(legs) \in DOMAIN legs /\ 0 \notin Nr
  BY Types, LastLeg DEF AgreeInv, CourierInv, Nr
<1>1. /\ job' = job /\ queue' = queue /\ status' = status /\ submit[w].at = "accepted"
      /\ legs' = [legs EXCEPT ![l].booked = TRUE]
      /\ submit' = [submit EXCEPT ![w] = IdleWorker]
  BY DEF RecordAccepted, Working
<1>2. l \in DOMAIN legs /\ l \in Nr
  BY <1>0, <1>1 DEF CourierInv, WorkerOK
<1>3. /\ submit'[w].leg = 0 /\ submit'[w].at = "idle"
      /\ \A v \in Workers : v # w => submit'[v] = submit[v] /\ submit[v].leg # l
  BY <1>0, <1>1 DEF IdleWorker, Alone
<1>4. OnTheWay /\ ~Ended(job[l].status)
  BY <1>0, <1>1 DEF Quiet
<1> HIDE DEF l
<1>5. /\ Len(legs') = Len(legs) /\ \A m \in DOMAIN legs : m # l => legs'[m] = legs[m]
      /\ legs[l] \in LegRows /\ legs'[l] = [legs[l] EXCEPT !.booked = TRUE]
  BY <1>0, <1>1, <1>2
<1>6. legs'[l].status = legs[l].status
  BY <1>5 DEF LegRows
<1>7. Latest'.status = Latest.status
  BY <1>0, <1>5, <1>6 DEF Latest
<1>8. LegAndOrderAgree'
  BY <1>1, <1>7 DEF AgreeInv, LegAndOrderAgree
<1>9. OnTheWay'
  <2>1. CASE l = Len(legs)
    BY <1>1, <1>4, <1>5, <1>7, <2>1 DEF OnTheWay
  <2>2. CASE l # Len(legs)
    <3>1. Latest' = Latest
      BY <1>0, <1>5, <2>2 DEF Latest
    <3> QED BY <1>1, <1>4, <1>5, <3>1 DEF OnTheWay
  <2> QED BY <2>1, <2>2
<1>10. \A v \in Workers : submit'[v].at = "accepted" => ~Ended(job'[submit'[v].leg].status)
  BY <1>0, <1>1, <1>3 DEF Quiet
<1>11. \A m \in Nr : queue'[m] <= 1 /\ (queue'[m] > 0 => \A v \in Workers : submit'[v].leg # m)
  BY <1>0, <1>1, <1>3 DEF Alone
<1>12. ASSUME NEW v \in Workers, NEW u \in Workers,
              submit'[v].at # "idle", submit'[v].leg = submit'[u].leg
       PROVE  v = u
  <2>1. v # w /\ submit'[v] = submit[v] /\ submit[v].leg \in Nr
    BY <1>0, <1>3, <1>12 DEF CourierInv, WorkerOK
  <2>2. u # w
    BY <1>0, <1>3, <1>12, <2>1
  <2> QED BY <1>0, <1>3, <1>12, <2>1, <2>2 DEF Alone
<1>13. ASSUME NEW v \in Workers, submit'[v].at # "idle"
       PROVE  ~legs'[submit'[v].leg].booked
  <2>1. v # w /\ submit'[v] = submit[v] /\ submit[v].leg \in DOMAIN legs /\ submit[v].leg # l
    BY <1>0, <1>3, <1>13 DEF CourierInv, WorkerOK
  <2> QED BY <1>0, <1>5, <1>13, <2>1 DEF Alone
<1> QED BY <1>8, <1>9, <1>10, <1>11, <1>12, <1>13 DEF Alone, Quiet

(* Steps that leave rows, events and workers alone. *)
LEMMA StillAlone ==
  ASSUME AgreeInv, legs' = legs, queue' = queue, submit' = submit
  PROVE  Alone'
BY DEF AgreeInv, Alone

LEMMA ProgressAgrees ==
  ASSUME AgreeInv, NEW l \in DOMAIN legs, NEW event, CourierProgresses(l, event)
  PROVE  Alone' /\ Quiet'
<1> DEFINE to == NextLegStatus(job[l].status, event)
<1>0. /\ DOMAIN legs \subseteq Nr /\ Quiet /\ CourierInv /\ job \in [Nr -> Jobs]
      /\ Len(legs) \in Nr
  BY Types DEF AgreeInv, CourierInv
<1>1. /\ legs' = legs /\ submit' = submit /\ queue' = queue /\ CallsEndFirst(event)
      /\ job' = [job EXCEPT ![l] = JobAfter(@, to)] /\ to # NoStatus
  BY DEF CourierProgresses
<1>2. Moved(job[l].status, event, to)
  BY <1>1, LegMoves
<1> HIDE DEF to
<1>3. Alone'
  BY <1>1, StillAlone
<1>4. job'[l].status = to /\ \A m \in Nr : m # l => job'[m] = job[m]
  BY <1>0, <1>1 DEF JobAfter
<1>5. CASE Ended(to)
  <2>1. event \in {"delivered", "returned"}
    BY <1>2, <1>5 DEF Ended, Moved
  <2>2. \A w \in Workers : submit'[w].at = "idle"
    BY <1>1, <2>1 DEF CallsEndFirst, IdleWorker
  <2> QED BY <1>3, <2>2 DEF Quiet
<1>6. CASE ~Ended(to)
  <2>1. \A m \in Nr : Ended(job'[m].status) => Ended(job[m].status)
    BY <1>4, <1>6
  <2>2. OnTheWay => OnTheWay'
    BY <1>0, <1>1, <2>1 DEF OnTheWay, Latest
  <2>3. ASSUME NEW w \in Workers, submit'[w].at = "accepted"
        PROVE  ~Ended(job'[submit'[w].leg].status)
    <3>1. submit[w].leg \in Nr /\ ~Ended(job[submit[w].leg].status)
      BY <1>0, <1>1, <2>3 DEF CourierInv, WorkerOK, Quiet
    <3> QED BY <1>1, <2>1, <3>1
  <2> QED BY <1>0, <1>1, <1>3, <2>2, <2>3 DEF Quiet
<1> QED BY <1>5, <1>6

LEMMA CourierCancelsAgrees ==
  ASSUME AgreeInv, CourierCancels
  PROVE  Alone' /\ Quiet'
<1> DEFINE l == cancel.leg
           open == job[l].status \in {"requested", "assigned"}
<1>0. /\ DOMAIN legs \subseteq Nr /\ Quiet /\ CourierInv /\ job \in [Nr -> Jobs]
      /\ Len(legs) \in Nr
  BY Types DEF AgreeInv, CourierInv
<1>1. /\ legs' = legs /\ submit' = submit /\ queue' = queue
      /\ job' = [job EXCEPT ![l] = JobAfter(@, "cancelled")] \/ job' = job
  BY DEF CourierCancels
<1>2. Alone'
  BY <1>1, StillAlone
<1> HIDE DEF l
<1>3. \A m \in Nr : Ended(job'[m].status) => Ended(job[m].status)
  <2>1. \A m \in Nr : job'[m] = job[m] \/ job'[m].status = "cancelled"
    BY <1>0, <1>1 DEF JobAfter
  <2> QED BY <2>1 DEF Ended
<1>4. OnTheWay => OnTheWay'
  BY <1>0, <1>1, <1>3 DEF OnTheWay, Latest
<1>5. ASSUME NEW w \in Workers, submit'[w].at = "accepted"
      PROVE  ~Ended(job'[submit'[w].leg].status)
  <2>1. submit[w].leg \in Nr /\ ~Ended(job[submit[w].leg].status)
    BY <1>0, <1>1, <1>5 DEF CourierInv, WorkerOK, Quiet
  <2> QED BY <1>1, <1>3, <2>1
<1> QED BY <1>0, <1>1, <1>2, <1>4, <1>5 DEF Quiet

(* A leg of the pool: the order moves with it, and a delivery that ends    *)
(* leaves no submission unanswered.                                        *)
LEMMA PoolAgrees ==
  ASSUME AgreeInv, NEW l \in DOMAIN legs, NEW event \in {"assigned", "picked_up", "delivered"},
         PoolProgresses(l, event)
  PROVE  Alone' /\ Quiet' /\ LegAndOrderAgree'
<1> DEFINE to == NextLegStatus(legs[l].status, event)
           r == [legs[l] EXCEPT !.status = to]
<1>0. /\ TypeOK /\ DOMAIN legs \subseteq Nr /\ Quiet /\ Alone /\ CourierInv /\ legs \in Seq(LegRows)
      /\ legs[l] \in LegRows /\ NotYet /\ DOMAIN legs = 1 .. Len(legs) /\ Len(legs) \in Nat
      /\ LegAndOrderAgree
  BY Types DEF AgreeInv, CourierInv, Nr
<1>1. /\ submit' = submit /\ queue' = queue /\ job' = job
      /\ ~legs[l].remote /\ to # NoStatus /\ CallsEndFirst(event)
      /\ legs' = [legs EXCEPT ![l] = r] /\ status' = OrderAfter(<<event>>)
  BY DEF PoolProgresses
<1>2. Moved(legs[l].status, event, to) /\ event \in DeliveryEvents
  BY <1>1, LegMoves DEF DeliveryEvents, LegTransitions
<1> HIDE DEF to
<1>3. legs[l].status \in ActiveLegStatuses /\ to \in LegStatuses
  BY <1>2, OneMove
<1>4. r \in LegRows /\ r.status = to /\ r.booked = legs[l].booked
  BY <1>0, <1>3 DEF LegRows
<1> HIDE DEF r
<1>5. /\ Len(legs') = Len(legs) /\ legs'[l] = r
      /\ \A m \in DOMAIN legs : m # l => legs'[m] = legs[m]
  BY <1>0, <1>1, <1>4, OneRow
<1>6. RowOK(legs[l], l = Len(legs), queue[l], job[l])
  BY <1>0 DEF CourierInv, Rows
<1>7. l = Len(legs) /\ ~legs[l].booked
  BY <1>1, <1>3, <1>6 DEF RowOK
<1>8. Latest = legs[l] /\ Latest' = r
  BY <1>5, <1>7 DEF Latest
<1>9. LegAndOrderAgree'
  <2>1. status = StatusOf(legs[l].status)
    BY <1>0, <1>8 DEF LegAndOrderAgree
  <2>2. status' = Moves(status, event)
    BY <1>1, <1>2, OneEvent
  <2>3. Moves(StatusOf(legs[l].status), event) = StatusOf(to)
    BY <1>2, OneMove
  <2> QED BY <1>4, <1>8, <2>1, <2>2, <2>3 DEF LegAndOrderAgree
<1>10. Alone'
  <2>1. \A m \in DOMAIN legs : queue'[m] = queue[m] /\ legs'[m].booked = legs[m].booked
    BY <1>1, <1>4, <1>5
  <2>2. \A m \in Nr : m \in DOMAIN legs \/ queue'[m] <= 1
    BY <1>0, <1>1 DEF NotYet, Nr
  <2>3. \A w \in Workers : submit'[w] = submit[w]
    BY <1>1
  <2> QED BY <1>0, <2>1, <2>2, <2>3, AloneKept
<1>11. Quiet'
  <2>1. CASE event = "delivered"
    <3>1. \A w \in Workers : submit'[w].at = "idle"
      BY <1>1, <2>1 DEF CallsEndFirst, IdleWorker
    <3> QED BY <3>1 DEF Quiet
  <2>2. CASE event # "delivered"
    <3>1. ~Ended(to)
      BY <1>2, <2>2 DEF Moved, Ended
    <3>2. OnTheWay'
      BY <1>4, <1>7, <1>8, <3>1 DEF OnTheWay
    <3> QED BY <1>0, <1>1, <3>2 DEF Quiet
  <2> QED BY <2>1, <2>2
<1> QED BY <1>9, <1>10, <1>11

(* A leg is closed while its order waits at the counter: what dispatch     *)
(* adds finds the order there.                                             *)
LEMMA ClosedAgrees ==
  ASSUME AgreeInv, NEW l \in DOMAIN legs, job' = job,
         Dispatch([legs EXCEPT ![l].status = "cancelled"]),
         \A w \in Workers : submit'[w] = IdleWorker \/ submit'[w] = submit[w],
         l = Len(legs) => status' = "parcel_received_at_origin",
         l # Len(legs) => status' = status /\ OnTheWay
  PROVE  Alone' /\ Quiet' /\ LegAndOrderAgree'
<1> DEFINE r == [legs[l] EXCEPT !.status = "cancelled"]
<1>0. /\ TypeOK /\ DOMAIN legs \subseteq Nr /\ Quiet /\ Alone /\ CourierInv
      /\ legs[l] \in LegRows /\ Latest.status \in LegStatuses /\ LegAndOrderAgree
  BY Types, LastLeg DEF AgreeInv, CourierInv
<1>1. r \in LegRows /\ r.status = "cancelled" /\ r.booked = legs[l].booked
  BY <1>0 DEF LegRows, LegStatuses
<1>2. Dispatch([legs EXCEPT ![l] = r])
  <2>1. [legs EXCEPT ![l].status = "cancelled"] = [legs EXCEPT ![l] = r]
    OBVIOUS
  <2> QED BY <2>1
<1> HIDE DEF r
<1>3. /\ \A m \in DOMAIN legs : queue'[m] = queue[m] /\ legs'[m].booked = legs[m].booked
      /\ \A m \in Nr : m \in DOMAIN legs \/ queue'[m] <= 1
      /\ \/ /\ Len(legs') = Len(legs) /\ legs' = [legs EXCEPT ![l] = r]
            /\ Latest' = IF l = Len(legs) THEN r ELSE Latest
         \/ /\ Latest'.status = "requested" /\ ~Latest'.booked
            /\ IF l = Len(legs) THEN r.status \notin ActiveLegStatuses
               ELSE Latest.status \notin ActiveLegStatuses
  BY <1>0, <1>1, <1>2, AfterRow
<1>4. Alone'
  BY <1>0, <1>3, AloneKept
<1>5. LegAndOrderAgree' /\ OnTheWay'
  <2>1. CASE l = Len(legs)
    <3>1. Latest'.status = "cancelled" \/ (Latest'.status = "requested" /\ ~Latest'.booked)
      BY <1>1, <1>3, <2>1
    <3>2. StatusOf(Latest'.status) = "parcel_received_at_origin"
      BY <3>1 DEF StatusOf
    <3>3. LegAndOrderAgree'
      BY <2>1, <3>2 DEF LegAndOrderAgree
    <3>4. OnTheWay'
      BY <3>1 DEF OnTheWay, Ended, ActiveLegStatuses
    <3> QED BY <3>3, <3>4
  <2>2. CASE l # Len(legs)
    <3>1. CASE Latest' = Latest /\ Len(legs') = Len(legs)
      BY <1>0, <2>2, <3>1 DEF LegAndOrderAgree, OnTheWay
    <3>2. CASE /\ Latest'.status = "requested" /\ ~Latest'.booked
               /\ Latest.status \notin ActiveLegStatuses
      <4>1. Latest.status = "cancelled"
        BY <1>0, <2>2, <3>2 DEF OnTheWay, Ended, LegStatuses, ActiveLegStatuses
      <4>2. StatusOf(Latest'.status) = StatusOf(Latest.status)
        BY <3>2, <4>1 DEF StatusOf
      <4>3. LegAndOrderAgree'
        BY <1>0, <2>2, <4>2 DEF LegAndOrderAgree
      <4>4. OnTheWay'
        BY <3>2 DEF OnTheWay, Ended
      <4> QED BY <4>3, <4>4
    <3> QED BY <1>3, <2>2, <3>1, <3>2
  <2> QED BY <2>1, <2>2
<1>6. ASSUME NEW w \in Workers, submit'[w].at = "accepted"
      PROVE  ~Ended(job'[submit'[w].leg].status)
  <2>1. submit'[w] = submit[w]
    BY <1>6 DEF IdleWorker
  <2> QED BY <1>0, <1>6, <2>1 DEF Quiet
<1> QED BY <1>4, <1>5, <1>6 DEF Quiet

LEMMA RefusedAgrees ==
  ASSUME AgreeInv, NEW w \in Workers, RecordRefused(w)
  PROVE  Alone' /\ Quiet' /\ LegAndOrderAgree'
<1> DEFINE l == submit[w].leg
<1>0. /\ TypeOK /\ Quiet /\ Alone /\ CourierInv /\ LegAndOrderAgree
      /\ submit \in [Workers -> [leg : 0 .. MaxLegs, at : {"idle", "asking", "accepted", "refused"}]]
  BY Types DEF AgreeInv, CourierInv
<1>1. /\ status' = status /\ job' = job /\ submit[w].at = "refused"
      /\ Dispatch([legs EXCEPT ![l].status = "cancelled"])
      /\ submit' = [submit EXCEPT ![w] = IdleWorker]
  BY DEF RecordRefused, Working
<1>2. l \in DOMAIN legs /\ legs[l].remote /\ ~legs[l].booked /\ OnTheWay
  BY <1>0, <1>1 DEF CourierInv, WorkerOK, Alone, Quiet
<1>3. legs[l].status \in {"requested", "cancelled"}
  BY <1>0, <1>2 DEF CourierInv, Rows, RowOK
<1>4. l = Len(legs) => status = "parcel_received_at_origin"
  BY <1>0, <1>3 DEF LegAndOrderAgree, Latest, StatusOf
<1>5. \A v \in Workers : submit'[v] = IdleWorker \/ submit'[v] = submit[v]
  BY <1>0, <1>1
<1> HIDE DEF l
<1> QED BY <1>1, <1>2, <1>4, <1>5, ClosedAgrees

LEMMA CancelLegAgrees ==
  ASSUME AgreeInv, CancelLeg
  PROVE  Alone' /\ Quiet' /\ LegAndOrderAgree'
<1> DEFINE l == cancel.leg
<1>0. /\ TypeOK /\ Quiet /\ Alone /\ CourierInv /\ LegAndOrderAgree
  BY DEF AgreeInv, CourierInv
<1>1. /\ job' = job /\ submit' = submit /\ cancel.at = "closing"
      /\ \/ status' = status /\ legs' = legs /\ queue' = queue
         \/ /\ NextLegStatus(legs[l].status, "cancelled") # NoStatus
            /\ status' = OrderAfter(<<"cancelled">>)
            /\ Dispatch([legs EXCEPT ![l].status = "cancelled"])
  BY DEF CancelLeg
<1>2. l \in DOMAIN legs
  BY <1>0, <1>1 DEF CourierInv, CancelOK
<1> HIDE DEF l
<1>3. CASE status' = status /\ legs' = legs /\ queue' = queue
  BY <1>0, <1>1, <1>3, SameRowsAgree, StillAlone DEF Quiet, OnTheWay, Latest
<1>4. CASE /\ NextLegStatus(legs[l].status, "cancelled") # NoStatus
           /\ status' = OrderAfter(<<"cancelled">>)
           /\ Dispatch([legs EXCEPT ![l].status = "cancelled"])
  <2>1. Moved(legs[l].status, "cancelled", NextLegStatus(legs[l].status, "cancelled"))
    BY <1>4, LegMoves
  <2>2. legs[l].status \in {"requested", "assigned"} /\ "cancelled" \in DeliveryEvents
    BY <2>1, MovesLeg DEF Moved
  <2>3. l = Len(legs)
    <3>1. RowOK(legs[l], l = Len(legs), queue[l], job[l])
      BY <1>0, <1>2 DEF CourierInv, Rows
    <3> QED BY <2>2, <3>1 DEF RowOK, ActiveLegStatuses
  <2>4. status' = Moves(status, "cancelled")
    BY <1>4, <2>2, OneEvent
  <2>5. status = StatusOf(legs[l].status)
    BY <1>0, <2>3 DEF LegAndOrderAgree, Latest
  <2>6. status' = "parcel_received_at_origin"
    BY <2>2, <2>4, <2>5 DEF Moves, StatusOf
  <2> QED BY <1>0, <1>1, <1>2, <1>4, <2>3, <2>6, ClosedAgrees
<1> QED BY <1>1, <1>3, <1>4

LEMMA SnapshotAgrees ==
  ASSUME AgreeInv, NEW p \in Pollers, ApplySnapshot(p)
  PROVE  Alone' /\ Quiet' /\ LegAndOrderAgree'
<1> DEFINE l == poll[p].leg
           seen == poll[p].seen
           path == EventsToReach(legs[l].status, seen.status)
           r == RowAfter(legs[l], seen)
<1>0. /\ TypeOK /\ DOMAIN legs \subseteq Nr /\ Quiet /\ Alone /\ CourierInv /\ LegAndOrderAgree
      /\ job \in [Nr -> Jobs] /\ poll \in [Pollers -> [leg : 0 .. MaxLegs, seen : Jobs]]
      /\ status \in OrderStatuses
  BY Types DEF AgreeInv, CourierInv, TypeOK
<1>1. /\ poll[p] # IdlePoller /\ submit' = submit /\ job' = job
      /\ \/ status' = status /\ legs' = legs /\ queue' = queue
         \/ /\ legs[l].sequence = 0 \/ seen.sequence > legs[l].sequence
            /\ status' = OrderAfter(path)
            /\ Dispatch([legs EXCEPT ![l] = r])
            /\ path = << >> \/ seen.status # "cancelled" =>
                 legs' = [legs EXCEPT ![l] = r] /\ queue' = queue
  BY <1>0, SnapshotIs
<1>2. /\ l \in DOMAIN legs /\ l \in Nr /\ legs[l] \in LegRows /\ seen \in Jobs /\ job[l] \in Jobs
      /\ SeenOK(seen, legs[l], job[l])
  <2>1. l \in DOMAIN legs /\ SeenOK(seen, legs[l], job[l])
    BY <1>0, <1>1 DEF CourierInv, PollOK
  <2> QED BY <1>0, <2>1, Types
<1>3. RowOK(legs[l], l = Len(legs), queue[l], job[l])
  BY <1>0, <1>2 DEF CourierInv, Rows
<1>4. /\ seen.status \in LegStatuses /\ legs[l].status \in LegStatuses /\ legs[l].booked
      /\ job[l].status \in Ahead(seen.status)
  BY <1>2 DEF SeenOK, Jobs, LegRows
<1>5. CASE status' = status /\ legs' = legs /\ queue' = queue
  BY <1>0, <1>1, <1>5, SameRowsAgree, StillAlone DEF Quiet, OnTheWay, Latest
<1>6. CASE /\ legs[l].sequence = 0 \/ seen.sequence > legs[l].sequence
           /\ status' = OrderAfter(path)
           /\ Dispatch([legs EXCEPT ![l] = r])
           /\ path = << >> \/ seen.status # "cancelled" =>
                legs' = [legs EXCEPT ![l] = r] /\ queue' = queue
  <2>1. /\ r \in LegRows /\ r.booked = legs[l].booked
        /\ r.status = IF legs[l].status = "cancelled" THEN legs[l].status ELSE seen.status
        /\ path # << >> => /\ legs[l].status \in ActiveLegStatuses /\ l = Len(legs)
                           /\ seen.status # legs[l].status
    BY <1>2, <1>3, <1>6, ReportTaken
  <2>2. path = << >> => r.status = legs[l].status
    BY <1>2 DEF RowAfter, LegRows
  <2>3. status = StatusOf(legs[l].status) /\ path # << >> => status' = StatusOf(seen.status)
    BY <1>4, <1>6, CaughtUp
  <2>4. path = << >> => status' = status
    <3>1. << >> \in Seq(DeliveryEvents) /\ Len(<< >>) = 0 /\ Len(<< >>) \in 0 .. 4
      OBVIOUS
    <3>2. OrderAfter(<< >>) = status
      BY <3>1, OrderAfterEvents
    <3> QED BY <1>6, <3>2
  <2> HIDE DEF r, path
  <2>5. /\ \A m \in DOMAIN legs : queue'[m] = queue[m] /\ legs'[m].booked = legs[m].booked
        /\ \A m \in Nr : m \in DOMAIN legs \/ queue'[m] <= 1
        /\ \/ /\ Len(legs') = Len(legs) /\ legs' = [legs EXCEPT ![l] = r]
              /\ Latest' = IF l = Len(legs) THEN r ELSE Latest
           \/ /\ Latest'.status = "requested" /\ ~Latest'.booked
              /\ IF l = Len(legs) THEN r.status \notin ActiveLegStatuses
                 ELSE Latest.status \notin ActiveLegStatuses
    BY <1>0, <1>2, <1>6, <2>1, AfterRow
  <2>6. Alone'
    BY <1>0, <1>1, <2>5, AloneKept
  <2>7. path = << >> \/ seen.status # "cancelled" =>
          Len(legs') = Len(legs) /\ Latest' = IF l = Len(legs) THEN r ELSE Latest
    <3>1. ASSUME legs' = [legs EXCEPT ![l] = r]
          PROVE  Len(legs') = Len(legs) /\ Latest' = IF l = Len(legs) THEN r ELSE Latest
      <4>1. /\ Len(legs') = Len(legs) /\ legs'[l] = r
            /\ \A m \in DOMAIN legs : m # l => legs'[m] = legs[m]
        BY <1>0, <1>2, <2>1, <3>1, OneRow
      <4>2. Len(legs) \in DOMAIN legs
        BY <1>0, LastLeg
      <4> QED BY <4>1, <4>2 DEF Latest
    <3> QED BY <1>6, <3>1
  <2>8. CASE path = << >>
    <3>1. Len(legs') = Len(legs) /\ Latest'.status = Latest.status /\ Latest'.booked = Latest.booked
      BY <2>1, <2>2, <2>7, <2>8 DEF Latest
    <3>2. LegAndOrderAgree'
      BY <1>0, <2>4, <2>8, <3>1 DEF LegAndOrderAgree
    <3>3. OnTheWay => OnTheWay'
      BY <1>1, <3>1 DEF OnTheWay
    <3> QED BY <1>0, <1>1, <2>6, <3>2, <3>3 DEF Quiet
  <2>9. CASE path # << >>
    <3>1. /\ l = Len(legs) /\ Latest = legs[l] /\ legs[l].status \in ActiveLegStatuses
          /\ r.status = seen.status
      BY <2>1, <2>9 DEF Latest, ActiveLegStatuses
    <3>2. status' = StatusOf(seen.status)
      BY <1>0, <2>3, <2>9, <3>1 DEF LegAndOrderAgree
    <3>3. \/ Len(legs') = Len(legs) /\ Latest' = r
          \/ Latest'.status = "requested" /\ ~Latest'.booked /\ seen.status = "cancelled"
      BY <2>5, <2>7, <3>1
    <3>4. LegAndOrderAgree'
      BY <3>1, <3>2, <3>3 DEF LegAndOrderAgree, StatusOf
    <3>5. OnTheWay => OnTheWay'
      <4> SUFFICES ASSUME OnTheWay PROVE OnTheWay'
        OBVIOUS
      <4>1. ~Ended(job[l].status)
        BY <1>4, <3>1 DEF OnTheWay
      <4>2. ~Ended(seen.status)
        BY <1>4, <4>1 DEF Ahead, Ended
      <4> QED BY <1>1, <3>1, <3>3, <4>1, <4>2 DEF OnTheWay, Ended
    <3> QED BY <1>0, <1>1, <2>6, <3>4, <3>5 DEF Quiet
  <2> QED BY <2>8, <2>9
<1> QED BY <1>1, <1>5, <1>6

LEMMA AgreeStep ==
  ASSUME AgreeInv, ~Duplicates, [Next]_vars
  PROVE  AgreeInv'
<1>1. CourierInv'
  BY CourierInvStep DEF AgreeInv
<1>2. CASE UNCHANGED vars
  BY <1>1, <1>2 DEF vars, AgreeInv, Alone, Quiet, OnTheWay, Latest, LegAndOrderAgree
<1>3. CASE CourierStep
  <2>1. legs' = legs /\ status' = status
    BY <1>3 DEF CourierStep, BeginSubmit, Retry, CourierProgresses, ReadJob, BeginCancel,
       CourierAccepts, CourierRefuses, SubmitFails, CourierCancels
  <2>2. ASSUME NEW l \in DOMAIN legs, BeginCancel(l) \/ \E p \in Pollers : ReadJob(p, l)
        PROVE  Alone' /\ Quiet'
    <3>1. legs' = legs /\ queue' = queue /\ submit' = submit /\ job' = job
      BY <2>2 DEF BeginCancel, ReadJob
    <3>2. Alone'
      BY <3>1, StillAlone
    <3>3. Quiet'
      BY <3>1 DEF AgreeInv, Quiet, OnTheWay, Latest
    <3> QED BY <3>2, <3>3
  <2>3. Alone' /\ Quiet'
    BY <1>3, <2>2, BeginSubmitAgrees, RetryAgrees, ProgressAgrees, AnswersAgree,
       SubmitFailsAgrees, CourierCancelsAgrees DEF CourierStep
  <2> QED BY <1>1, <2>1, <2>3, SameRowsAgree DEF AgreeInv
<1>4. ASSUME NEW l \in DOMAIN legs, NEW event \in {"assigned", "picked_up", "delivered"},
             PoolProgresses(l, event)
      PROVE  AgreeInv'
  BY <1>1, <1>4, PoolAgrees DEF AgreeInv
<1>5. ASSUME NEW w \in Workers, RecordAccepted(w) \/ RecordRefused(w)
      PROVE  AgreeInv'
  BY <1>1, <1>5, RecordAcceptedAgrees, RefusedAgrees DEF AgreeInv
<1>6. ASSUME NEW p \in Pollers, ApplySnapshot(p)
      PROVE  AgreeInv'
  BY <1>1, <1>6, SnapshotAgrees DEF AgreeInv
<1>7. CASE CancelLeg
  BY <1>1, <1>7, CancelLegAgrees DEF AgreeInv
<1> QED BY <1>2, <1>3, <1>4, <1>5, <1>6, <1>7 DEF Next, CourierStep

(* "The leg never moves without the order moving with it"                  *)
(* (delivery-event-bus.ts), as long as an Admin retries only a submission  *)
(* that is no longer queued or under way: refusals, reports and            *)
(* cancellations, however they race, leave the order where its latest leg  *)
(* is.                                                                     *)
THEOREM OrderFollowsItsLeg ==
  ASSUME ~Duplicates
  PROVE  Spec => []LegAndOrderAgree
<1>1. AgreeInv /\ [Next]_vars => AgreeInv'
  BY AgreeStep
<1>2. AgreeInv => LegAndOrderAgree
  BY DEF AgreeInv
<1> QED BY <1>1, <1>2, FirstAgree, PTL DEF Spec

-----------------------------------------------------------------------------
(* The parcel's journey.                                                   *)

(* While the parcel is at the counter its leg can be closed and the next   *)
(* one made; after that the leg stays the latest and only goes ahead.      *)
AtTheCounter(s) == s \in {"requested", "assigned", "cancelled"}
GoesAhead ==
  \/ Len(legs') = Len(legs) /\ Latest'.status \in Ahead(Latest.status)
  \/ AtTheCounter(Latest.status) /\ AtTheCounter(Latest'.status)

LEMMA SameStatusStays ==
  ASSUME CourierInv, Len(legs') = Len(legs), Latest'.status = Latest.status
  PROVE  GoesAhead
<1>1. Latest.status \in LegStatuses
  BY LastLeg DEF CourierInv
<1>2. Latest.status \in Ahead(Latest.status)
  BY <1>1, AheadIsAPreorder
<1> QED BY <1>2 DEF GoesAhead

(* A row is replaced by one that is ahead of it, and dispatch follows.     *)
LEMMA RowGoesAhead ==
  ASSUME CourierInv, NEW l \in DOMAIN legs, NEW r \in LegRows, r.booked = legs[l].booked,
         r.status \in Ahead(legs[l].status), Dispatch([legs EXCEPT ![l] = r]),
         \/ legs' = [legs EXCEPT ![l] = r]
         \/ AtTheCounter(Latest.status)
         \/ l # Len(legs) /\ Latest.status \in ActiveLegStatuses
  PROVE  GoesAhead
<1>1. TypeOK /\ Latest.status \in LegStatuses /\ Len(legs) \in DOMAIN legs
  BY LastLeg DEF CourierInv
<1>2. Latest.status \in Ahead(Latest.status)
  BY <1>1, AheadIsAPreorder
<1>3. CASE Len(legs') = Len(legs) /\ Latest' = IF l = Len(legs) THEN r ELSE Latest
  <2>1. l = Len(legs) => Latest = legs[l]
    BY DEF Latest
  <2> QED BY <1>2, <1>3, <2>1 DEF GoesAhead
<1>4. CASE legs' = [legs EXCEPT ![l] = r]
  <2>1. /\ Len(legs') = Len(legs) /\ legs'[l] = r
        /\ \A m \in DOMAIN legs : m # l => legs'[m] = legs[m]
    BY <1>1, <1>4, OneRow
  <2> QED BY <1>1, <1>3, <2>1 DEF Latest
<1>5. CASE /\ Latest'.status = "requested"
           /\ IF l = Len(legs) THEN r.status \notin ActiveLegStatuses
              ELSE Latest.status \notin ActiveLegStatuses
           /\ legs' # [legs EXCEPT ![l] = r]
  BY <1>5 DEF GoesAhead, AtTheCounter
<1>6. \/ Len(legs') = Len(legs) /\ Latest' = IF l = Len(legs) THEN r ELSE Latest
      \/ /\ Latest'.status = "requested"
         /\ IF l = Len(legs) THEN r.status \notin ActiveLegStatuses
            ELSE Latest.status \notin ActiveLegStatuses
  BY AfterRow
<1> QED BY <1>3, <1>4, <1>5, <1>6

(* A leg is only closed while the parcel is at the counter.                *)
LEMMA ClosedGoesAhead ==
  ASSUME CourierInv, NEW l \in DOMAIN legs, AtTheCounter(legs[l].status),
         Dispatch([legs EXCEPT ![l].status = "cancelled"]),
         l # Len(legs) => ~Ended(Latest.status)
  PROVE  GoesAhead
<1> DEFINE r == [legs[l] EXCEPT !.status = "cancelled"]
<1>0. TypeOK /\ legs[l] \in LegRows /\ Latest.status \in LegStatuses
  BY Types, LastLeg DEF CourierInv
<1>1. r \in LegRows /\ r.status = "cancelled" /\ r.booked = legs[l].booked
  BY <1>0 DEF LegRows, LegStatuses
<1>2. Dispatch([legs EXCEPT ![l] = r])
  <2>1. [legs EXCEPT ![l].status = "cancelled"] = [legs EXCEPT ![l] = r]
    OBVIOUS
  <2> QED BY <2>1
<1> HIDE DEF r
<1>3. r.status \in Ahead(legs[l].status)
  BY <1>1 DEF Ahead, AtTheCounter, LegStatuses
<1>4. AtTheCounter(Latest.status) \/ (l # Len(legs) /\ Latest.status \in ActiveLegStatuses)
  BY <1>0 DEF Latest, Ended, AtTheCounter, LegStatuses, ActiveLegStatuses
<1> QED BY <1>1, <1>2, <1>3, <1>4, RowGoesAhead

LEMMA RefusedGoesAhead ==
  ASSUME AgreeInv, NEW w \in Workers, RecordRefused(w)
  PROVE  GoesAhead
<1> DEFINE l == submit[w].leg
<1>0. Quiet /\ Alone /\ CourierInv
  BY DEF AgreeInv
<1>1. submit[w].at = "refused" /\ Dispatch([legs EXCEPT ![l].status = "cancelled"])
  BY DEF RecordRefused, Working
<1>2. l \in DOMAIN legs /\ legs[l].remote /\ ~legs[l].booked /\ OnTheWay
  BY <1>0, <1>1 DEF CourierInv, WorkerOK, Alone, Quiet
<1>3. legs[l].status \in {"requested", "cancelled"}
  BY <1>0, <1>2 DEF CourierInv, Rows, RowOK
<1> HIDE DEF l
<1> QED BY <1>0, <1>1, <1>2, <1>3, ClosedGoesAhead DEF AtTheCounter, OnTheWay

LEMMA CancelGoesAhead ==
  ASSUME CourierInv, CancelLeg
  PROVE  GoesAhead
<1> DEFINE l == cancel.leg
<1>1. /\ cancel.at = "closing"
      /\ \/ legs' = legs
         \/ /\ NextLegStatus(legs[l].status, "cancelled") # NoStatus
            /\ Dispatch([legs EXCEPT ![l].status = "cancelled"])
  BY DEF CancelLeg
<1>2. l \in DOMAIN legs
  BY <1>1 DEF CourierInv, CancelOK
<1> HIDE DEF l
<1>3. CASE legs' = legs
  BY <1>3, SameStatusStays DEF Latest
<1>4. CASE /\ NextLegStatus(legs[l].status, "cancelled") # NoStatus
           /\ Dispatch([legs EXCEPT ![l].status = "cancelled"])
  <2>1. Moved(legs[l].status, "cancelled", NextLegStatus(legs[l].status, "cancelled"))
    BY <1>4, LegMoves
  <2>2. legs[l].status \in {"requested", "assigned"}
    BY <2>1 DEF Moved
  <2>3. l = Len(legs)
    <3>1. RowOK(legs[l], l = Len(legs), queue[l], job[l])
      BY <1>2 DEF CourierInv, Rows
    <3> QED BY <2>2, <3>1 DEF RowOK, ActiveLegStatuses
  <2> QED BY <1>2, <1>4, <2>2, <2>3, ClosedGoesAhead DEF AtTheCounter
<1> QED BY <1>1, <1>3, <1>4

LEMMA ReportGoesAhead ==
  ASSUME CourierInv, NEW p \in Pollers, ApplySnapshot(p)
  PROVE  GoesAhead
<1> DEFINE l == poll[p].leg
           seen == poll[p].seen
           path == EventsToReach(legs[l].status, seen.status)
           r == RowAfter(legs[l], seen)
<1>0. /\ job \in [Nr -> Jobs] /\ poll \in [Pollers -> [leg : 0 .. MaxLegs, seen : Jobs]]
      /\ DOMAIN legs \subseteq Nr /\ TypeOK
  BY Types DEF CourierInv, TypeOK
<1>1. /\ poll[p] # IdlePoller
      /\ \/ legs' = legs
         \/ /\ legs[l].sequence = 0 \/ seen.sequence > legs[l].sequence
            /\ Dispatch([legs EXCEPT ![l] = r])
            /\ path = << >> \/ seen.status # "cancelled" => legs' = [legs EXCEPT ![l] = r]
  BY SnapshotIs
<1>2. /\ l \in DOMAIN legs /\ legs[l] \in LegRows /\ seen \in Jobs /\ job[l] \in Jobs
      /\ SeenOK(seen, legs[l], job[l])
  <2>1. l \in DOMAIN legs /\ SeenOK(seen, legs[l], job[l])
    BY <1>1 DEF CourierInv, PollOK
  <2> QED BY <1>0, <2>1, Types
<1>3. RowOK(legs[l], l = Len(legs), queue[l], job[l])
  BY <1>2 DEF CourierInv, Rows
<1>4. CASE legs' = legs
  BY <1>4, SameStatusStays DEF Latest
<1>5. CASE /\ legs[l].sequence = 0 \/ seen.sequence > legs[l].sequence
           /\ Dispatch([legs EXCEPT ![l] = r])
           /\ path = << >> \/ seen.status # "cancelled" => legs' = [legs EXCEPT ![l] = r]
  <2>1. /\ r \in LegRows /\ r.booked = legs[l].booked
        /\ r.status = IF legs[l].status = "cancelled" THEN legs[l].status ELSE seen.status
        /\ path # << >> => legs[l].status \in ActiveLegStatuses /\ l = Len(legs)
    BY <1>2, <1>3, <1>5, ReportTaken
  <2>2. legs[l].status # "cancelled" => seen.status \in Ahead(legs[l].status)
    <3>1. seen.sequence > legs[l].sequence
      BY <1>2, <1>5 DEF SeenOK, LegRows, Jobs
    <3> QED BY <1>2, <3>1 DEF SeenOK
  <2> HIDE DEF r, path
  <2>3. r.status \in Ahead(legs[l].status)
    BY <2>1, <2>2 DEF Ahead
  <2>4. path # << >> /\ seen.status = "cancelled" => AtTheCounter(Latest.status)
    BY <2>1, <2>2 DEF Ahead, ActiveLegStatuses, Latest, AtTheCounter
  <2> QED BY <1>2, <1>5, <2>1, <2>3, <2>4, RowGoesAhead
<1> QED BY <1>1, <1>4, <1>5

LEMMA PoolGoesAhead ==
  ASSUME CourierInv, NEW l \in DOMAIN legs, NEW event \in {"assigned", "picked_up", "delivered"},
         PoolProgresses(l, event)
  PROVE  GoesAhead
<1> DEFINE to == NextLegStatus(legs[l].status, event)
           r == [legs[l] EXCEPT !.status = to]
<1>0. TypeOK /\ legs[l] \in LegRows
  BY Types DEF CourierInv
<1>1. to # NoStatus /\ legs' = [legs EXCEPT ![l] = r] /\ queue' = queue
  BY DEF PoolProgresses
<1>2. Moved(legs[l].status, event, to)
  BY <1>1, LegMoves
<1> HIDE DEF to
<1>3. legs[l].status \in LegStatuses /\ to \in LegStatuses
  BY <1>0, <1>2, OneMove DEF LegRows
<1>4. r \in LegRows /\ r.status = to /\ r.booked = legs[l].booked
  BY <1>0, <1>3 DEF LegRows
<1> HIDE DEF r
<1>5. r.status \in Ahead(legs[l].status)
  BY <1>2, <1>3, <1>4, AheadIsAPreorder
<1>6. Dispatch([legs EXCEPT ![l] = r])
  BY <1>1 DEF Dispatch
<1> QED BY <1>1, <1>4, <1>5, <1>6, RowGoesAhead

LEMMA BookedGoesAhead ==
  ASSUME CourierInv, NEW w \in Workers, RecordAccepted(w)
  PROVE  GoesAhead
<1> DEFINE l == submit[w].leg
<1>0. TypeOK /\ legs \in Seq(LegRows) /\ Len(legs) \in DOMAIN legs
  BY Types, LastLeg DEF CourierInv
<1>1. submit[w].at = "accepted" /\ legs' = [legs EXCEPT ![l].booked = TRUE]
  BY DEF RecordAccepted, Working
<1>2. l \in DOMAIN legs
  BY <1>1 DEF CourierInv, WorkerOK
<1> HIDE DEF l
<1>3. /\ Len(legs') = Len(legs) /\ \A m \in DOMAIN legs : m # l => legs'[m] = legs[m]
      /\ legs[l] \in LegRows /\ legs'[l] = [legs[l] EXCEPT !.booked = TRUE]
  BY <1>0, <1>1, <1>2
<1>4. legs'[l].status = legs[l].status
  BY <1>3 DEF LegRows
<1>5. Latest'.status = Latest.status
  BY <1>0, <1>3, <1>4 DEF Latest
<1> QED BY <1>3, <1>5, SameStatusStays

LEMMA JourneyGoesAhead ==
  ASSUME AgreeInv, [Next]_vars
  PROVE  GoesAhead
<1>0. CourierInv
  BY DEF AgreeInv
<1>1. CASE legs' = legs
  BY <1>0, <1>1, SameStatusStays DEF Latest
<1>2. CASE CourierStep \/ UNCHANGED vars
  BY <1>1, <1>2 DEF vars, CourierStep, BeginSubmit, Retry, CourierProgresses, ReadJob,
     BeginCancel, CourierAccepts, CourierRefuses, SubmitFails, CourierCancels
<1>3. ASSUME NEW l \in DOMAIN legs, NEW event \in {"assigned", "picked_up", "delivered"},
             PoolProgresses(l, event)
      PROVE  GoesAhead
  BY <1>0, <1>3, PoolGoesAhead
<1>4. ASSUME NEW w \in Workers, RecordAccepted(w) \/ RecordRefused(w)
      PROVE  GoesAhead
  BY <1>0, <1>4, BookedGoesAhead, RefusedGoesAhead
<1>5. ASSUME NEW p \in Pollers, ApplySnapshot(p)
      PROVE  GoesAhead
  BY <1>0, <1>5, ReportGoesAhead
<1>6. CASE CancelLeg
  BY <1>0, <1>6, CancelGoesAhead
<1> QED BY <1>2, <1>3, <1>4, <1>5, <1>6 DEF Next, CourierStep

(* Where the parcel is, by its leg. *)
PlaceOf(s) ==
  CASE s \in {"requested", "assigned", "cancelled"} -> "origin"
    [] s = "picked_up" -> "courier_out"
    [] s = "delivered" -> "destination"
    [] s = "returning" -> "courier_back"
    [] s = "returned"  -> "origin_again"

LEMMA PlaceByLeg ==
  ASSUME LegAndOrderAgree, Latest.status \in LegStatuses
  PROVE  Place = PlaceOf(Latest.status)
BY DEF LegAndOrderAgree, StatusOf, Place, PlaceOf, LegStatuses

LEMMA AheadIsACustodyStep ==
  ASSUME NEW s \in LegStatuses, NEW t \in LegStatuses, s # t,
         t \in Ahead(s) \/ (AtTheCounter(s) /\ AtTheCounter(t))
  PROVE  \/ AtTheCounter(s) /\ AtTheCounter(t)
         \/ AtTheCounter(s) /\ t \in {"picked_up", "delivered", "returning", "returned"}
         \/ s = "picked_up" /\ t \in {"delivered", "returning", "returned"}
         \/ s = "returning" /\ t = "returned"
BY DEF Ahead, AtTheCounter, LegStatuses

CustodyMoves == Custody!CustodyNext \/ UNCHANGED Custody!custodyVars

LEMMA JourneyIsCustody ==
  ASSUME GoesAhead, Latest.status \in LegStatuses, Latest'.status \in LegStatuses,
         Len(legs) \in Nr, Len(legs') \in Nr, LegAndOrderAgree, LegAndOrderAgree'
  PROVE  CustodyMoves
<1> DEFINE s == Latest.status
           t == Latest'.status
           here == [p \in {TheOrder} |-> Place]
           held == [p \in {TheOrder} |-> Carrier]
<1>1. Place = PlaceOf(s) /\ Place' = PlaceOf(t)
  <2>1. Place = PlaceOf(s)
    BY PlaceByLeg
  <2>2. Place' = PlaceOf(t)
    BY DEF LegAndOrderAgree, StatusOf, Place, PlaceOf, LegStatuses
  <2> QED BY <2>1, <2>2
<1>2. /\ Carrier = IF s \in {"picked_up", "returning"} THEN Len(legs) ELSE 0
      /\ Carrier' = IF t \in {"picked_up", "returning"} THEN Len(legs') ELSE 0
  BY DEF Carrier
<1>3. CASE Place' = Place /\ Carrier' = Carrier
  BY <1>3 DEF CustodyMoves, Custody!custodyVars
<1>4. ASSUME NEW from, NEW to, NEW courier,
             Place \in from, Place' = to, Carrier' = courier
      PROVE  Custody!Handover(TheOrder, from, to, courier)
  <2>1. here[TheOrder] = Place /\ here' = [here EXCEPT ![TheOrder] = to]
    BY <1>4
  <2>2. held' = [held EXCEPT ![TheOrder] = courier]
    BY <1>4
  <2> QED BY <1>4, <2>1, <2>2 DEF Custody!Handover
<1>5. held[TheOrder] = Carrier
  OBVIOUS
<1>6. ASSUME \/ Custody!PickUp(TheOrder) \/ Custody!Deliver(TheOrder)
             \/ Custody!TurnBack(TheOrder) \/ Custody!BringBack(TheOrder)
      PROVE  CustodyMoves
  BY <1>6 DEF CustodyMoves, Custody!CustodyNext
<1> HIDE DEF s, t, here, held
<1>7. CASE s = t \/ (AtTheCounter(s) /\ AtTheCounter(t))
  <2>1. s \in {"picked_up", "returning"} /\ s = t => Len(legs') = Len(legs)
    BY DEF GoesAhead, AtTheCounter, s, t
  <2>2. AtTheCounter(s) /\ AtTheCounter(t) => Place' = Place /\ Carrier' = Carrier
    BY <1>1, <1>2 DEF AtTheCounter, PlaceOf
  <2>3. s = t => Place' = Place /\ Carrier' = Carrier
    BY <1>1, <1>2, <2>1
  <2> QED BY <1>3, <1>7, <2>2, <2>3
<1>8. CASE AtTheCounter(s) /\ t = "picked_up"
  <2>1. Place \in {"origin"} /\ Place' = "courier_out" /\ Carrier' = Len(legs')
    BY <1>1, <1>2, <1>8 DEF AtTheCounter, PlaceOf
  <2>2. Custody!Handover(TheOrder, {"origin"}, "courier_out", Len(legs'))
    BY <1>4, <2>1
  <2> QED BY <1>6, <2>2 DEF Custody!PickUp
<1>9. CASE t = "delivered" /\ (AtTheCounter(s) \/ s = "picked_up")
  <2>1. Place \in {"origin", "courier_out"} /\ Place' = "destination" /\ Carrier' = 0
    BY <1>1, <1>2, <1>9 DEF AtTheCounter, PlaceOf
  <2>2. Custody!Handover(TheOrder, {"origin", "courier_out"}, "destination", 0)
    BY <1>4, <2>1
  <2> QED BY <1>6, <2>2 DEF Custody!Deliver
<1>10. CASE t = "returning" /\ AtTheCounter(s)
  <2>1. Place \in {"origin"} /\ Place' = "courier_back" /\ Carrier' = Len(legs')
    BY <1>1, <1>2, <1>10 DEF AtTheCounter, PlaceOf
  <2>2. Custody!Handover(TheOrder, {"origin"}, "courier_back", Len(legs'))
    BY <1>4, <2>1
  <2> QED BY <1>6, <2>2 DEF Custody!TurnBack
<1>11. CASE t = "returning" /\ s = "picked_up"
  <2>1. Len(legs') = Len(legs)
    BY <1>11 DEF GoesAhead, AtTheCounter, s, t
  <2>2. Place \in {"courier_out"} /\ Place' = "courier_back" /\ Carrier' = held[TheOrder]
    BY <1>1, <1>2, <1>5, <1>11, <2>1 DEF PlaceOf
  <2>3. Custody!Handover(TheOrder, {"courier_out"}, "courier_back", held[TheOrder])
    BY <1>4, <2>2
  <2> QED BY <1>6, <2>3 DEF Custody!TurnBack, held
<1>12. CASE t = "returned" /\ (AtTheCounter(s) \/ s \in {"picked_up", "returning"})
  <2>1. /\ Place \in {"origin", "courier_out", "courier_back"}
        /\ Place' = "origin_again" /\ Carrier' = 0
    BY <1>1, <1>2, <1>12 DEF AtTheCounter, PlaceOf
  <2>2. Custody!Handover(TheOrder, {"origin", "courier_out", "courier_back"}, "origin_again", 0)
    BY <1>4, <2>1
  <2> QED BY <1>6, <2>2 DEF Custody!BringBack
<1>13. s = t \/ t \in Ahead(s) \/ (AtTheCounter(s) /\ AtTheCounter(t))
  BY DEF GoesAhead, s, t
<1>14. s \in LegStatuses /\ t \in LegStatuses
  BY DEF s, t
<1> QED BY <1>7, <1>8, <1>9, <1>10, <1>11, <1>12, <1>13, <1>14, AheadIsACustodyStep

(* The two rows of a delivery, orders and delivery_legs, tell one journey  *)
(* of the parcel, as ParcelCustody allows it, through every race of        *)
(* answers, reports and cancellations (delivery-events.service.ts,         *)
(* delivery-dispatch.service.ts), as long as an Admin retries only a       *)
(* submission that is no longer under way.                                 *)
THEOREM JourneyAsCustodyAllows ==
  ASSUME ~Duplicates
  PROVE  Spec => MovesAsCustodyAllows
<1>1. AgreeInv /\ [Next]_vars => AgreeInv'
  BY AgreeStep
<1>2. AgreeInv => /\ Latest.status \in LegStatuses /\ Len(legs) \in Nr
                  /\ LegAndOrderAgree
  BY LastLeg DEF AgreeInv, CourierInv
<1>3. AgreeInv /\ AgreeInv' /\ [Next]_vars => [Custody!CustodyNext]_(Custody!custodyVars)
  <2> SUFFICES ASSUME AgreeInv, AgreeInv', [Next]_vars
               PROVE  CustodyMoves
    BY DEF CustodyMoves
  <2>1. GoesAhead
    BY JourneyGoesAhead
  <2>2. /\ TypeOK' /\ LegAndOrderAgree' /\ Len(legs') \in Nr
        /\ legs' \in Seq(LegRows) /\ Latest' = legs'[Len(legs')]
    BY DEF AgreeInv, CourierInv, TypeOK, LegRows, Latest
  <2>3. Len(legs') \in 1 .. Len(legs')
    BY <2>2, SubmissionAssumption DEF Nr
  <2>4. Latest' \in LegRows
    BY <2>2, <2>3
  <2>5. Latest'.status \in LegStatuses
    BY <2>4 DEF LegRows
  <2> QED BY <1>2, <2>1, <2>2, <2>5, JourneyIsCustody
<1> QED BY <1>1, <1>3, FirstAgree, PTL DEF Spec, MovesAsCustodyAllows
==============================================================================
