---------------------------- MODULE RouteRefresh -----------------------------
(***************************************************************************)
(* The Admin's "Refresh routes" (logistics/application/route-refresh       *)
(* .service.ts): a job in the outbox that measures the road distance of a  *)
(* chunk of the pairs of Nodes and queues itself again for the rest.  The  *)
(* job carries only an offset; each chunk reads the list of pairs anew,    *)
(* while Nodes come, go and change, and Admins move the courier's limits.  *)
(*                                                                         *)
(* The outbox is the one of module Outbox: a row is handled at least once, *)
(* and again if its handler's process dies.                                *)
(***************************************************************************)
EXTENDS Integers, FiniteSets, Sequences

CONSTANTS
  Nodes,       \* 1 .. n: ids sort as the numbers do
  Km,          \* Km[a][b]: straight-line distance
  Limits,      \* the maxDistanceKm Admins set
  Admins, Workers,
  PairsPerRun, \* PAIRS_PER_RUN
  MaxTries,    \* OUTBOX_MAX_ATTEMPTS
  MaxChanges,  \* bound: changes of Nodes and limits
  MaxStarts,   \* bound: refreshes started
  MaxDeaths    \* bound: processes that die with a row in hand

ASSUME RefreshAssumption ==
  /\ Nodes \subseteq Nat /\ IsFiniteSet(Nodes)
  /\ Km \in [Nodes -> [Nodes -> Nat]] /\ Limits \subseteq Nat
  /\ PairsPerRun \in Nat \ {0} /\ MaxTries \in Nat \ {0}
  /\ MaxChanges \in Nat /\ MaxStarts \in Nat /\ MaxDeaths \in Nat

VARIABLES
  status,    \* each Node's: none until it is created
  limit,     \* the measuring courier's maxDistanceKm
  jobs,      \* the refresh rows of the outbox, in the order they were queued
  worker,    \* what each poller is measuring
  starting,  \* Admins who have seen that no refresh is running
  asked,     \* pairs the courier has been asked for
  measured,  \* node_route_distances
  finished,  \* what the refreshes that ran to their end had promised
  changes, starts, deaths
refreshVars ==
  <<status, limit, jobs, worker, starting, asked, measured, finished, changes, starts, deaths>>
network == <<status, limit, changes>>

Pair == { p \in Nodes \X Nodes : p[1] # p[2] }
(* Not in the network: inactive or suspended. *)
NodeStatuses == {"none", "pending", "active", "closed"}

(* The list a chunk reads, as a set ... *)
PairsIn(statuses, maxKm, includePending) ==
  LET eligible == { n \in Nodes : statuses[n] \in
                      IF includePending THEN {"active", "pending"} ELSE {"active"} }
  IN  { p \in Pair : p[1] \in eligible /\ p[2] \in eligible /\ Km[p[1]][p[2]] <= maxKm }
Pairs(includePending) == PairsIn(status, limit, includePending)

(* ... and each pair's place in it: ORDER BY a.id, b.id. *)
Earlier(p, q) == p[1] < q[1] \/ (p[1] = q[1] /\ p[2] < q[2])
Place(p, pairs) == Cardinality({ q \in pairs : Earlier(q, p) })

Idle == [job |-> 0]
Jobs ==
  [offset : Nat, includePending : BOOLEAN, status : {"pending", "sent", "failed"},
   attempts : 0 .. MaxTries, promised : SUBSET Pair]

RefreshInit ==
  /\ status = [n \in Nodes |-> IF n = 1 THEN "none" ELSE "active"]
  /\ limit \in Limits /\ \A l \in Limits : l <= limit
  /\ jobs = <<>> /\ worker = [w \in Workers |-> Idle] /\ starting = {}
  /\ asked = {} /\ measured = {} /\ finished = {}
  /\ changes = 0 /\ starts = 0 /\ deaths = 0

IsRunning == \E j \in DOMAIN jobs : jobs[j].status = "pending"

(* start: the count of pending rows is read first, the row queued after.   *)
(* "promised", which the row does not hold, is what the refresh is to      *)
(* measure: the pairs there are now, as long as the list only grows.       *)
StartCheck(a) ==
  /\ a \notin starting /\ ~IsRunning
  /\ starting' = starting \cup {a}
  /\ UNCHANGED <<network, jobs, worker, asked, measured, finished, starts, deaths>>

Queued(offset, includePending, promised) ==
  [offset |-> offset, includePending |-> includePending, status |-> "pending",
   attempts |-> 0, promised |-> promised]

Start(a, includePending) ==
  /\ a \in starting
  /\ starts < MaxStarts /\ starts' = starts + 1
  /\ starting' = starting \ {a}
  /\ jobs' = Append(jobs, Queued(0, includePending, Pairs(includePending)))
  /\ UNCHANGED <<network, worker, asked, measured, finished, deaths>>

(* A poller claims the row and its handler reads the list. *)
ReadChunk(w, j) ==
  /\ worker[w] = Idle /\ jobs[j].status = "pending"
  /\ \A v \in Workers : worker[v].job # j
  /\ LET pairs == Pairs(jobs[j].includePending)
         last == jobs[j].offset + PairsPerRun
         chunk == { p \in pairs : Place(p, pairs) \in jobs[j].offset .. last - 1 }
     IN  worker' = [worker EXCEPT ![w] =
           [job |-> j, todo |-> chunk, answers |-> chunk = {},
            next |-> IF last < Cardinality(pairs) THEN last ELSE 0, queued |-> FALSE]]
  /\ UNCHANGED <<network, jobs, starting, asked, measured, finished, starts, deaths>>

(* One pair: the courier answers a distance, knows none, or cannot be      *)
(* reached.                                                                *)
Measure(w) ==
  /\ worker[w] # Idle
  /\ \E p \in worker[w].todo :
       /\ \A q \in worker[w].todo \ {p} : Earlier(p, q)
       /\ asked' = asked \cup {p}
       /\ \E answer \in {"distance", "none", "unreachable"} :
            /\ measured' = IF answer = "distance" THEN measured \cup {p} ELSE measured
            /\ worker' = [worker EXCEPT ![w].todo = @ \ {p},
                                        ![w].answers = @ \/ answer # "unreachable"]
  /\ UNCHANGED <<network, jobs, starting, finished, starts, deaths>>

(* A row that is sent or given up is never looked at again: what it held   *)
(* is forgotten.                                                           *)
Settled(j, s) == [jobs EXCEPT ![j] = [Queued(0, FALSE, {}) EXCEPT !.status = s]]

(* Mutant: an unreachable courier is not counted as an attempt. *)
ChunkRetriedUncounted(w) ==
  /\ worker[w] # Idle
  /\ worker[w].todo = {} /\ ~worker[w].answers
  /\ worker' = [worker EXCEPT ![w] = Idle]
  /\ UNCHANGED <<network, jobs, starting, asked, measured, finished, starts, deaths>>

(* "Every pair failing means the courier is unreachable": the outbox tries *)
(* the chunk again, until it gives up.                                     *)
ChunkFails(w) ==
  /\ worker[w] # Idle
  /\ worker[w].todo = {} /\ ~worker[w].answers
  /\ jobs' = IF jobs[worker[w].job].attempts + 1 = MaxTries THEN Settled(worker[w].job, "failed")
             ELSE [jobs EXCEPT ![worker[w].job].attempts = @ + 1]
  /\ worker' = [worker EXCEPT ![w] = Idle]
  /\ UNCHANGED <<network, starting, asked, measured, finished, starts, deaths>>

(* Mutant: one pair is left out between two chunks. *)
QueueOneTooFar(w) ==
  /\ worker[w] # Idle
  /\ worker[w].todo = {} /\ worker[w].answers /\ worker[w].next # 0 /\ ~worker[w].queued
  /\ LET done == jobs[worker[w].job]
     IN  jobs' = Append(jobs, Queued(worker[w].next + 1, done.includePending, done.promised))
  /\ worker' = [worker EXCEPT ![w].queued = TRUE]
  /\ UNCHANGED <<network, starting, asked, measured, finished, starts, deaths>>

QueueNext(w) ==
  /\ worker[w] # Idle
  /\ worker[w].todo = {} /\ worker[w].answers /\ worker[w].next # 0 /\ ~worker[w].queued
  /\ LET done == jobs[worker[w].job]
     IN  jobs' = Append(jobs, Queued(worker[w].next, done.includePending, done.promised))
  /\ worker' = [worker EXCEPT ![w].queued = TRUE]
  /\ UNCHANGED <<network, starting, asked, measured, finished, starts, deaths>>

(* The poller marks the row sent; with nothing left to queue, the refresh  *)
(* is over.                                                                *)
MarkSent(w) ==
  /\ worker[w] # Idle
  /\ worker[w].todo = {} /\ worker[w].answers /\ (worker[w].next = 0 \/ worker[w].queued)
  /\ jobs' = Settled(worker[w].job, "sent")
  /\ finished' = IF worker[w].next = 0 THEN finished \cup jobs[worker[w].job].promised ELSE finished
  /\ worker' = [worker EXCEPT ![w] = Idle]
  /\ UNCHANGED <<network, starting, asked, measured, starts, deaths>>

(* The process dies; the lease lapses and the row is pending as before. *)
WorkerDies(w) ==
  /\ worker[w] # Idle /\ deaths < MaxDeaths
  /\ worker' = [worker EXCEPT ![w] = Idle] /\ deaths' = deaths + 1
  /\ UNCHANGED <<network, jobs, starting, asked, measured, finished, starts>>

(* A change of the list: what refreshes under way have promised stands     *)
(* when pairs come in, wherever they sort, and is off when pairs go.       *)
ListBecomes(statuses, maxKm) ==
  /\ changes < MaxChanges /\ changes' = changes + 1
  /\ status' = statuses /\ limit' = maxKm
  /\ jobs' = [j \in DOMAIN jobs |->
       LET flag == jobs[j].includePending
       IN  IF Pairs(flag) \subseteq PairsIn(statuses, maxKm, flag) THEN jobs[j]
           ELSE [jobs[j] EXCEPT !.promised = {}]]
  /\ UNCHANGED <<worker, starting, asked, measured, finished, starts, deaths>>

SetStatus(n, s) ==
  s \notin {"none", status[n]} /\ ListBecomes([status EXCEPT ![n] = s], limit)

SetLimit(km) == km # limit /\ ListBecomes(status, km)

Poll(w) ==
  \/ \E j \in DOMAIN jobs : ReadChunk(w, j)
  \/ Measure(w) \/ ChunkFails(w) \/ QueueNext(w) \/ MarkSent(w)

RefreshNext ==
  \/ \E a \in Admins : StartCheck(a) \/ \E includePending \in BOOLEAN : Start(a, includePending)
  \/ \E w \in Workers : Poll(w) \/ WorkerDies(w)
  \/ \E n \in Nodes, s \in NodeStatuses : SetStatus(n, s)
  \/ \E km \in Limits : SetLimit(km)

(* The pollers' timers. *)
RefreshFairness == \A w \in Workers : WF_refreshVars(Poll(w))

RefreshSpec == RefreshInit /\ [][RefreshNext]_refreshVars /\ RefreshFairness

-----------------------------------------------------------------------------
(* What must hold. *)

(* Rows and chunks hold what the code writes; a distance is known only of  *)
(* a pair that was asked for (outbox_events, node_route_distances).        *)
RefreshTypeOK ==
  /\ status \in [Nodes -> NodeStatuses] /\ limit \in Limits
  /\ jobs \in Seq(Jobs) /\ starting \subseteq Admins
  /\ \A w \in Workers : worker[w] # Idle =>
       /\ worker[w].job \in DOMAIN jobs /\ worker[w].todo \subseteq Pair
       /\ Cardinality(worker[w].todo) <= PairsPerRun /\ worker[w].next \in Nat
       /\ jobs[worker[w].job].status = "pending"
  /\ measured \subseteq asked /\ asked \subseteq Pair /\ finished \subseteq Pair
  /\ changes \in 0 .. MaxChanges /\ deaths \in 0 .. MaxDeaths

(* A refresh leaves nothing out: of the pairs it has promised, those       *)
(* before the offset of a row still to be handled have been asked for,     *)
(* though Nodes keep joining anywhere in the list; and once it reports     *)
(* that it has finished, all of them have, unless the list shrank under    *)
(* it: the "every pair of Nodes (both directions)" of                      *)
(* route-refresh.service.ts (measureChunk).                                *)
NothingSkipped ==
  /\ RefreshTypeOK
  /\ \A j \in DOMAIN jobs :
       jobs[j].status = "pending" =>
         \A p \in jobs[j].promised :
           Place(p, Pairs(jobs[j].includePending)) < jobs[j].offset => p \in asked
  /\ finished \subseteq asked

(* A refresh never runs for good, though it queues itself, is retried and  *)
(* is queued twice by a crash: Admins can start the next one.              *)
RefreshEnds == IsRunning ~> ~IsRunning
==============================================================================
