----------------------------- MODULE OutboxProofs -----------------------------
(***************************************************************************)
(* Outbox, for any number of rows, pollers, attempts and crashes and any   *)
(* size of a batch: as long as a batch is handled before its lease lapses, *)
(* no row is in two hands.  And RouteRefresh, which runs on that outbox:   *)
(* a refresh leaves no pair out.                                           *)
(***************************************************************************)
EXTENDS Outbox, RouteRefresh, FiniteSetTheorems, TLAPS

(* A claimed row is pending and not due, one poller has it, once, and its  *)
(* copy can be tried again.                                                *)
Claimed ==
  \A p \in Pollers : \A c \in batch[p] :
    /\ row[c.event].status = "pending" /\ ~row[c.event].due
    /\ c.attempts < MaxAttempts
    /\ \A q \in Pollers : \A d \in batch[q] : d.event = c.event => p = q /\ c = d

Retriable == \A e \in Events : row[e].status = "pending" => row[e].attempts < MaxAttempts

FiniteBatches == \A p \in Pollers : IsFiniteSet(batch[p])

ClaimInv == TypeOK /\ FiniteBatches /\ Claimed /\ Retriable

-----------------------------------------------------------------------------
LEMMA ClaimInit == Init => ClaimInv
<1> SUFFICES ASSUME Init PROVE ClaimInv
  OBVIOUS
<1>1. TypeOK
  BY OutboxAssumption, FS_EmptySet DEF Init, TypeOK, Copies
<1>2. FiniteBatches
  BY FS_EmptySet DEF Init, FiniteBatches
<1> QED BY <1>1, <1>2 DEF Init, ClaimInv, Claimed, Retriable

(* Rows that nobody has claimed may change, as long as one that becomes    *)
(* pending can be tried.                                                   *)
LEMMA OtherRowsChange ==
  ASSUME ClaimInv, TypeOK', FiniteBatches', NEW e \in Events, NEW r, row' = [row EXCEPT ![e] = r],
         UNCHANGED batch, r.status = "pending" => r.attempts < MaxAttempts, Held(e) = {}
  PROVE  ClaimInv'
<1>1. \A f \in Events : row'[f] = IF f = e THEN r ELSE row[f]
  BY DEF ClaimInv, TypeOK
<1>2. \A p \in Pollers : \A c \in batch[p] : c.event # e /\ c.event \in Events
  BY DEF Held, ClaimInv, TypeOK, Copies
<1>3. Claimed'
  BY <1>1, <1>2 DEF ClaimInv, Claimed
<1>4. Retriable'
  BY <1>1 DEF ClaimInv, Retriable
<1> QED BY <1>3, <1>4 DEF ClaimInv

(* A copy is put down: nobody else has its row. *)
LEMMA CopySaved ==
  ASSUME ClaimInv, TypeOK', FiniteBatches', NEW p \in Pollers, NEW c \in batch[p],
         NEW s, NEW n, Save(p, c, s, n), s = "pending" => n < MaxAttempts
  PROVE  ClaimInv'
<1>0. c \in Copies /\ c.event \in Events
  BY DEF ClaimInv, TypeOK, Copies
<1>1. \A f \in Events : row'[f] = IF f = c.event THEN [status |-> s, attempts |-> n, due |-> FALSE]
                                  ELSE row[f]
  BY <1>0 DEF Save, ClaimInv, TypeOK
<1>2. \A q \in Pollers : batch'[q] = IF q = p THEN batch[p] \ {c} ELSE batch[q]
  BY DEF Save, ClaimInv, TypeOK
<1>3. \A q \in Pollers : \A d \in batch'[q] : d \in batch[q] /\ d.event # c.event /\ d.event \in Events
  <2> SUFFICES ASSUME NEW q \in Pollers, NEW d \in batch'[q]
               PROVE  d \in batch[q] /\ d.event # c.event /\ d.event \in Events
    OBVIOUS
  <2>1. d \in batch[q] /\ (q = p => d # c)
    BY <1>2
  <2>2. d.event = c.event => p = q /\ c = d
    BY <2>1 DEF ClaimInv, Claimed
  <2> QED BY <2>1, <2>2 DEF ClaimInv, TypeOK, Copies
<1>4. Claimed'
  BY <1>1, <1>3 DEF ClaimInv, Claimed
<1>5. Retriable'
  BY <1>1 DEF ClaimInv, Retriable
<1> QED BY <1>4, <1>5 DEF ClaimInv

(* The rows taken were due, so nobody had them. *)
LEMMA RowsClaimed ==
  ASSUME ClaimInv, TypeOK', FiniteBatches', NEW p \in Pollers, Claim(p)
  PROVE  ClaimInv'
<1> PICK claim \in SUBSET Due :
      /\ batch' = [batch EXCEPT ![p] = { [event |-> e, attempts |-> row[e].attempts] : e \in claim }]
      /\ row' = [e \in Events |-> [row[e] EXCEPT !.due = IF e \in claim THEN FALSE ELSE @]]
  BY DEF Claim
<1>1. claim \subseteq Events /\ \A e \in claim : row[e].status = "pending" /\ row[e].due
  BY DEF Due
<1>2. \A e \in Events : /\ row'[e].status = row[e].status /\ row'[e].attempts = row[e].attempts
                        /\ e \in claim => row'[e].due = FALSE
                        /\ e \notin claim => row'[e].due = row[e].due
  BY DEF ClaimInv, TypeOK
<1>3. batch'[p] = { [event |-> e, attempts |-> row[e].attempts] : e \in claim }
  BY DEF ClaimInv, TypeOK
<1>4. \A q \in Pollers \ {p} : batch'[q] = batch[q]
  BY DEF ClaimInv, TypeOK
<1>5. \A q \in Pollers \ {p} : \A d \in batch[q] :
        /\ d.event \in Events /\ d.event \notin claim
        /\ row[d.event].status = "pending" /\ ~row[d.event].due /\ d.attempts < MaxAttempts
  BY <1>1 DEF ClaimInv, Claimed, TypeOK, Copies
<1>6. \A c \in batch'[p] : c.event \in claim /\ c = [event |-> c.event, attempts |-> row[c.event].attempts]
  BY <1>3
<1>7. \A c \in batch'[p] :
        /\ row'[c.event].status = "pending" /\ ~row'[c.event].due /\ c.attempts < MaxAttempts
        /\ \A d \in batch'[p] : d.event = c.event => d = c
  <2> SUFFICES ASSUME NEW c \in batch'[p]
               PROVE  /\ row'[c.event].status = "pending" /\ ~row'[c.event].due
                      /\ c.attempts < MaxAttempts
                      /\ \A d \in batch'[p] : d.event = c.event => d = c
    OBVIOUS
  <2>1. c.event \in claim /\ c.attempts = row[c.event].attempts
    BY <1>6
  <2>2. row'[c.event].status = "pending" /\ ~row'[c.event].due
    BY <1>1, <1>2, <2>1
  <2>3. c.attempts < MaxAttempts
    BY <1>1, <2>1 DEF ClaimInv, Retriable
  <2>4. \A d \in batch'[p] : d.event = c.event => d = c
    BY <1>6
  <2> QED BY <2>2, <2>3, <2>4
<1>8. Claimed'
  <2> SUFFICES ASSUME NEW q \in Pollers, NEW c \in batch'[q]
               PROVE  /\ row'[c.event].status = "pending" /\ ~row'[c.event].due
                      /\ c.attempts < MaxAttempts
                      /\ \A s \in Pollers : \A d \in batch'[s] : d.event = c.event => q = s /\ c = d
    BY DEF Claimed
  <2>1. CASE q = p
    BY <2>1, <1>4, <1>5, <1>6, <1>7
  <2>2. CASE q # p
    <3>1. c \in batch[q] /\ c.event \in Events /\ c.event \notin claim
      BY <2>2, <1>4, <1>5
    <3>2. row'[c.event].status = "pending" /\ ~row'[c.event].due /\ c.attempts < MaxAttempts
      BY <2>2, <3>1, <1>2, <1>5
    <3>3. \A s \in Pollers : \A d \in batch'[s] : d.event = c.event => q = s /\ c = d
      <4> SUFFICES ASSUME NEW s \in Pollers, NEW d \in batch'[s], d.event = c.event
                   PROVE  q = s /\ c = d
        OBVIOUS
      <4>1. s # p
        BY <3>1, <1>6
      <4> QED BY <3>1, <4>1, <1>4 DEF ClaimInv, Claimed
    <3> QED BY <3>2, <3>3
  <2> QED BY <2>1, <2>2
<1>9. Retriable'
  BY <1>2 DEF ClaimInv, Retriable
<1> QED BY <1>8, <1>9 DEF ClaimInv

-----------------------------------------------------------------------------
(* A claim is no larger than the batch it was made as. *)
LEMMA ClaimSize ==
  ASSUME TypeOK, NEW claim \in SUBSET Due,
         Cardinality(claim) = BatchSize \/ (claim = Due /\ Cardinality(Due) < BatchSize)
  PROVE  LET copies == { [event |-> e, attempts |-> row[e].attempts] : e \in claim }
         IN  copies \in SUBSET Copies /\ IsFiniteSet(copies) /\ Cardinality(copies) <= BatchSize
<1> DEFINE copies == { [event |-> e, attempts |-> row[e].attempts] : e \in claim }
           f == [e \in claim |-> [event |-> e, attempts |-> row[e].attempts]]
<1>1. claim \subseteq Events /\ IsFiniteSet(claim)
  BY OutboxAssumption, FS_Subset DEF Due
<1>2. Cardinality(claim) <= BatchSize /\ Cardinality(claim) \in Nat
  BY <1>1, OutboxAssumption, FS_CardinalityType
<1>3. copies \in SUBSET Copies
  BY <1>1 DEF TypeOK, Copies
<1>4. f \in Surjection(claim, copies)
  BY DEF Surjection
<1>5. IsFiniteSet(copies) /\ Cardinality(copies) <= Cardinality(claim)
  BY <1>1, <1>4, FS_Surjection
<1>6. Cardinality(copies) \in Nat
  BY <1>5, FS_CardinalityType
<1> QED BY <1>2, <1>3, <1>5, <1>6, OutboxAssumption

(* Saving takes a copy out of the batch. *)
LEMMA SmallerBatch ==
  ASSUME ClaimInv, NEW p \in Pollers, NEW c \in batch[p]
  PROVE  IsFiniteSet(batch[p] \ {c}) /\ Cardinality(batch[p] \ {c}) <= BatchSize
<1>1. IsFiniteSet(batch[p]) /\ Cardinality(batch[p]) \in Nat /\ Cardinality(batch[p]) <= BatchSize
  BY FS_CardinalityType DEF ClaimInv, FiniteBatches, TypeOK
<1>2. IsFiniteSet(batch[p] \ {c}) /\ Cardinality(batch[p] \ {c}) = Cardinality(batch[p]) - 1
  BY <1>1, FS_RemoveElement
<1> QED BY <1>1, <1>2, OutboxAssumption

LEMMA SaveTypes ==
  ASSUME ClaimInv, NEW p \in Pollers, NEW c \in batch[p],
         NEW s \in {"pending", "sent", "failed"}, NEW n \in 0 .. MaxAttempts, Save(p, c, s, n),
         UNCHANGED crashes,
         handled' = [handled EXCEPT ![p] = {}]
  PROVE  TypeOK' /\ FiniteBatches'
<1>1. row' \in [Events -> [status : {"none", "pending", "sent", "failed"},
                          attempts : 0 .. MaxAttempts, due : BOOLEAN]]
  BY DEF Save, ClaimInv, TypeOK
<1>2. /\ batch' \in [Pollers -> SUBSET Copies]
      /\ \A q \in Pollers : batch'[q] = IF q = p THEN batch[p] \ {c} ELSE batch[q]
  BY DEF Save, ClaimInv, TypeOK
<1>3. /\ handled' \in [Pollers -> SUBSET Copies]
      /\ \A q \in Pollers : handled'[q] = IF q = p THEN {} ELSE handled[q]
  BY DEF ClaimInv, TypeOK
<1>4. \A q \in Pollers : Cardinality(batch'[q]) <= BatchSize /\ handled'[q] \subseteq batch'[q]
  BY <1>2, <1>3, SmallerBatch DEF ClaimInv, TypeOK
<1>5. FiniteBatches'
  BY <1>2, SmallerBatch DEF ClaimInv, FiniteBatches
<1> QED BY <1>1, <1>2, <1>3, <1>4, <1>5 DEF ClaimInv, TypeOK

(* One step, by action. *)
LEMMA ClaimStep == ASSUME LeasesHold, ClaimInv, [Next]_vars PROVE ClaimInv'
<1>1. ASSUME NEW e \in Events, Enqueue(e) PROVE ClaimInv'
  <2>1. TypeOK' /\ FiniteBatches'
    BY <1>1, OutboxAssumption DEF Enqueue, ClaimInv, TypeOK, FiniteBatches
  <2>2. Held(e) = {}
    BY <1>1 DEF Enqueue, Held, ClaimInv, Claimed
  <2> DEFINE new == [status |-> "pending", attempts |-> 0, due |-> TRUE]
  <2>3. row' = [row EXCEPT ![e] = new] /\ UNCHANGED batch
    BY <1>1 DEF Enqueue
  <2>4. new.status = "pending" => new.attempts < MaxAttempts
    BY OutboxAssumption
  <2> HIDE DEF new
  <2> QED BY <2>1, <2>2, <2>3, <2>4, OtherRowsChange
<1>2. ASSUME NEW e \in Events, ComesDue(e) PROVE ClaimInv'
  <2>1. TypeOK' /\ FiniteBatches'
    BY <1>2 DEF ComesDue, ClaimInv, TypeOK, FiniteBatches
  <2>2. /\ row' = [row EXCEPT ![e] = [row[e] EXCEPT !.due = TRUE]]
        /\ UNCHANGED batch /\ Held(e) = {}
    BY <1>2 DEF ComesDue
  <2>3. [row[e] EXCEPT !.due = TRUE].status = "pending"
        => [row[e] EXCEPT !.due = TRUE].attempts < MaxAttempts
    BY DEF ClaimInv, TypeOK, Retriable
  <2> QED BY <2>1, <2>2, <2>3, OtherRowsChange
<1>3. ASSUME NEW p \in Pollers, Claim(p) PROVE ClaimInv'
  <2> PICK claim \in SUBSET Due :
        /\ Cardinality(claim) = BatchSize \/ (claim = Due /\ Cardinality(Due) < BatchSize)
        /\ batch' = [batch EXCEPT ![p] = { [event |-> e, attempts |-> row[e].attempts] : e \in claim }]
        /\ row' = [e \in Events |-> [row[e] EXCEPT !.due = IF e \in claim THEN FALSE ELSE @]]
    BY <1>3 DEF Claim
  <2> DEFINE copies == { [event |-> e, attempts |-> row[e].attempts] : e \in claim }
  <2>1. copies \in SUBSET Copies /\ IsFiniteSet(copies) /\ Cardinality(copies) <= BatchSize
    BY ClaimSize DEF ClaimInv
  <2>2. batch' = [batch EXCEPT ![p] = copies]
    OBVIOUS
  <2>3. batch[p] = {} /\ handled' = handled /\ crashes' = crashes
    BY <1>3 DEF Claim
  <2>4. row' \in [Events -> [status : {"none", "pending", "sent", "failed"},
                            attempts : 0 .. MaxAttempts, due : BOOLEAN]]
    BY DEF ClaimInv, TypeOK
  <2> HIDE DEF copies
  <2>5. batch' \in [Pollers -> SUBSET Copies] /\ \A q \in Pollers : batch'[q] = IF q = p THEN copies ELSE batch[q]
    BY <2>1, <2>2 DEF ClaimInv, TypeOK
  <2>6. TypeOK'
    BY <2>1, <2>3, <2>4, <2>5 DEF ClaimInv, TypeOK
  <2>7. FiniteBatches'
    BY <2>1, <2>5 DEF ClaimInv, FiniteBatches
  <2> QED BY <1>3, <2>6, <2>7, RowsClaimed
<1>4. ASSUME NEW p \in Pollers, Handle(p) PROVE ClaimInv'
  <2>1. TypeOK' /\ FiniteBatches'
    BY <1>4 DEF Handle, ClaimInv, TypeOK, FiniteBatches
  <2> QED BY <1>4, <2>1 DEF Handle, ClaimInv, Claimed, Retriable
<1>5. ASSUME NEW p \in Pollers, SaveSent(p) PROVE ClaimInv'
  <2> PICK c \in handled[p] : Save(p, c, "sent", c.attempts)
    BY <1>5 DEF SaveSent
  <2>1. c \in batch[p] /\ c.attempts \in 0 .. MaxAttempts
    BY DEF ClaimInv, TypeOK, Copies
  <2>2. TypeOK' /\ FiniteBatches'
    BY <1>5, <2>1, SaveTypes DEF SaveSent
  <2> QED BY <2>1, <2>2, CopySaved
<1>6. ASSUME NEW p \in Pollers, RegisterFailure(p) PROVE ClaimInv'
  <2> DEFINE next(c) == IF c.attempts + 1 >= MaxAttempts THEN "failed" ELSE "pending"
  <2> PICK c \in batch[p] : Save(p, c, next(c), c.attempts + 1)
    BY <1>6 DEF RegisterFailure
  <2>1. c.attempts \in Nat /\ c.attempts < MaxAttempts
    BY DEF ClaimInv, TypeOK, Claimed, Copies
  <2>2. /\ c.attempts + 1 \in 0 .. MaxAttempts /\ next(c) \in {"pending", "sent", "failed"}
        /\ next(c) = "pending" => c.attempts + 1 < MaxAttempts
    BY <2>1, OutboxAssumption
  <2>3. handled' = [handled EXCEPT ![p] = {}] /\ crashes' = crashes
    BY <1>6 DEF RegisterFailure, ClaimInv, TypeOK
  <2> HIDE DEF next
  <2>4. TypeOK' /\ FiniteBatches'
    BY <2>2, <2>3, SaveTypes
  <2> QED BY <2>2, <2>4, CopySaved
<1>7. ASSUME NEW p \in Pollers, Crash(p) PROVE ClaimInv'
  <2>1. \A q \in Pollers : /\ batch'[q] = IF q = p THEN {} ELSE batch[q]
                           /\ handled'[q] = IF q = p THEN {} ELSE handled[q]
    BY <1>7 DEF Crash, ClaimInv, TypeOK
  <2>2. /\ row' = row /\ crashes' \in 0 .. MaxCrashes
        /\ batch' \in [Pollers -> SUBSET Copies] /\ handled' \in [Pollers -> SUBSET Copies]
    BY <1>7, OutboxAssumption DEF Crash, ClaimInv, TypeOK
  <2>3. Cardinality({}) <= BatchSize /\ IsFiniteSet({})
    BY FS_EmptySet, OutboxAssumption
  <2>4. \A q \in Pollers : Cardinality(batch'[q]) <= BatchSize /\ handled'[q] \subseteq batch'[q]
    BY <2>1, <2>3 DEF ClaimInv, TypeOK
  <2>5. TypeOK'
    BY <2>2, <2>4 DEF ClaimInv, TypeOK
  <2>6. FiniteBatches'
    BY <2>1, <2>3 DEF ClaimInv, FiniteBatches
  <2> QED BY <2>1, <2>2, <2>5, <2>6 DEF ClaimInv, Claimed, Retriable
<1>8. ASSUME UNCHANGED vars PROVE ClaimInv'
  BY <1>8 DEF vars, ClaimInv, TypeOK, FiniteBatches, Claimed, Retriable
<1> QED BY <1>1, <1>2, <1>3, <1>4, <1>5, <1>6, <1>7, <1>8 DEF Next

LEMMA ClaimedMeansOne == ClaimInv => OnePollerPerRow
<1> SUFFICES ASSUME ClaimInv, NEW e \in Events PROVE Cardinality(Held(e)) <= 1
  BY DEF ClaimInv, OnePollerPerRow
<1>1. \A p \in Held(e) : \A q \in Held(e) : p = q
  BY DEF Held, ClaimInv, Claimed
<1>2. CASE Held(e) = {}
  BY <1>2, FS_EmptySet
<1>3. CASE Held(e) # {}
  <2> PICK p : p \in Held(e)
    BY <1>3
  <2>1. Held(e) = {p}
    BY <1>1
  <2> QED BY <2>1, FS_Singleton
<1> QED BY <1>2, <1>3

(* "The lease keeps the claimed rows invisible to later polls while their  *)
(* handlers run" (outbox-poller.service.ts): as long as a batch is handled *)
(* before its lease lapses, no two pollers work on the same row, however   *)
(* many of them there are and wherever they stop.                          *)
THEOREM OnePollerEach == ASSUME LeasesHold PROVE Spec => []OnePollerPerRow
<1>1. ClaimInv /\ [Next]_vars => ClaimInv'
  BY ClaimStep
<1> QED BY <1>1, ClaimInit, ClaimedMeansOne, PTL DEF Spec

-----------------------------------------------------------------------------
(* A road-distance refresh is a chain of the same outbox's rows            *)
(* (RouteRefresh), whose workers are its pollers.                          *)

(* A worker's chunk, as a record. *)
Chunks == [job : Nat, todo : SUBSET Pair, answers : BOOLEAN, next : Nat, queued : BOOLEAN]

(* What a row has promised and comes before its offset has been asked for, *)
(* and all of it is in the list; a row still to be handled can be tried.   *)
RowSafe(r) ==
  /\ r.status = "pending" => r.attempts < MaxTries
  /\ \A p \in r.promised :
       /\ p \in Pairs(r.includePending)
       /\ Place(p, Pairs(r.includePending)) < r.offset => p \in asked

(* What row r has promised and comes before the chunk's end has been asked *)
(* for or is in the worker's hands; the last chunk has no end.             *)
ChunkSafe(c, r) ==
  /\ Cardinality(c.todo) <= PairsPerRun /\ r.status = "pending"
  /\ \A p \in r.promised :
       c.next = 0 \/ Place(p, Pairs(r.includePending)) < c.next => p \in asked \cup c.todo

RowsSafe == \A j \in DOMAIN jobs : RowSafe(jobs[j])
WorkersSafe ==
  \A w \in Workers : worker[w] # Idle =>
    /\ worker[w].job \in DOMAIN jobs
    /\ ChunkSafe(worker[w], jobs[worker[w].job])
OneWorkerPerRow ==
  \A v, w \in Workers :
    worker[v] # Idle /\ worker[w] # Idle /\ worker[v].job = worker[w].job => v = w
RefreshTypes ==
  /\ status \in [Nodes -> NodeStatuses] /\ limit \in Limits
  /\ jobs \in Seq(Jobs) /\ starting \subseteq Admins
  /\ worker \in [Workers -> Chunks \cup {Idle}]
  /\ measured \subseteq asked /\ asked \subseteq Pair /\ finished \subseteq asked
  /\ changes \in 0 .. MaxChanges /\ deaths \in 0 .. MaxDeaths
RefreshInv == RefreshTypes /\ RowsSafe /\ WorkersSafe /\ OneWorkerPerRow
-----------------------------------------------------------------------------
(* A pair's place in a list.                                               *)

(* The same finite sets and cardinalities there as here. *)
LEMMA NodesAreFinite == IsFiniteSet(Nodes) /\ Nodes \subseteq Nat
<1>1. IsFiniteSet(Nodes) /\ Nodes \subseteq Nat
  BY RefreshAssumption
<1> QED BY <1>1

LEMMA PlaceIs ==
  ASSUME NEW S, NEW p
  PROVE  Place(p, S) = Cardinality({ q \in S : Earlier(q, p) })
BY DEF Place

LEMMA NotBeforeItself ==
  ASSUME NEW p \in Pair
  PROVE  ~Earlier(p, p)
<1>1. p[1] \in Nat /\ p[2] \in Nat
  BY NodesAreFinite DEF Pair
<1> QED BY <1>1 DEF Earlier

LEMMA PairsAreFinite ==
  ASSUME NEW S \in SUBSET Pair
  PROVE  IsFiniteSet(S)
<1>1. IsFiniteSet(Nodes \X Nodes)
  BY NodesAreFinite, FS_Product
<1>2. S \in SUBSET (Nodes \X Nodes)
  BY DEF Pair
<1> QED BY <1>1, <1>2, FS_Subset

LEMMA PlaceIsNat ==
  ASSUME NEW S \in SUBSET Pair, NEW p
  PROVE  Place(p, S) \in Nat
<1>1. { q \in S : Earlier(q, p) } \in SUBSET Pair
  OBVIOUS
<1>2. IsFiniteSet({ q \in S : Earlier(q, p) })
  BY <1>1, PairsAreFinite
<1> QED BY <1>2, FS_CardinalityType, PlaceIs

(* It only moves back as the list grows ... *)
LEMMA PlaceGrows ==
  ASSUME NEW S \in SUBSET Pair, NEW T \in SUBSET S, NEW p
  PROVE  Place(p, T) <= Place(p, S)
<1>1. { q \in S : Earlier(q, p) } \in SUBSET Pair
  OBVIOUS
<1>2. IsFiniteSet({ q \in S : Earlier(q, p) })
  BY <1>1, PairsAreFinite
<1>3. { q \in T : Earlier(q, p) } \in SUBSET { q \in S : Earlier(q, p) }
  OBVIOUS
<1> QED BY <1>2, <1>3, FS_Subset, PlaceIs

(* ... it is one of the list's ... *)
LEMMA PlaceInList ==
  ASSUME NEW S \in SUBSET Pair, NEW p \in S
  PROVE  Place(p, S) < Cardinality(S)
<1>1. IsFiniteSet(S)
  BY PairsAreFinite
<1>2. { q \in S : Earlier(q, p) } \in SUBSET (S \ {p})
  <2>1. ~Earlier(p, p)
    BY NotBeforeItself
  <2> QED BY <2>1
<1>3. IsFiniteSet(S \ {p}) /\ Cardinality(S \ {p}) = Cardinality(S) - 1
  BY <1>1, FS_RemoveElement
<1>4. Cardinality({ q \in S : Earlier(q, p) }) <= Cardinality(S) - 1
  BY <1>2, <1>3, FS_Subset
<1> QED BY <1>1, <1>4, PlaceIs, PlaceIsNat, FS_CardinalityType

(* ... and no two pairs share one. *)
LEMMA EarlierIsTotal ==
  ASSUME NEW p \in Pair, NEW q \in Pair, p # q
  PROVE  Earlier(p, q) \/ Earlier(q, p)
<1>1. p[1] \in Nat /\ p[2] \in Nat /\ q[1] \in Nat /\ q[2] \in Nat
  BY NodesAreFinite DEF Pair
<1>2. p = <<p[1], p[2]>> /\ q = <<q[1], q[2]>>
  BY DEF Pair
<1>3. p[1] # q[1] \/ p[2] # q[2]
  BY <1>2
<1> QED BY <1>1, <1>3 DEF Earlier

LEMMA EarlierIsTransitive ==
  ASSUME NEW p \in Pair, NEW q \in Pair, NEW r \in Pair,
         Earlier(p, q), Earlier(q, r)
  PROVE  Earlier(p, r)
<1>1. p[1] \in Nat /\ p[2] \in Nat /\ q[1] \in Nat /\ q[2] \in Nat /\ r[1] \in Nat /\ r[2] \in Nat
  BY NodesAreFinite DEF Pair
<1> QED BY <1>1 DEF Earlier

LEMMA EarlierHasALowerPlace ==
  ASSUME NEW S \in SUBSET Pair, NEW p \in S, NEW q \in S,
         Earlier(p, q)
  PROVE  Place(p, S) < Place(q, S)
<1> DEFINE P == { r \in S : Earlier(r, p) }
           Q == { r \in S : Earlier(r, q) }
<1>1. IsFiniteSet(Q)
  <2>1. Q \in SUBSET Pair
    OBVIOUS
  <2> QED BY <2>1, PairsAreFinite
<1>2. p \in Q
  OBVIOUS
<1>3. P \in SUBSET (Q \ {p})
  <2>1. ~Earlier(p, p)
    BY NotBeforeItself
  <2>2. ASSUME NEW r \in P PROVE r \in Q
    BY EarlierIsTransitive
  <2> QED BY <2>1, <2>2
<1>4. IsFiniteSet(Q \ {p}) /\ Cardinality(Q \ {p}) = Cardinality(Q) - 1
  BY <1>1, <1>2, FS_RemoveElement
<1>5. Cardinality(P) <= Cardinality(Q) - 1
  BY <1>3, <1>4, FS_Subset
<1>6. Place(p, S) = Cardinality(P) /\ Place(q, S) = Cardinality(Q)
  BY PlaceIs
<1>7. Place(p, S) \in Nat /\ Place(q, S) \in Nat
  BY PlaceIsNat
<1> HIDE DEF P, Q
<1> QED BY <1>5, <1>6, <1>7

LEMMA OnePairPerPlace ==
  ASSUME NEW S \in SUBSET Pair, NEW p \in S, NEW q \in S,
         Place(p, S) = Place(q, S)
  PROVE  p = q
<1>1. Place(p, S) \in Nat /\ Place(q, S) \in Nat
  BY PlaceIsNat
<1>2. CASE p # q
  <2>1. Earlier(p, q) \/ Earlier(q, p)
    BY <1>2, EarlierIsTotal
  <2>2. CASE Earlier(p, q)
    BY <1>1, <2>2, EarlierHasALowerPlace
  <2>3. CASE Earlier(q, p)
    BY <1>1, <2>3, EarlierHasALowerPlace
  <2> QED BY <2>1, <2>2, <2>3
<1> QED BY <1>2

(* A chunk of n places holds at most n pairs. *)
LEMMA ChunkIsBounded ==
  ASSUME NEW S \in SUBSET Pair,
         NEW a \in Nat, NEW n \in Nat, NEW b, b = a + n
  PROVE  Cardinality({ p \in S : Place(p, S) \in a .. b - 1 }) <= n
<1> DEFINE C == { p \in S : Place(p, S) \in a .. b - 1 }
           f == [p \in C |-> Place(p, S)]
<1>1. f \in [C -> a .. b - 1]
  OBVIOUS
<1>2. \A p, q \in C : f[p] = f[q] => p = q
  BY OnePairPerPlace
<1>3. f \in Injection(C, a .. b - 1)
  <2> HIDE DEF C, f
  <2> QED BY <1>1, <1>2 DEF Injection, IsInjective
<1>4. IsFiniteSet(a .. b - 1) /\ Cardinality(a .. b - 1) = n
  <2>1. a \in Int /\ b - 1 \in Int
    OBVIOUS
  <2>2. IsFiniteSet(a .. b - 1)
    BY <2>1, FS_Interval
  <2>3. Cardinality(a .. b - 1) = IF a > b - 1 THEN 0 ELSE (b - 1) - a + 1
    BY <2>1, FS_Interval
  <2> QED BY <2>2, <2>3
<1>5. Cardinality(C) <= Cardinality(a .. b - 1)
  <2> HIDE DEF C, f
  <2> QED BY <1>3, <1>4, FS_Injection
<1> QED BY <1>4, <1>5
-----------------------------------------------------------------------------
(* The steps. *)

LEMMA PairsArePairs == ASSUME NEW f PROVE Pairs(f) \in SUBSET Pair
BY DEF Pairs, PairsIn

LEMMA FirstRefresh == ASSUME RefreshInit PROVE RefreshInv
<1>1. RefreshTypes
  <2>1. status \in [Nodes -> NodeStatuses] /\ limit \in Limits
    BY DEF RefreshInit, NodeStatuses
  <2>2. jobs \in Seq(Jobs) /\ worker \in [Workers -> Chunks \cup {Idle}]
    BY DEF RefreshInit
  <2>3. changes \in 0 .. MaxChanges /\ deaths \in 0 .. MaxDeaths
    BY RefreshAssumption DEF RefreshInit
  <2> QED BY <2>1, <2>2, <2>3 DEF RefreshInit, RefreshTypes
<1> QED BY <1>1 DEF RefreshInit, RefreshInv, RowsSafe, WorkersSafe, OneWorkerPerRow

(* While the list stands and more pairs are asked for, what is safe is. *)
LEMMA RowStaysSafe ==
  ASSUME NEW r, RowSafe(r), UNCHANGED <<status, limit>>, asked \subseteq asked'
  PROVE  RowSafe(r)'
<1>1. Pairs(r.includePending)' = Pairs(r.includePending)
  BY DEF Pairs, PairsIn
<1> QED BY <1>1 DEF RowSafe

LEMMA ChunkStaysSafe ==
  ASSUME NEW c, NEW r, ChunkSafe(c, r), UNCHANGED <<status, limit>>, asked \subseteq asked'
  PROVE  ChunkSafe(c, r)'
<1>1. Pairs(r.includePending)' = Pairs(r.includePending)
  BY DEF Pairs, PairsIn
<1> QED BY <1>1 DEF ChunkSafe

(* A worker takes a row, or goes on with its chunk, or lets go of it. *)
LEMMA WorkerMoves ==
  ASSUME RefreshInv, RefreshTypes', UNCHANGED <<status, limit, jobs>>, asked \subseteq asked',
         NEW w \in Workers, NEW c, worker' = [worker EXCEPT ![w] = c],
         c # Idle => c.job \in DOMAIN jobs /\ ChunkSafe(c, jobs[c.job])',
         c # Idle => \A v \in Workers : v # w /\ worker[v] # Idle => worker[v].job # c.job
  PROVE  RefreshInv'
<1>1. \A v \in Workers : worker'[v] = IF v = w THEN c ELSE worker[v]
  BY DEF RefreshInv, RefreshTypes
<1>2. RowsSafe'
  BY RowStaysSafe DEF RefreshInv, RowsSafe
<1>3. WorkersSafe'
  <2> SUFFICES ASSUME NEW v \in Workers, worker'[v] # Idle
               PROVE  /\ worker'[v].job \in DOMAIN jobs
                      /\ ChunkSafe(worker[v], jobs[worker[v].job])'
    BY DEF WorkersSafe
  <2>1. CASE v = w
    <3>1. worker'[v] = c
      BY <1>1, <2>1
    <3> QED BY <3>1 DEF ChunkSafe
  <2>2. CASE v # w
    <3>1. worker'[v] = worker[v]
      BY <1>1, <2>2
    <3>2. worker[v].job \in DOMAIN jobs /\ ChunkSafe(worker[v], jobs[worker[v].job])
      BY <3>1 DEF RefreshInv, WorkersSafe
    <3> QED BY <3>1, <3>2, ChunkStaysSafe DEF ChunkSafe
  <2> QED BY <2>1, <2>2
<1>4. OneWorkerPerRow'
  BY <1>1 DEF RefreshInv, OneWorkerPerRow
<1> QED BY <1>2, <1>3, <1>4 DEF RefreshInv

(* A worker's own row changes as it lets go of it. *)
LEMMA WorkerLetsGo ==
  ASSUME RefreshInv, RefreshTypes', UNCHANGED <<status, limit, asked>>,
         NEW w \in Workers, worker[w] # Idle, worker' = [worker EXCEPT ![w] = Idle],
         NEW r, RowSafe(r), jobs' = [jobs EXCEPT ![worker[w].job] = r]
  PROVE  RefreshInv'
<1> DEFINE k == worker[w].job
<1>1. \A v \in Workers : worker'[v] = IF v = w THEN Idle ELSE worker[v]
  BY DEF RefreshInv, RefreshTypes
<1>2. /\ DOMAIN jobs' = DOMAIN jobs
      /\ \A j \in DOMAIN jobs : jobs'[j] = IF j = k THEN r ELSE jobs[j]
  BY DEF RefreshInv, WorkersSafe
<1>3. RowsSafe'
  <2> SUFFICES ASSUME NEW j \in DOMAIN jobs PROVE RowSafe(jobs[j])'
    BY <1>2 DEF RowsSafe
  <2>1. RowSafe(jobs[j]) /\ jobs'[j] \in {r, jobs[j]}
    BY <1>2 DEF RefreshInv, RowsSafe
  <2>2. CASE jobs'[j] = r
    <3>1. RowSafe(r)'
      BY RowStaysSafe
    <3> QED BY <3>1, <2>2 DEF RowSafe
  <2>3. CASE jobs'[j] = jobs[j]
    BY <2>1, <2>3, RowStaysSafe DEF RowSafe
  <2> QED BY <2>1, <2>2, <2>3
<1>4. WorkersSafe'
  <2> SUFFICES ASSUME NEW v \in Workers, worker'[v] # Idle
               PROVE  /\ worker'[v].job \in DOMAIN jobs'
                      /\ ChunkSafe(worker[v], jobs[worker[v].job])'
    BY DEF WorkersSafe
  <2>1. v # w /\ worker'[v] = worker[v]
    BY <1>1
  <2>2. worker[v].job \in DOMAIN jobs /\ worker[v].job # k
    BY <2>1 DEF RefreshInv, WorkersSafe, OneWorkerPerRow
  <2>3. jobs'[worker[v].job] = jobs[worker[v].job]
    BY <1>2, <2>2
  <2>4. ChunkSafe(worker[v], jobs[worker[v].job])
    BY <2>1 DEF RefreshInv, WorkersSafe
  <2> HIDE DEF k
  <2> QED BY <1>2, <2>1, <2>2, <2>3, <2>4, ChunkStaysSafe DEF ChunkSafe
<1>5. OneWorkerPerRow'
  BY <1>1 DEF RefreshInv, OneWorkerPerRow
<1> QED BY <1>3, <1>4, <1>5 DEF RefreshInv

(* A row is queued; nobody's chunk changes. *)
LEMMA RowIsQueued ==
  ASSUME RefreshInv, RefreshTypes', UNCHANGED <<status, limit, asked>>,
         NEW r, RowSafe(r), jobs' = Append(jobs, r),
         \A v \in Workers : worker'[v] # Idle =>
           /\ worker[v] # Idle
           /\ worker'[v].job = worker[v].job
           /\ worker'[v].todo = worker[v].todo
           /\ worker'[v].next = worker[v].next
  PROVE  RefreshInv'
<1>1. /\ DOMAIN jobs \subseteq DOMAIN jobs'
      /\ \A j \in DOMAIN jobs' : jobs'[j] = r \/ (j \in DOMAIN jobs /\ jobs'[j] = jobs[j])
      /\ \A j \in DOMAIN jobs : jobs'[j] = jobs[j]
  BY DEF RefreshInv, RefreshTypes
<1>2. RowsSafe'
  <2> SUFFICES ASSUME NEW j \in DOMAIN jobs' PROVE RowSafe(jobs[j])'
    BY DEF RowsSafe
  <2>1. CASE jobs'[j] = r
    <3>1. RowSafe(r)'
      BY RowStaysSafe
    <3> QED BY <3>1, <2>1 DEF RowSafe
  <2>2. CASE j \in DOMAIN jobs /\ jobs'[j] = jobs[j]
    <3>1. RowSafe(jobs[j])
      BY <2>2 DEF RefreshInv, RowsSafe
    <3> QED BY <3>1, <2>2, RowStaysSafe DEF RowSafe
  <2> QED BY <1>1, <2>1, <2>2
<1>3. WorkersSafe'
  <2> SUFFICES ASSUME NEW v \in Workers, worker'[v] # Idle
               PROVE  /\ worker'[v].job \in DOMAIN jobs'
                      /\ ChunkSafe(worker[v], jobs[worker[v].job])'
    BY DEF WorkersSafe
  <2>1. worker[v] # Idle
    OBVIOUS
  <2>2. worker[v].job \in DOMAIN jobs /\ ChunkSafe(worker[v], jobs[worker[v].job])
    BY <2>1 DEF RefreshInv, WorkersSafe
  <2>3. jobs'[worker'[v].job] = jobs[worker[v].job] /\ worker'[v].job \in DOMAIN jobs'
    BY <1>1, <2>2
  <2>4. ChunkSafe(worker[v], jobs[worker[v].job])
    BY <2>2
  <2> QED BY <2>2, <2>3, ChunkStaysSafe DEF ChunkSafe
<1>4. OneWorkerPerRow'
  BY DEF RefreshInv, OneWorkerPerRow
<1> QED BY <1>2, <1>3, <1>4 DEF RefreshInv

LEMMA NothingMoves ==
  ASSUME RefreshInv, RefreshTypes', UNCHANGED <<status, limit, jobs, worker, asked>>
  PROVE  RefreshInv'
<1>1. RowsSafe'
  BY RowStaysSafe DEF RefreshInv, RowsSafe
<1>2. WorkersSafe'
  <2> SUFFICES ASSUME NEW v \in Workers, worker[v] # Idle
               PROVE  worker[v].job \in DOMAIN jobs /\ ChunkSafe(worker[v], jobs[worker[v].job])'
    BY DEF WorkersSafe
  <2>1. worker[v].job \in DOMAIN jobs /\ ChunkSafe(worker[v], jobs[worker[v].job])
    BY DEF RefreshInv, WorkersSafe
  <2> QED BY <2>1, ChunkStaysSafe DEF ChunkSafe
<1>3. OneWorkerPerRow'
  BY DEF RefreshInv, OneWorkerPerRow
<1> QED BY <1>1, <1>2, <1>3 DEF RefreshInv

LEMMA StartCheckStep ==
  ASSUME RefreshInv, NEW a \in Admins, StartCheck(a)
  PROVE  RefreshInv'
<1>1. RefreshTypes'
  BY DEF RefreshInv, RefreshTypes, StartCheck, network
<1> QED BY <1>1, NothingMoves DEF StartCheck, network

(* Nothing comes before the first offset. *)
LEMMA StartStep ==
  ASSUME RefreshInv, NEW a \in Admins, NEW f \in BOOLEAN, Start(a, f)
  PROVE  RefreshInv'
<1> DEFINE r == Queued(0, f, Pairs(f))
<1>1. r \in Jobs
  BY RefreshAssumption, PairsArePairs DEF Queued, Jobs
<1>2. RowSafe(r)
  <2>1. /\ r.promised = Pairs(f) /\ r.includePending = f /\ r.offset = 0
        /\ r.attempts = 0
    BY DEF Queued
  <2>2. \A p : Place(p, Pairs(f)) \in Nat
    BY PairsArePairs, PlaceIsNat
  <2>3. 0 < MaxTries
    BY RefreshAssumption
  <2> HIDE DEF r
  <2> QED BY <2>1, <2>2, <2>3 DEF RowSafe
<1>3. jobs' = Append(jobs, r)
  BY DEF Start
<1> HIDE DEF r
<1>4. RefreshTypes'
  <2>1. jobs' \in Seq(Jobs)
    BY <1>1, <1>3 DEF RefreshInv, RefreshTypes
  <2> QED BY <2>1 DEF RefreshInv, RefreshTypes, Start, network
<1> QED BY <1>2, <1>3, <1>4, RowIsQueued DEF Start, network

(* The chunk picks up at the row's offset. *)
LEMMA ReadChunkIsSafe ==
  ASSUME RefreshInv, NEW w \in Workers, NEW j \in DOMAIN jobs,
         ReadChunk(w, j)
  PROVE  \E c \in Chunks : /\ worker' = [worker EXCEPT ![w] = c]
                          /\ c.job = j /\ ChunkSafe(c, jobs[j])
<1> DEFINE S == Pairs(jobs[j].includePending)
           last == jobs[j].offset + PairsPerRun
           chunk == { p \in S : Place(p, S) \in jobs[j].offset .. last - 1 }
           next == IF last < Cardinality(S) THEN last ELSE 0
           c == [job |-> j, todo |-> chunk, answers |-> chunk = {}, next |-> next, queued |-> FALSE]
<1>1. worker' = [worker EXCEPT ![w] = c]
  BY DEF ReadChunk
<1>2. /\ jobs[j] \in Jobs /\ j \in Nat
      /\ jobs[j].offset \in Nat /\ jobs[j].status = "pending"
  <2>1. jobs[j].status = "pending"
    BY DEF ReadChunk
  <2>2. jobs[j] \in Jobs /\ j \in Nat
    BY DEF RefreshInv, RefreshTypes
  <2> QED BY <2>1, <2>2 DEF Jobs
<1>3. PairsPerRun \in Nat \ {0} /\ last \in Nat \ {0}
  BY RefreshAssumption, <1>2
<1>4. S \in SUBSET Pair /\ chunk \in SUBSET Pair
  BY PairsArePairs
<1>5. Cardinality(chunk) <= PairsPerRun
  <2>1. last = jobs[j].offset + PairsPerRun
    OBVIOUS
  <2>2. PICK T \in SUBSET Pair : T = S
    BY <1>4
  <2>3. PICK a \in Nat : a = jobs[j].offset
    BY <1>2
  <2>4. PICK n \in Nat : n = PairsPerRun
    BY <1>3
  <2>5. Cardinality({ p \in T : Place(p, T) \in a .. (a + n) - 1 }) <= n
    BY ChunkIsBounded
  <2>6. { p \in T : Place(p, T) \in a .. (a + n) - 1 } = chunk
    BY <2>1, <2>2, <2>3, <2>4
  <2> QED BY <2>4, <2>5, <2>6
<1>6. ASSUME NEW p \in jobs[j].promised, next = 0 \/ Place(p, S) < next
      PROVE  p \in asked \cup chunk
  <2>1. p \in S /\ (Place(p, S) < jobs[j].offset => p \in asked)
    BY DEF RefreshInv, RowsSafe, RowSafe
  <2>2. Place(p, S) \in Nat /\ Place(p, S) < Cardinality(S) /\ Cardinality(S) \in Nat
    BY <1>4, <2>1, PlaceIsNat, PlaceInList, PairsAreFinite, FS_CardinalityType
  <2>3. Place(p, S) < last
    BY <1>3, <1>6, <2>2
  <2>4. Place(p, S) < jobs[j].offset \/ Place(p, S) \in jobs[j].offset .. last - 1
    BY <1>2, <1>3, <2>2, <2>3
  <2> QED BY <2>1, <2>4
<1>7. next \in Nat /\ (chunk = {}) \in BOOLEAN
  BY <1>3
<1> HIDE DEF last, chunk, next
<1>8. c \in Chunks /\ c.job = j /\ c.todo = chunk /\ c.next = next
  BY <1>2, <1>4, <1>7 DEF Chunks
<1> HIDE DEF c
<1>9. ChunkSafe(c, jobs[j])
  BY <1>2, <1>5, <1>6, <1>8 DEF ChunkSafe
<1> QED BY <1>1, <1>8, <1>9

LEMMA ReadStep ==
  ASSUME RefreshInv, NEW w \in Workers, NEW j \in DOMAIN jobs,
         ReadChunk(w, j)
  PROVE  RefreshInv'
<1>1. PICK c \in Chunks : /\ worker' = [worker EXCEPT ![w] = c]
                          /\ c.job = j /\ ChunkSafe(c, jobs[j])
  BY ReadChunkIsSafe
<1>2. PICK r : r = jobs[j]
  OBVIOUS
<1>3. UNCHANGED <<status, limit, jobs, asked>>
  BY DEF ReadChunk, network
<1>4. ChunkSafe(c, r)'
  BY <1>1, <1>2, <1>3, ChunkStaysSafe
<1>5. ChunkSafe(c, jobs[c.job])'
  BY <1>1, <1>2, <1>3, <1>4
<1>6. RefreshTypes'
  <2>1. UNCHANGED <<network, jobs, starting, asked, measured, finished, starts, deaths>>
    BY DEF ReadChunk
  <2>2. worker' \in [Workers -> Chunks \cup {Idle}]
    BY <1>1 DEF RefreshInv, RefreshTypes
  <2> QED BY <2>1, <2>2 DEF RefreshInv, RefreshTypes, network
<1>7. \A v \in Workers : worker[v].job # c.job
  BY <1>1 DEF ReadChunk
<1> QED BY <1>1, <1>3, <1>5, <1>6, <1>7, WorkerMoves

(* A pair goes from the worker's hands to those asked for. *)
LEMMA MeasureStep ==
  ASSUME RefreshInv, NEW w \in Workers, Measure(w)
  PROVE  RefreshInv'
<1>0. worker[w] # Idle /\ worker[w] \in Chunks
  BY DEF Measure, RefreshInv, RefreshTypes
<1>1. PICK p \in worker[w].todo, answer \in {"distance", "none", "unreachable"} :
        /\ asked' = asked \cup {p}
        /\ measured' = IF answer = "distance" THEN measured \cup {p} ELSE measured
        /\ worker' = [worker EXCEPT ![w].todo = @ \ {p}, ![w].answers = @ \/ answer # "unreachable"]
  BY DEF Measure
<1>2. PICK c : c = [worker[w] EXCEPT !.todo = @ \ {p}, !.answers = @ \/ answer # "unreachable"]
  OBVIOUS
<1>3. worker' = [worker EXCEPT ![w] = c]
  BY <1>1, <1>2
<1>4. c \in Chunks
  BY <1>0, <1>2 DEF Chunks
<1>5. c.todo = worker[w].todo \ {p} /\ c.job = worker[w].job /\ c.next = worker[w].next
  BY <1>0, <1>2 DEF Chunks
<1>6. worker[w].job \in DOMAIN jobs /\ ChunkSafe(worker[w], jobs[worker[w].job])
  BY <1>0 DEF RefreshInv, WorkersSafe
<1>7. UNCHANGED <<status, limit, jobs>> /\ p \in Pair
  BY <1>0 DEF Measure, network, Chunks
<1>8. Cardinality(c.todo) <= PairsPerRun
  <2>1. IsFiniteSet(worker[w].todo) /\ Cardinality(worker[w].todo) \in Nat
    BY <1>0, PairsAreFinite, FS_CardinalityType DEF Chunks
  <2>2. Cardinality(c.todo) <= Cardinality(worker[w].todo)
    BY <1>5, <2>1, FS_Subset
  <2>3. Cardinality(c.todo) \in Nat
    BY <1>5, <2>1, FS_Subset, FS_CardinalityType
  <2> QED BY RefreshAssumption, <1>6, <2>1, <2>2, <2>3 DEF ChunkSafe
<1>9. ChunkSafe(c, jobs[c.job])'
  <2>1. PICK r : r = jobs[worker[w].job]
    OBVIOUS
  <2>2. ChunkSafe(worker[w], r) /\ r = jobs'[c.job]
    BY <1>5, <1>6, <1>7, <2>1
  <2>3. Pairs(r.includePending)' = Pairs(r.includePending)
    BY <1>7 DEF Pairs, PairsIn
  <2>4. asked' \cup c.todo = asked \cup worker[w].todo
    BY <1>1, <1>5
  <2>5. ChunkSafe(c, r)'
    BY <1>5, <1>8, <2>2, <2>3, <2>4 DEF ChunkSafe
  <2> QED BY <2>2, <2>5 DEF ChunkSafe
<1>10. RefreshTypes'
  <2>1. worker' \in [Workers -> Chunks \cup {Idle}]
    BY <1>3, <1>4 DEF RefreshInv, RefreshTypes
  <2>2. measured' \subseteq asked' /\ asked' \subseteq Pair /\ finished' \subseteq asked'
    BY <1>1, <1>7 DEF RefreshInv, RefreshTypes, Measure
  <2> QED BY <2>1, <2>2 DEF RefreshInv, RefreshTypes, Measure, network
<1>11. \A v \in Workers : v # w /\ worker[v] # Idle => worker[v].job # c.job
  BY <1>0, <1>5 DEF RefreshInv, OneWorkerPerRow
<1>12. asked \subseteq asked' /\ c.job \in DOMAIN jobs
  BY <1>1, <1>5, <1>6
<1> QED BY <1>3, <1>7, <1>9, <1>10, <1>11, <1>12, WorkerMoves

(* A row that is sent or given up promises nothing any more. *)
LEMMA SettledIsSafe ==
  ASSUME NEW s \in {"sent", "failed"}
  PROVE  /\ [Queued(0, FALSE, {}) EXCEPT !.status = s] \in Jobs
         /\ RowSafe([Queued(0, FALSE, {}) EXCEPT !.status = s])
<1> DEFINE r == [Queued(0, FALSE, {}) EXCEPT !.status = s]
<1>1. r \in Jobs
  <2>1. MaxTries \in Nat
    BY RefreshAssumption
  <2>2. Queued(0, FALSE, {}) \in Jobs
    BY <2>1 DEF Queued, Jobs
  <2> QED BY <2>2 DEF Jobs
<1>2. r.status # "pending" /\ r.promised = {}
  BY DEF Queued
<1> HIDE DEF r
<1>3. RowSafe(r)
  BY <1>2 DEF RowSafe
<1> QED BY <1>1, <1>3 DEF r

(* The worker lets go of its row, which is tried again or settled. *)
LEMMA ChunkFailsStep ==
  ASSUME RefreshInv, NEW w \in Workers, ChunkFails(w)
  PROVE  RefreshInv'
<1> DEFINE k == worker[w].job
<1>0. /\ worker[w] # Idle
      /\ worker' = [worker EXCEPT ![w] = Idle]
      /\ UNCHANGED <<network, starting, asked, measured, finished, starts, deaths>>
  BY DEF ChunkFails
<1>1. k \in DOMAIN jobs /\ jobs[k] \in Jobs /\ jobs[k].status = "pending" /\ RowSafe(jobs[k])
  BY <1>0 DEF RefreshInv, RefreshTypes, WorkersSafe, ChunkSafe, RowsSafe
<1>2. \E r \in Jobs : RowSafe(r) /\ jobs' = [jobs EXCEPT ![k] = r]
  <2>1. CASE jobs[k].attempts + 1 = MaxTries
    <3>1. jobs' = [jobs EXCEPT ![k] = [Queued(0, FALSE, {}) EXCEPT !.status = "failed"]]
      BY <2>1 DEF ChunkFails, Settled
    <3> QED BY <3>1, SettledIsSafe
  <2>2. CASE jobs[k].attempts + 1 # MaxTries
    <3> DEFINE r == [jobs[k] EXCEPT !.attempts = @ + 1]
    <3>1. jobs' = [jobs EXCEPT ![k] = r]
      BY <2>2 DEF ChunkFails
    <3>2. jobs[k].attempts \in Nat /\ jobs[k].attempts < MaxTries
      BY <1>1 DEF Jobs, RowSafe
    <3>3. /\ r.attempts = jobs[k].attempts + 1 /\ r.status = jobs[k].status
          /\ r.promised = jobs[k].promised /\ r.offset = jobs[k].offset
          /\ r.includePending = jobs[k].includePending
      BY <1>1 DEF Jobs
    <3>4. r.attempts \in 0 .. MaxTries /\ r.attempts < MaxTries
      <4>1. MaxTries \in Nat
        BY RefreshAssumption
      <4> HIDE DEF r, k
      <4> QED BY <2>2, <3>2, <3>3, <4>1
    <3>5. r \in Jobs
      BY <1>1, <3>3, <3>4 DEF Jobs
    <3> HIDE DEF r
    <3>6. RowSafe(r)
      BY <1>1, <3>3, <3>4 DEF RowSafe
    <3> QED BY <3>1, <3>5, <3>6
  <2> QED BY <2>1, <2>2
<1>3. PICK r \in Jobs : RowSafe(r) /\ jobs' = [jobs EXCEPT ![k] = r]
  BY <1>2
<1>4. RefreshTypes'
  <2>1. jobs' \in Seq(Jobs)
    BY <1>1, <1>3 DEF RefreshInv, RefreshTypes
  <2>2. worker' \in [Workers -> Chunks \cup {Idle}]
    BY <1>0 DEF RefreshInv, RefreshTypes
  <2> QED BY <1>0, <2>1, <2>2 DEF RefreshInv, RefreshTypes, network
<1> QED BY <1>0, <1>3, <1>4, WorkerLetsGo DEF network

(* The last chunk's worker has nothing left in hand: all was asked for. *)
LEMMA MarkSentStep ==
  ASSUME RefreshInv, NEW w \in Workers, MarkSent(w)
  PROVE  RefreshInv'
<1> DEFINE k == worker[w].job
<1>0. /\ worker[w] # Idle /\ worker[w].todo = {}
      /\ worker' = [worker EXCEPT ![w] = Idle]
      /\ finished' = IF worker[w].next = 0 THEN finished \cup jobs[k].promised ELSE finished
      /\ UNCHANGED <<network, starting, asked, measured, starts, deaths>>
  BY DEF MarkSent
<1>1. k \in DOMAIN jobs /\ ChunkSafe(worker[w], jobs[k])
  BY <1>0 DEF RefreshInv, WorkersSafe
<1>2. PICK r \in Jobs : RowSafe(r) /\ jobs' = [jobs EXCEPT ![k] = r]
  <2>1. jobs' = [jobs EXCEPT ![k] = [Queued(0, FALSE, {}) EXCEPT !.status = "sent"]]
    BY DEF MarkSent, Settled
  <2> QED BY <2>1, SettledIsSafe
<1>3. finished' \subseteq asked'
  <2>1. worker[w].next = 0 => jobs[k].promised \subseteq asked
    BY <1>0, <1>1 DEF ChunkSafe
  <2> QED BY <1>0, <2>1 DEF RefreshInv, RefreshTypes
<1>4. RefreshTypes'
  <2>1. jobs' \in Seq(Jobs)
    BY <1>1, <1>2 DEF RefreshInv, RefreshTypes
  <2>2. worker' \in [Workers -> Chunks \cup {Idle}]
    BY <1>0 DEF RefreshInv, RefreshTypes
  <2> QED BY <1>0, <1>3, <2>1, <2>2 DEF RefreshInv, RefreshTypes, network
<1> QED BY <1>0, <1>2, <1>4, WorkerLetsGo DEF network

(* The next row starts where the chunk ended, with nothing left in hand. *)
LEMMA QueueNextStep ==
  ASSUME RefreshInv, NEW w \in Workers, QueueNext(w)
  PROVE  RefreshInv'
<1> DEFINE k == worker[w].job
           r == Queued(worker[w].next, jobs[k].includePending, jobs[k].promised)
<1>0. /\ worker[w] # Idle /\ worker[w].todo = {} /\ worker[w].next # 0
      /\ jobs' = Append(jobs, r)
      /\ worker' = [worker EXCEPT ![w].queued = TRUE]
      /\ UNCHANGED <<network, starting, asked, measured, finished, starts, deaths>>
  BY DEF QueueNext
<1>1. worker[w] \in Chunks /\ k \in DOMAIN jobs /\ jobs[k] \in Jobs
  BY <1>0 DEF RefreshInv, RefreshTypes, WorkersSafe
<1>2. ChunkSafe(worker[w], jobs[k]) /\ RowSafe(jobs[k])
  BY <1>0, <1>1 DEF RefreshInv, WorkersSafe, RowsSafe
<1>3. /\ r.offset = worker[w].next /\ r.includePending = jobs[k].includePending
      /\ r.promised = jobs[k].promised /\ r.attempts = 0 /\ r.status = "pending"
  BY DEF Queued
<1>4. r \in Jobs
  BY RefreshAssumption, <1>1 DEF Queued, Jobs, Chunks
<1> HIDE DEF r
<1>5. RowSafe(r)
  <2>1. 0 < MaxTries
    BY RefreshAssumption
  <2> QED BY <1>0, <1>2, <1>3, <2>1 DEF RowSafe, ChunkSafe
<1>6. \A v \in Workers : /\ v # w => worker'[v] = worker[v]
                        /\ v = w => worker'[v] = [worker[w] EXCEPT !.queued = TRUE]
  BY <1>0 DEF RefreshInv, RefreshTypes
<1>7. [worker[w] EXCEPT !.queued = TRUE] \in Chunks
  BY <1>1 DEF Chunks
<1>8. RefreshTypes'
  <2>1. jobs' \in Seq(Jobs)
    BY <1>0, <1>4 DEF RefreshInv, RefreshTypes
  <2>2. worker' \in [Workers -> Chunks \cup {Idle}]
    BY <1>0, <1>7 DEF RefreshInv, RefreshTypes
  <2> QED BY <1>0, <2>1, <2>2 DEF RefreshInv, RefreshTypes, network
<1>9. \A v \in Workers : worker'[v] # Idle =>
        /\ worker[v] # Idle
        /\ worker'[v].job = worker[v].job
        /\ worker'[v].todo = worker[v].todo
        /\ worker'[v].next = worker[v].next
  <2>1. LET d == [worker[w] EXCEPT !.queued = TRUE]
        IN  d.job = worker[w].job /\ d.todo = worker[w].todo /\ d.next = worker[w].next
    BY <1>1 DEF Chunks
  <2> QED BY <1>0, <1>6, <2>1
<1>10. UNCHANGED <<status, limit, asked>>
  BY <1>0 DEF network
<1> QED BY <1>0, <1>5, <1>8, <1>9, <1>10, RowIsQueued

LEMMA WorkerDiesStep ==
  ASSUME RefreshInv, NEW w \in Workers, WorkerDies(w)
  PROVE  RefreshInv'
<1>1. deaths' \in 0 .. MaxDeaths
  BY RefreshAssumption DEF WorkerDies, RefreshInv, RefreshTypes
<1>2. RefreshTypes'
  BY <1>1 DEF RefreshInv, RefreshTypes, WorkerDies, network
<1> QED BY <1>2, WorkerMoves DEF WorkerDies, network

(* A change of the list moves places back, or the promise is off. *)
LEMMA ListStep ==
  ASSUME RefreshInv, NEW statuses, NEW km, ListBecomes(statuses, km),
         statuses \in [Nodes -> NodeStatuses], km \in Limits
  PROVE  RefreshInv'
<1>1. \A f : Pairs(f)' = PairsIn(statuses, km, f)
  BY DEF ListBecomes, Pairs
<1>2. /\ DOMAIN jobs' = DOMAIN jobs
      /\ \A j \in DOMAIN jobs :
           jobs'[j] = IF Pairs(jobs[j].includePending)
                           \subseteq PairsIn(statuses, km, jobs[j].includePending)
                      THEN jobs[j] ELSE [jobs[j] EXCEPT !.promised = {}]
      /\ UNCHANGED <<worker, starting, asked, measured, finished, starts, deaths>>
  BY DEF ListBecomes
<1>3. \A j \in DOMAIN jobs :
        /\ jobs[j] \in Jobs /\ jobs'[j] \in Jobs
        /\ jobs'[j].status = jobs[j].status /\ jobs'[j].attempts = jobs[j].attempts
        /\ jobs'[j].offset = jobs[j].offset
        /\ jobs'[j].includePending = jobs[j].includePending
  <2> SUFFICES ASSUME NEW j \in DOMAIN jobs
               PROVE  /\ jobs[j] \in Jobs /\ jobs'[j] \in Jobs
                      /\ jobs'[j].status = jobs[j].status /\ jobs'[j].attempts = jobs[j].attempts
                      /\ jobs'[j].offset = jobs[j].offset
                      /\ jobs'[j].includePending = jobs[j].includePending
    OBVIOUS
  <2>1. jobs[j] \in Jobs
    BY DEF RefreshInv, RefreshTypes
  <2>2. jobs'[j] = jobs[j] \/ jobs'[j] = [jobs[j] EXCEPT !.promised = {}]
    BY <1>2
  <2>3. CASE jobs'[j] = jobs[j]
    BY <2>1, <2>3
  <2>4. CASE jobs'[j] = [jobs[j] EXCEPT !.promised = {}]
    BY <2>1, <2>4 DEF Jobs
  <2> QED BY <2>2, <2>3, <2>4

(* What is still promised was, and its place is no lower than before. *)
<1>4. ASSUME NEW j \in DOMAIN jobs, NEW p \in jobs'[j].promised
      PROVE  LET f == jobs[j].includePending
             IN  /\ p \in jobs[j].promised
                 /\ p \in Pairs(f) => p \in PairsIn(statuses, km, f)
                 /\ Place(p, Pairs(f)) <= Place(p, PairsIn(statuses, km, f))
  <2> DEFINE f == jobs[j].includePending
  <2>1. jobs[j] \in Jobs
    BY <1>3
  <2>2. CASE Pairs(f) \subseteq PairsIn(statuses, km, f)
    <3>1. jobs'[j] = jobs[j]
      BY <1>2, <2>2
    <3>2. PairsIn(statuses, km, f) \in SUBSET Pair
      BY DEF PairsIn
    <3>3. Place(p, Pairs(f)) <= Place(p, PairsIn(statuses, km, f))
      BY <2>2, <3>2, PlaceGrows
    <3> QED BY <1>4, <2>2, <3>1, <3>3
  <2>3. CASE ~(Pairs(f) \subseteq PairsIn(statuses, km, f))
    <3>1. jobs'[j] = [jobs[j] EXCEPT !.promised = {}]
      BY <1>2, <2>3
    <3>2. jobs'[j].promised = {}
      BY <2>1, <3>1 DEF Jobs
    <3> QED BY <1>4, <3>2
  <2> QED BY <2>2, <2>3
<1>5. RowsSafe'
  <2> SUFFICES ASSUME NEW j \in DOMAIN jobs PROVE RowSafe(jobs[j])'
    BY <1>2 DEF RowsSafe
  <2>1. PICK q, r : q = jobs[j] /\ r = jobs'[j]
    OBVIOUS
  <2>2. RowSafe(q)
    BY <2>1 DEF RefreshInv, RowsSafe
  <2>3. /\ r.status = q.status /\ r.attempts = q.attempts /\ r.offset = q.offset /\ r.offset \in Nat
        /\ r.includePending = q.includePending
    BY <1>3, <2>1 DEF Jobs
  <2>4. Pairs(r.includePending)' = PairsIn(statuses, km, q.includePending) /\ asked' = asked
    BY <1>1, <1>2, <2>3
  <2>5. ASSUME NEW p \in r.promised
        PROVE  /\ p \in PairsIn(statuses, km, q.includePending)
               /\ Place(p, PairsIn(statuses, km, q.includePending)) < r.offset => p \in asked
    <3>1. /\ p \in q.promised
          /\ p \in Pairs(q.includePending) => p \in PairsIn(statuses, km, q.includePending)
          /\ Place(p, Pairs(q.includePending))
               <= Place(p, PairsIn(statuses, km, q.includePending))
      BY <1>4, <2>1
    <3>2. /\ Place(p, Pairs(q.includePending)) \in Nat
          /\ Place(p, PairsIn(statuses, km, q.includePending)) \in Nat
      <4>1. PairsIn(statuses, km, q.includePending) \in SUBSET Pair
        BY DEF PairsIn
      <4> QED BY <4>1, PairsArePairs, PlaceIsNat
    <3>3. p \in Pairs(q.includePending)
      BY <2>2, <3>1 DEF RowSafe
    <3>4. Place(p, Pairs(q.includePending)) < q.offset => p \in asked
      BY <2>2, <3>1 DEF RowSafe
    <3> QED BY <2>3, <3>1, <3>2, <3>3, <3>4
  <2>6. r.status = "pending" => r.attempts < MaxTries
    BY <2>2, <2>3 DEF RowSafe
  <2>7. RowSafe(r)'
    BY <2>4, <2>5, <2>6 DEF RowSafe
  <2> QED BY <2>1, <2>7 DEF RowSafe
<1>6. WorkersSafe'
  <2> SUFFICES ASSUME NEW w \in Workers, worker[w] # Idle
               PROVE  worker[w].job \in DOMAIN jobs /\ ChunkSafe(worker[w], jobs[worker[w].job])'
    BY <1>2 DEF WorkersSafe
  <2>1. PICK c, j : c = worker[w] /\ j = worker[w].job
    OBVIOUS
  <2>2. j \in DOMAIN jobs /\ ChunkSafe(c, jobs[j])
    BY <2>1 DEF RefreshInv, WorkersSafe
  <2>3. PICK q, r : q = jobs[j] /\ r = jobs'[j]
    OBVIOUS
  <2>4. /\ r.status = q.status /\ r.includePending = q.includePending
        /\ c.next \in Nat
    <3>1. c \in Chunks
      BY <2>1 DEF RefreshInv, RefreshTypes
    <3> QED BY <1>3, <2>2, <2>3, <3>1 DEF Chunks
  <2>5. Pairs(r.includePending)' = PairsIn(statuses, km, q.includePending) /\ asked' = asked
    BY <1>1, <1>2, <2>4
  <2>6. ASSUME NEW p \in r.promised,
               c.next = 0 \/ Place(p, PairsIn(statuses, km, q.includePending)) < c.next
        PROVE  p \in asked \cup c.todo
    <3>1. /\ p \in q.promised
          /\ Place(p, Pairs(q.includePending))
               <= Place(p, PairsIn(statuses, km, q.includePending))
      BY <1>4, <2>2, <2>3
    <3>2. /\ Place(p, Pairs(q.includePending)) \in Nat
          /\ Place(p, PairsIn(statuses, km, q.includePending)) \in Nat
      <4>1. PairsIn(statuses, km, q.includePending) \in SUBSET Pair
        BY DEF PairsIn
      <4> QED BY <4>1, PairsArePairs, PlaceIsNat
    <3>3. c.next = 0 \/ Place(p, Pairs(q.includePending)) < c.next
      BY <2>4, <2>6, <3>1, <3>2
    <3> QED BY <2>2, <2>3, <3>1, <3>3 DEF ChunkSafe
  <2>7. Cardinality(c.todo) <= PairsPerRun /\ r.status = "pending"
    BY <2>2, <2>3, <2>4 DEF ChunkSafe
  <2>8. ChunkSafe(c, r)'
    BY <2>5, <2>6, <2>7 DEF ChunkSafe
  <2> QED BY <1>2, <2>1, <2>2, <2>3, <2>8 DEF ChunkSafe
<1>7. RefreshTypes'
  <2>1. jobs' \in Seq(Jobs)
    <3>1. jobs \in Seq(Jobs)
      BY DEF RefreshInv, RefreshTypes
    <3>2. jobs' = [j \in 1 .. Len(jobs) |-> jobs'[j]]
      BY <3>1 DEF ListBecomes
    <3> QED BY <1>3, <3>1, <3>2
  <2>2. status' \in [Nodes -> NodeStatuses] /\ limit' \in Limits
    BY DEF ListBecomes
  <2>3. changes' \in 0 .. MaxChanges
    <3>1. changes < MaxChanges /\ changes' = changes + 1
      BY DEF ListBecomes
    <3>2. changes \in 0 .. MaxChanges /\ MaxChanges \in Nat
      BY RefreshAssumption DEF RefreshInv, RefreshTypes
    <3> QED BY <3>1, <3>2
  <2> QED BY <1>2, <2>1, <2>2, <2>3 DEF RefreshInv, RefreshTypes
<1>8. OneWorkerPerRow'
  BY <1>2 DEF RefreshInv, OneWorkerPerRow
<1> QED BY <1>5, <1>6, <1>7, <1>8 DEF RefreshInv

LEMMA RefreshStep ==
  ASSUME RefreshInv, [RefreshNext]_refreshVars
  PROVE  RefreshInv'
<1>1. CASE \E a \in Admins : StartCheck(a) \/ \E f \in BOOLEAN : Start(a, f)
  BY <1>1, StartCheckStep, StartStep
<1>2. CASE \E w \in Workers : Poll(w) \/ WorkerDies(w)
  <2>1. PICK w \in Workers : Poll(w) \/ WorkerDies(w)
    BY <1>2
  <2>2. CASE WorkerDies(w)
    BY <2>2, WorkerDiesStep
  <2>3. CASE \E j \in DOMAIN jobs : ReadChunk(w, j)
    BY <2>3, ReadStep
  <2>4. CASE Measure(w)
    BY <2>4, MeasureStep
  <2>5. CASE ChunkFails(w)
    BY <2>5, ChunkFailsStep
  <2>6. CASE QueueNext(w)
    BY <2>6, QueueNextStep
  <2>7. CASE MarkSent(w)
    BY <2>7, MarkSentStep
  <2> QED BY <2>1, <2>2, <2>3, <2>4, <2>5, <2>6, <2>7 DEF Poll
<1>3. CASE \E n \in Nodes, s \in NodeStatuses : SetStatus(n, s)
  <2>1. PICK n \in Nodes, s \in NodeStatuses : SetStatus(n, s)
    BY <1>3
  <2>2. PICK statuses, km : statuses = [status EXCEPT ![n] = s] /\ km = limit
    OBVIOUS
  <2>3. ListBecomes(statuses, km)
    BY <2>1, <2>2 DEF SetStatus
  <2>4. statuses \in [Nodes -> NodeStatuses] /\ km \in Limits
    BY <2>2 DEF RefreshInv, RefreshTypes
  <2> QED BY <2>3, <2>4, ListStep
<1>4. CASE \E km \in Limits : SetLimit(km)
  <2>1. PICK km \in Limits : SetLimit(km)
    BY <1>4
  <2>2. PICK statuses : statuses = status
    OBVIOUS
  <2>3. ListBecomes(statuses, km)
    BY <2>1, <2>2 DEF SetLimit
  <2>4. statuses \in [Nodes -> NodeStatuses]
    BY <2>2 DEF RefreshInv, RefreshTypes
  <2> QED BY <2>3, <2>4, ListStep
<1>5. CASE UNCHANGED refreshVars
  <2>1. RefreshTypes'
    BY <1>5 DEF refreshVars, RefreshInv, RefreshTypes
  <2> QED BY <1>5, <2>1, NothingMoves DEF refreshVars
<1> QED BY <1>1, <1>2, <1>3, <1>4, <1>5 DEF RefreshNext

LEMMA RefreshInvIsEnough == ASSUME RefreshInv PROVE NothingSkipped
<1>1. \A w \in Workers : worker[w] # Idle =>
        /\ worker[w].job \in DOMAIN jobs /\ worker[w].todo \subseteq Pair
        /\ Cardinality(worker[w].todo) <= PairsPerRun /\ worker[w].next \in Nat
        /\ jobs[worker[w].job].status = "pending"
  BY DEF RefreshInv, RefreshTypes, WorkersSafe, ChunkSafe, Chunks
<1>2. RefreshTypeOK
  BY <1>1 DEF RefreshTypeOK, RefreshInv, RefreshTypes
<1>3. \A j \in DOMAIN jobs : RowSafe(jobs[j])
  BY DEF RefreshInv, RowsSafe
<1> QED BY <1>2, <1>3 DEF NothingSkipped, RowSafe, RefreshInv, RefreshTypes

(* A refresh leaves nothing out: while its list of pairs stands, what it   *)
(* set out to measure and has passed was asked for, or is in the hands of  *)
(* the worker with that chunk (NothingSkipped; route-refresh.service.ts).  *)
THEOREM NothingIsSkipped == RefreshSpec => []NothingSkipped
<1>1. RefreshInit => RefreshInv
  BY FirstRefresh
<1>2. RefreshInv /\ [RefreshNext]_refreshVars => RefreshInv'
  BY RefreshStep
<1>3. RefreshInv => NothingSkipped
  BY RefreshInvIsEnough
<1> QED BY <1>1, <1>2, <1>3, PTL DEF RefreshSpec
==============================================================================
