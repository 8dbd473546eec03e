----------------------------- MODULE MoneyProofs ------------------------------
(***************************************************************************)
(* Theorems about the two places where what was checked has to be there    *)
(* later, though others draw on it in between: a Node's slots during       *)
(* checkout and a courier's prepaid wallet.                                *)
(*                                                                         *)
(* PaymentIntents, for any number of checkouts and any capacity.  Sweep    *)
(* and webhook may each overwrite what the other has committed, so that an *)
(* intent's status does not tell whether it has a slot.  What every step   *)
(* keeps is that there is a set of intents, one for each slot taken, that  *)
(* has all pending ones and no other than those and the ordered ones.      *)
(*                                                                         *)
(* Bookings, for any deliveries, fees and balances: what the wallet        *)
(* covers, and which bookings may be left behind.                          *)
(***************************************************************************)
EXTENDS PaymentIntents, Bookings, FiniteSetTheorems, SequenceTheorems, TLAPS

(* H could be the intents that have a slot: the sweep is about to give     *)
(* back a slot that is there.                                              *)
MayHold(H) ==
  /\ H \subseteq Intents
  /\ Pending \subseteq H /\ H \subseteq Pending \cup ordered
  /\ currentCount = Cardinality(H)
  /\ sweep.at = "saving" => sweep.intent \in H

OrderedOnce == \A i \in ordered : intent[i] \in {"paid", "expired"}

SlotInv == TypeOK /\ OrderedOnce /\ \E H \in SUBSET Intents : MayHold(H)

(* Whoever confirms a payment has been told of it, and a charge that       *)
(* succeeded stays so.                                                     *)
PaidInv ==
  /\ TypeOK
  /\ OrderOnlyForPayment
  /\ sweep.at = "recovering" => charge[sweep.intent] = "success"

-----------------------------------------------------------------------------
(* The columns and the processes. *)

LEMMA TypeInit == Init => TypeOK
  BY PaymentAssumption DEF Init, TypeOK, Sweeps, Idle

LEMMA TypeStep == TypeOK /\ [Next]_vars => TypeOK'
<1> SUFFICES ASSUME TypeOK, [Next]_vars PROVE TypeOK'
  OBVIOUS
<1> USE PaymentAssumption DEF TypeOK, Sweeps, Idle
<1>1. ASSUME NEW i \in Intents, Reserve(i) PROVE TypeOK'
  BY <1>1 DEF Reserve
<1>2. ASSUME NEW i \in Intents, SetReference(i) \/ Initialize(i) \/ Pay(i) PROVE TypeOK'
  BY <1>2 DEF SetReference, Initialize, Pay
<1>3. ASSUME NEW i \in Intents, ReceiveWebhook(i) \/ RejectWebhook(i) \/ AbortWebhook(i)
      PROVE TypeOK'
  BY <1>3 DEF ReceiveWebhook, RejectWebhook, AbortWebhook
<1>4. ASSUME NEW i \in Intents, ConfirmFromWebhook(i) PROVE TypeOK'
  BY <1>4 DEF ConfirmFromWebhook, ConfirmPaid
<1>5. ASSUME NEW i \in Intents, TakeStale(i) PROVE TypeOK'
  BY <1>5 DEF TakeStale, Sweep
<1>6. CASE VerifyStale \/ SkipStale
  BY <1>6 DEF VerifyStale, SkipStale, Sweep
<1>7. CASE Recover \/ RecoverFails
  BY <1>7 DEF Recover, RecoverFails, ConfirmPaid
<1>8. CASE ReadFresh
  BY <1>8 DEF ReadFresh
<1>9. CASE SaveExpired
  BY <1>9 DEF SaveExpired, Release
<1>10. CASE UNCHANGED vars
  BY <1>10 DEF vars
<1> QED BY <1>1, <1>2, <1>3, <1>4, <1>5, <1>6, <1>7, <1>8, <1>9, <1>10 DEF Next

-----------------------------------------------------------------------------
(* The slots. *)

LEMMA SlotInit == Init => SlotInv
<1> SUFFICES ASSUME Init PROVE SlotInv
  OBVIOUS
<1>1. MayHold({})
  BY FS_EmptySet DEF Init, MayHold, Pending, Idle
<1> QED BY <1>1, TypeInit DEF SlotInv, OrderedOnce, Init

(* A step that changes no status and no order, and no counter. *)
LEMMA SlotsUntouched ==
  ASSUME NEW H, MayHold(H), UNCHANGED <<intent, ordered, currentCount>>,
         sweep'.at = "saving" => sweep'.intent \in H
  PROVE  MayHold(H)'
  BY DEF MayHold, Pending

(* Confirming changes who holds a slot as little as whether the intent had *)
(* expired meanwhile: the order goes with whatever slot there is.          *)
LEMMA SlotsPaid ==
  ASSUME TypeOK, OrderedOnce, NEW H, MayHold(H), NEW i \in Intents, ConfirmPaid(i),
         UNCHANGED currentCount, sweep'.at = "saving" => sweep' = sweep
  PROVE  MayHold(H)' /\ OrderedOnce'
<1>1. \A j \in Intents : intent'[j] = IF j = i THEN "paid" ELSE intent[j]
  BY DEF ConfirmPaid, TypeOK
<1>2. Pending' = Pending \ {i} /\ ordered' = ordered \cup {i}
  BY <1>1 DEF ConfirmPaid, Pending
<1>3. MayHold(H)'
  BY <1>2 DEF MayHold
<1>4. OrderedOnce'
  BY <1>1, <1>2 DEF OrderedOnce, TypeOK
<1> QED BY <1>3, <1>4

LEMMA SlotTaken ==
  ASSUME TypeOK, OrderedOnce, NEW H \in SUBSET Intents, MayHold(H), NEW i \in Intents, Reserve(i)
  PROVE  MayHold(H \cup {i})' /\ OrderedOnce'
<1>1. \A j \in Intents : intent'[j] = IF j = i THEN "pending" ELSE intent[j]
  BY DEF Reserve, TypeOK
<1>2. Pending' = Pending \cup {i} /\ ordered' = ordered
  BY <1>1 DEF Reserve, Pending
<1>3. i \notin H
  BY DEF Reserve, MayHold, Pending, OrderedOnce
<1>4. IsFiniteSet(H)
  BY PaymentAssumption, FS_Subset
<1>5. Cardinality(H \cup {i}) = Cardinality(H) + 1
  BY <1>3, <1>4, FS_AddElement
<1>6. MayHold(H \cup {i})'
  BY <1>2, <1>5 DEF MayHold, Reserve
<1>7. OrderedOnce'
  BY <1>1, <1>2 DEF OrderedOnce, Reserve, TypeOK
<1> QED BY <1>6, <1>7

LEMMA SlotGivenBack ==
  ASSUME TypeOK, OrderedOnce, NEW H \in SUBSET Intents, MayHold(H), SaveExpired,
         NEW i, i = sweep.intent
  PROVE  MayHold(H \ {i})' /\ OrderedOnce'
<1>1. i \in H /\ i \in Intents
  BY DEF MayHold, SaveExpired
<1>2. \A j \in Intents : intent'[j] = IF j = i THEN "expired" ELSE intent[j]
  BY <1>1 DEF SaveExpired, TypeOK
<1>3. Pending' = Pending \ {i} /\ ordered' = ordered
  BY <1>2 DEF SaveExpired, Pending
<1>4. IsFiniteSet(H) /\ Cardinality(H) \in Nat
  BY PaymentAssumption, FS_Subset, FS_CardinalityType
<1>5. Cardinality(H \ {i}) = Cardinality(H) - 1 /\ Cardinality(H) > 0
  <2>1. IsFiniteSet(H \ {i}) /\ Cardinality(H \ {i}) = Cardinality(H) - 1
    BY <1>1, <1>4, FS_RemoveElement
  <2>2. Cardinality(H \ {i}) \in Nat
    BY <2>1, FS_CardinalityType
  <2> QED BY <1>4, <2>1, <2>2
<1>6. currentCount' = Cardinality(H \ {i})
  BY <1>5, <1>4 DEF SaveExpired, Release, MayHold
<1>7. MayHold(H \ {i})'
  <2>1. sweep'.at # "saving"
    BY DEF SaveExpired, Idle
  <2>2. Pending' \subseteq H \ {i} /\ H \ {i} \subseteq Pending' \cup ordered'
    BY <1>3 DEF MayHold
  <2> QED BY <1>6, <2>1, <2>2 DEF MayHold
<1>8. OrderedOnce'
  BY <1>2, <1>3 DEF OrderedOnce, TypeOK
<1> QED BY <1>7, <1>8

LEMMA SlotStep == SlotInv /\ [Next]_vars => SlotInv'
<1> SUFFICES ASSUME SlotInv, [Next]_vars PROVE SlotInv'
  OBVIOUS
<1>0. TypeOK /\ OrderedOnce /\ TypeOK'
  BY TypeStep DEF SlotInv
<1> PICK H \in SUBSET Intents : MayHold(H)
  BY DEF SlotInv
<1> SUFFICES OrderedOnce' /\ \E K \in SUBSET Intents : MayHold(K)'
  BY <1>0 DEF SlotInv
<1>a. ASSUME UNCHANGED <<intent, ordered, currentCount>>,
             sweep'.at = "saving" => sweep'.intent \in H
      PROVE  OrderedOnce' /\ MayHold(H)'
  BY <1>0, <1>a, SlotsUntouched DEF OrderedOnce
<1>1. ASSUME NEW i \in Intents, Reserve(i) PROVE OrderedOnce' /\ MayHold(H \cup {i})'
  BY <1>0, <1>1, SlotTaken
<1>2. ASSUME NEW i \in Intents,
             \/ SetReference(i) \/ Initialize(i) \/ Pay(i)
             \/ ReceiveWebhook(i) \/ RejectWebhook(i) \/ AbortWebhook(i)
      PROVE  OrderedOnce' /\ MayHold(H)'
  <2>1. UNCHANGED <<intent, ordered, currentCount, sweep>>
    BY <1>2 DEF SetReference, Initialize, Pay, ReceiveWebhook, RejectWebhook, AbortWebhook
  <2> QED BY <1>a, <2>1 DEF MayHold
<1>3. ASSUME NEW i \in Intents, ConfirmFromWebhook(i) PROVE OrderedOnce' /\ MayHold(H)'
  BY <1>0, <1>3, SlotsPaid DEF ConfirmFromWebhook
<1>4. ASSUME NEW i \in Intents, TakeStale(i) PROVE OrderedOnce' /\ MayHold(H)'
  BY <1>a, <1>4 DEF TakeStale, Sweep
<1>5. CASE VerifyStale \/ SkipStale \/ RecoverFails
  BY <1>a, <1>5 DEF VerifyStale, SkipStale, RecoverFails, Sweep, Idle
<1>6. CASE Recover
  <2>1. sweep' = Idle /\ sweep'.at # "saving" /\ UNCHANGED currentCount
    BY <1>6 DEF Recover, Idle
  <2>2. sweep.intent \in Intents
    BY <1>0, <1>6 DEF Recover, TypeOK, Sweeps, Idle
  <2>3. CASE UNCHANGED <<intent, ordered>>
    BY <1>a, <2>1, <2>3
  <2>4. CASE ConfirmPaid(sweep.intent)
    BY <1>0, <2>1, <2>2, <2>4, SlotsPaid
  <2> QED BY <1>6, <2>3, <2>4 DEF Recover
<1>7. CASE ReadFresh
  <2>1. sweep'.at = "saving" => sweep' = [sweep EXCEPT !.at = "saving"] /\ sweep.intent \in Pending
    BY <1>0, <1>7 DEF ReadFresh, Idle, TypeOK, Sweeps, Pending
  <2>2. sweep'.at = "saving" => sweep'.intent \in H
    BY <1>0, <2>1 DEF MayHold, TypeOK, Sweeps, Idle
  <2> QED BY <1>a, <1>7, <2>2 DEF ReadFresh
<1>8. CASE SaveExpired
  <2> PICK i : i = sweep.intent
    OBVIOUS
  <2>1. MayHold(H \ {i})' /\ OrderedOnce'
    BY <1>0, <1>8, SlotGivenBack
  <2> QED BY <2>1
<1>9. CASE UNCHANGED vars
  BY <1>a, <1>9 DEF vars, MayHold
<1> QED BY <1>1, <1>2, <1>3, <1>4, <1>5, <1>6, <1>7, <1>8, <1>9 DEF Next

LEMMA SlotInvBounds == SlotInv => SlotBounds
<1> SUFFICES ASSUME SlotInv PROVE SlotBounds
  OBVIOUS
<1> PICK H \in SUBSET Intents : MayHold(H)
  BY DEF SlotInv
<1>1. Pending \cup ordered \in SUBSET Intents
  BY DEF SlotInv, TypeOK, Pending
<1>2. IsFiniteSet(H) /\ IsFiniteSet(Pending \cup ordered)
  BY <1>1, PaymentAssumption, FS_Subset
<1>3. Cardinality(Pending) <= Cardinality(H)
  BY <1>2, FS_Subset DEF MayHold
<1>4. Cardinality(H) <= Cardinality(Pending \cup ordered)
  BY <1>2, FS_Subset DEF MayHold
<1> QED BY <1>3, <1>4 DEF SlotBounds, MayHold, SlotInv

(* Whatever order the webhook's handler, the sweep and the checkout        *)
(* requests take their steps in, every pending checkout has its slot, and  *)
(* every slot taken belongs to one or to an order.                         *)
THEOREM SlotsAreKept == Spec => []SlotBounds
<1>1. Spec => []SlotInv
  BY SlotInit, SlotStep, PTL DEF Spec
<1> QED BY <1>1, SlotInvBounds, PTL

-----------------------------------------------------------------------------
(* The payments. *)

LEMMA PaidStep == PaidInv /\ [Next]_vars => PaidInv'
<1> SUFFICES ASSUME PaidInv, [Next]_vars PROVE PaidInv'
  OBVIOUS
<1>0. TypeOK /\ TypeOK'
  BY TypeStep DEF PaidInv
<1>a. ASSUME UNCHANGED <<charge, ordered>>, sweep'.at = "recovering" => sweep' = sweep
      PROVE  PaidInv'
  BY <1>0, <1>a DEF PaidInv, OrderOnlyForPayment
<1>1. ASSUME NEW i \in Intents,
             \/ Reserve(i) \/ SetReference(i) \/ ReceiveWebhook(i) \/ RejectWebhook(i)
             \/ AbortWebhook(i)
      PROVE  PaidInv'
  BY <1>a, <1>1 DEF Reserve, SetReference, ReceiveWebhook, RejectWebhook, AbortWebhook
<1>2. ASSUME NEW i \in Intents, Initialize(i) \/ Pay(i) PROVE PaidInv'
  <2>1. \A j \in Intents : charge[j] = "success" => charge'[j] = "success"
    BY <1>0, <1>2 DEF Initialize, Pay, TypeOK
  <2>2. ordered' = ordered /\ sweep' = sweep /\ ordered \subseteq Intents
    BY <1>0, <1>2 DEF Initialize, Pay, TypeOK
  <2>3. sweep.at = "recovering" => sweep.intent \in Intents
    BY <1>0 DEF TypeOK, Sweeps, Idle
  <2> QED BY <1>0, <2>1, <2>2, <2>3 DEF PaidInv, OrderOnlyForPayment
<1>3. ASSUME NEW i \in Intents, ConfirmFromWebhook(i) PROVE PaidInv'
  <2>1. charge[i] = "success"
    BY <1>3 DEF ConfirmFromWebhook, Answers
  <2> QED BY <1>0, <1>3, <2>1 DEF ConfirmFromWebhook, ConfirmPaid, PaidInv, OrderOnlyForPayment
<1>4. ASSUME NEW i \in Intents, TakeStale(i) PROVE PaidInv'
  BY <1>a, <1>4 DEF TakeStale, Sweep
<1>5. CASE VerifyStale
  <2>1. sweep.intent \in Intents
    BY <1>0, <1>5 DEF VerifyStale, TypeOK, Sweeps, Idle
  <2>2. sweep'.at = "recovering" => charge[sweep'.intent] = "success"
    BY <1>5, <2>1 DEF VerifyStale, Sweep, Answers
  <2> QED BY <1>0, <1>5, <2>2 DEF VerifyStale, PaidInv, OrderOnlyForPayment
<1>6. CASE SkipStale \/ RecoverFails
  BY <1>a, <1>6 DEF SkipStale, RecoverFails, Idle
<1>7. CASE Recover
  <2>1. charge' = charge /\ ordered' \subseteq ordered \cup {sweep.intent} /\ sweep'.at = "idle"
    BY <1>7 DEF Recover, ConfirmPaid, Idle
  <2>2. charge[sweep.intent] = "success"
    BY <1>7 DEF Recover, PaidInv
  <2> QED BY <1>0, <2>1, <2>2 DEF PaidInv, OrderOnlyForPayment
<1>8. CASE ReadFresh \/ SaveExpired
  BY <1>0, <1>a, <1>8 DEF ReadFresh, SaveExpired, Idle, TypeOK, Sweeps
<1>9. CASE UNCHANGED vars
  BY <1>a, <1>9 DEF vars
<1> QED BY <1>1, <1>2, <1>3, <1>4, <1>5, <1>6, <1>7, <1>8, <1>9 DEF Next

(* No order exists that the provider has not been paid for, whichever of   *)
(* webhook and sweep created it.                                           *)
THEOREM OrdersArePaidFor == Spec => []OrderOnlyForPayment
<1>1. Init => PaidInv
  BY TypeInit DEF Init, PaidInv, OrderOnlyForPayment, Idle
<1>2. PaidInv => OrderOnlyForPayment
  BY DEF PaidInv
<1> QED BY <1>1, <1>2, PaidStep, PTL DEF Spec

-----------------------------------------------------------------------------
(* Many orders' deliveries at one courier (module Bookings).               *)

Over == {"delivered", "cancelled"}

(* A leg that somebody ended who had read its booking is over at the       *)
(* courier; so is one the reconciler is about to close as booked.          *)
EndedAtCourier ==
  \A l \in Legs : leg[l].status \in Over /\ l \notin blind => job[l] \in Over
AboutToClose ==
  run.at = "close" /\ Head(run.todo).booked /\ Head(run.todo).leg \in Legs =>
    job[Head(run.todo).leg] \in Over
Statuses == {"none", "requested", "assigned", "delivered", "cancelled"}
WalletTypes ==
  /\ leg \in [Legs -> [status : Statuses, booked : BOOLEAN]]
  /\ job \in [Legs -> Statuses]
  /\ run = [at |-> run.at, todo |-> run.todo]
WalletInv == WalletTypes /\ EndedAtCourier /\ AboutToClose

LEMMA FirstWallet == WalletInit => WalletInv
BY DEF WalletInit, NotRunning, WalletInv, WalletTypes, EndedAtCourier, AboutToClose, Over, Statuses

(* What is over at the courier stays over: as long as the reconciler is    *)
(* not on its way to closing another leg, only new ends of legs matter.    *)
LEMMA WalletMoves ==
  ASSUME WalletInv, WalletTypes', blind \subseteq blind',
         \A l \in Legs : job[l] \in Over => job'[l] \in Over,
         \A l \in Legs : \/ leg'[l].status = leg[l].status
                         \/ leg'[l].status \notin Over
                         \/ job'[l] \in Over
                         \/ l \in blind',
         run' = run \/ run'.at # "close"
  PROVE  WalletInv'
<1>1. EndedAtCourier'
  BY DEF WalletInv, EndedAtCourier
<1>2. AboutToClose'
  BY DEF WalletInv, AboutToClose
<1> QED BY <1>1, <1>2 DEF WalletInv

(* A leg's row is written. *)
LEMMA Written ==
  ASSUME WalletInv, NEW l, NEW row \in [status : Statuses, booked : BOOLEAN], Write(l, row)
  PROVE  /\ leg' \in [Legs -> [status : Statuses, booked : BOOLEAN]]
         /\ \A k \in Legs : leg'[k] = IF k = l THEN row ELSE leg[k]
BY DEF Write, WalletInv, WalletTypes

LEMMA SubmissionSteps ==
  ASSUME WalletInv, NEW l \in Legs,
         \/ BeginSubmit(l) \/ QuoteAndCheckWallet(l)
         \/ CourierRepeats(l) \/ CourierRefuses(l) \/ SubmitFails(l)
  PROVE  WalletInv'
<1>1. UNCHANGED <<leg, job, run, blind>>
  BY DEF BeginSubmit, QuoteAndCheckWallet, CourierRepeats,
         CourierRefuses, SubmitFails
<1> QED BY <1>1, WalletMoves DEF WalletInv, WalletTypes

LEMMA RowSteps ==
  ASSUME WalletInv, NEW l \in Legs,
         Dispatch(l) \/ RecordAccepted(l) \/ RecordRefused(l)
  PROVE  WalletInv'
<1>1. UNCHANGED <<job, run>> /\ blind \subseteq blind'
  BY DEF Dispatch, RecordAccepted, RecordRefused
<1>2. leg[l] \in [status : Statuses, booked : BOOLEAN]
  BY DEF WalletInv, WalletTypes
<1>3. PICK row \in [status : Statuses, booked : BOOLEAN] :
        /\ Write(l, row)
        /\ row.status = leg[l].status \/ row.status \notin Over \/ l \in blind'
  <2>1. CASE Dispatch(l)
    <3> DEFINE row == [leg[l] EXCEPT !.status = "requested"]
    <3>1. row \in [status : Statuses, booked : BOOLEAN] /\ row.status \notin Over
      BY <1>2 DEF Statuses, Over
    <3>2. Write(l, row)
      BY <2>1 DEF Dispatch
    <3> QED BY <3>1, <3>2
  <2>2. CASE RecordAccepted(l)
    <3> DEFINE row == [leg[l] EXCEPT !.booked = TRUE]
    <3>1. row \in [status : Statuses, booked : BOOLEAN] /\ row.status = leg[l].status
      BY <1>2 DEF Statuses
    <3>2. Write(l, row)
      BY <2>2 DEF RecordAccepted
    <3> QED BY <3>1, <3>2
  <2>3. CASE RecordRefused(l)
    <3> DEFINE row == [leg[l] EXCEPT !.status = "cancelled"]
    <3>1. row \in [status : Statuses, booked : BOOLEAN]
      BY <1>2 DEF Statuses
    <3>2. Write(l, row) /\ l \in blind'
      BY <2>3 DEF RecordRefused, Closed
    <3> QED BY <3>1, <3>2
  <2> QED BY <2>1, <2>2, <2>3
<1>4. /\ leg' \in [Legs -> [status : Statuses, booked : BOOLEAN]]
      /\ \A k \in Legs : leg'[k] = IF k = l THEN row ELSE leg[k]
  BY <1>3, Written
<1>5. WalletTypes'
  BY <1>1, <1>4 DEF WalletInv, WalletTypes
<1>6. \A k \in Legs : \/ leg'[k].status = leg[k].status
                      \/ leg'[k].status \notin Over
                      \/ k \in blind'
  BY <1>3, <1>4
<1> QED BY <1>1, <1>5, <1>6, WalletMoves

(* External: a delivery's state at the courier, which never comes back     *)
(* from its end.                                                           *)
LEMMA CourierSteps ==
  ASSUME WalletInv, NEW l \in Legs,
         \/ CourierBooks(l) \/ RiderComes(l)
         \/ RiderGoes(l) \/ Finishes(l)
  PROVE  WalletInv'
<1>1. UNCHANGED <<leg, run, blind>>
  BY DEF CourierBooks, RiderComes, RiderGoes, Finishes, External
<1>2. PICK s \in Statuses : job' = [job EXCEPT ![l] = s] /\ job[l] \notin Over
  BY DEF CourierBooks, RiderComes, RiderGoes, Finishes, Over, Statuses
<1>3. \A k \in Legs : job[k] \in Over => job'[k] \in Over
  BY <1>2 DEF WalletInv, WalletTypes
<1>4. WalletTypes'
  BY <1>1, <1>2 DEF WalletInv, WalletTypes
<1> QED BY <1>1, <1>3, <1>4, WalletMoves

(* The reconciler's steps that write no leg and close none. *)
LEMMA RunSteps ==
  ASSUME WalletInv,
         \/ RunStarts \/ TransactionEndsRun \/ ExpireSkips
         \/ ListStale \/ SyncFails \/ RunEnds
  PROVE  WalletInv'
<1>1. UNCHANGED <<leg, job, blind>>
  BY DEF RunStarts, TransactionEndsRun, ExpireSkips, ListStale,
         SyncFails, RunEnds, RunUnchanged
<1>2. run = [at |-> run.at, todo |-> run.todo]
  BY DEF WalletInv, WalletTypes
<1>3. \E at, todo : run' = [at |-> at, todo |-> todo] /\ at # "close"
  <2>1. CASE RunStarts
    <3>1. PICK late : run' = [at |-> "expire", todo |-> ListOf(late)]
      BY <2>1 DEF RunStarts
    <3>2. "expire" # "close"
      OBVIOUS
    <3> QED BY <3>1, <3>2, Zenon
  <2>2. CASE TransactionEndsRun \/ RunEnds
    BY <2>2 DEF TransactionEndsRun, RunEnds, NotRunning
  <2>3. CASE ExpireSkips \/ SyncFails
    <3>1. run' = [run EXCEPT !.todo = Tail(@)] /\ run.at # "close"
      BY <2>3 DEF ExpireSkips, SyncFails, RunGoesOn
    <3>2. run' = [at |-> run.at, todo |-> Tail(run.todo)]
      BY <1>2, <3>1
    <3> QED BY <3>1, <3>2
  <2>4. CASE ListStale
    <3>1. PICK list : run' = [at |-> "poll", todo |-> ListOf(list)]
      BY <2>4 DEF ListStale
    <3>2. "poll" # "close"
      OBVIOUS
    <3> QED BY <3>1, <3>2, Zenon
  <2> QED BY <2>1, <2>2, <2>3, <2>4
<1>4. WalletTypes' /\ run'.at # "close"
  BY <1>1, <1>3 DEF WalletInv, WalletTypes
<1> QED BY <1>1, <1>4, WalletMoves

(* Once the courier has cancelled, its delivery is over.                   *)
LEMMA ExpireCancelsStep == ASSUME WalletInv, ExpireCancels PROVE WalletInv'
<1> DEFINE l == Head(run.todo).leg
<1>1. UNCHANGED <<leg, blind>> /\ run' = [run EXCEPT !.at = "close"]
  BY DEF ExpireCancels
<1>2. run' = [at |-> "close", todo |-> run.todo]
  BY <1>1 DEF WalletInv, WalletTypes
<1>3. \/ /\ Head(run.todo).booked /\ job[l] = "requested"
         /\ job' = [job EXCEPT ![l] = "cancelled"]
      \/ /\ Head(run.todo).booked => job[l] = "cancelled"
         /\ job' = job
  BY DEF ExpireCancels, Current, Cancels
<1>4. /\ job' \in [Legs -> Statuses]
      /\ \A k \in Legs : job[k] \in Over => job'[k] \in Over
      /\ Head(run.todo).booked /\ l \in Legs => job'[l] \in Over
  <2> HIDE DEF l
  <2> QED BY <1>3 DEF WalletInv, WalletTypes, Statuses, Over
<1>5. WalletTypes'
  BY <1>1, <1>2, <1>4 DEF WalletInv, WalletTypes
<1>6. EndedAtCourier'
  BY <1>1, <1>4 DEF WalletInv, EndedAtCourier
<1>7. AboutToClose'
  BY <1>2, <1>4 DEF AboutToClose
<1> QED BY <1>5, <1>6, <1>7 DEF WalletInv

(* A leg closed as booked is over at the courier, any other is closed      *)
(* blind.                                                                  *)
LEMMA ExpireClosesStep == ASSUME WalletInv, ExpireCloses PROVE WalletInv'
<1>1. PICK l : l = Head(run.todo).leg
  OBVIOUS
<1>2. /\ run.at = "close" /\ UNCHANGED job
      /\ run' = [[run EXCEPT !.todo = Tail(@)] EXCEPT !.at = "expire"]
      /\ \/ /\ Write(l, [leg[l] EXCEPT !.status = "cancelled"])
            /\ blind' = IF Head(run.todo).booked THEN blind ELSE blind \cup {l}
         \/ UNCHANGED <<leg, blind>>
  BY <1>1 DEF ExpireCloses, Current, Closed, RunGoesOn
<1>3. run' = [at |-> "expire", todo |-> Tail(run.todo)]
  BY <1>2 DEF WalletInv, WalletTypes
<1>4. CASE UNCHANGED <<leg, blind>>
  <2>1. WalletTypes'
    BY <1>2, <1>3, <1>4 DEF WalletInv, WalletTypes
  <2> QED BY <1>2, <1>3, <1>4, <2>1, WalletMoves
<1>5. CASE /\ Write(l, [leg[l] EXCEPT !.status = "cancelled"])
           /\ blind' = IF Head(run.todo).booked THEN blind ELSE blind \cup {l}
  <2>1. /\ leg' \in [Legs -> [status : Statuses, booked : BOOLEAN]]
        /\ \A k \in Legs : k # l => leg'[k] = leg[k]
    <3>1. leg' = [leg EXCEPT ![l] = [leg[l] EXCEPT !.status = "cancelled"]]
      BY <1>5 DEF Write
    <3>2. l \in Legs => [leg[l] EXCEPT !.status = "cancelled"] \in [status : Statuses, booked : BOOLEAN]
      BY DEF WalletInv, WalletTypes, Statuses
    <3> QED BY <3>1, <3>2 DEF WalletInv, WalletTypes
  <2>2. WalletTypes'
    BY <1>2, <1>3, <2>1 DEF WalletInv, WalletTypes
  <2>3. l \in Legs => job'[l] \in Over \/ l \in blind'
    BY <1>1, <1>2, <1>5 DEF WalletInv, AboutToClose
  <2>4. \A k \in Legs : \/ leg'[k].status = leg[k].status
                        \/ leg'[k].status \notin Over
                        \/ job'[k] \in Over
                        \/ k \in blind'
    BY <2>1, <2>3
  <2>5. blind \subseteq blind' /\ run'.at # "close"
    BY <1>3, <1>5
  <2> QED BY <1>2, <2>2, <2>4, <2>5, WalletMoves
<1> QED BY <1>2, <1>4, <1>5

(* A leg takes the state its delivery has at the courier. *)
LEMMA SyncStep == ASSUME WalletInv, Sync PROVE WalletInv'
<1>1. PICK l : l = Head(run.todo).leg
  OBVIOUS
<1>2. PICK row : row = IF Active(l) THEN [leg[l] EXCEPT !.status = job[l]] ELSE leg[l]
  OBVIOUS
<1>3. /\ run.at # "close" /\ UNCHANGED <<job, blind>>
      /\ run' = [run EXCEPT !.todo = Tail(@)]
      /\ Write(l, row)
  BY <1>1, <1>2 DEF Sync, Current, RunGoesOn, RunUnchanged
<1>4. run' = [at |-> run.at, todo |-> Tail(run.todo)]
  BY <1>3 DEF WalletInv, WalletTypes
<1>5. l \in Legs => /\ row \in [status : Statuses, booked : BOOLEAN]
                    /\ row.status = leg[l].status \/ row.status = job[l]
  BY <1>2 DEF WalletInv, WalletTypes
<1>6. leg' = [leg EXCEPT ![l] = row]
  BY <1>3 DEF Write
<1>7. /\ leg' \in [Legs -> [status : Statuses, booked : BOOLEAN]]
      /\ \A k \in Legs : leg'[k] = IF k = l THEN row ELSE leg[k]
  BY <1>5, <1>6 DEF WalletInv, WalletTypes
<1>8. WalletTypes'
  BY <1>3, <1>4, <1>7 DEF WalletInv, WalletTypes
<1>9. \A k \in Legs : \/ leg'[k].status = leg[k].status
                      \/ leg'[k].status \notin Over
                      \/ job'[k] \in Over
  BY <1>3, <1>5, <1>7
<1> QED BY <1>3, <1>4, <1>8, <1>9, WalletMoves

LEMMA WalletStep == ASSUME WalletInv, [WalletNext]_walletVars PROVE WalletInv'
<1>1. CASE UNCHANGED walletVars
  BY <1>1, WalletMoves DEF walletVars, WalletInv, WalletTypes
<1>2. CASE \E l \in Legs :
       \/ Dispatch(l) \/ BeginSubmit(l) \/ QuoteAndCheckWallet(l)
       \/ CourierBooks(l) \/ CourierRepeats(l) \/ CourierRefuses(l)
       \/ SubmitFails(l) \/ RecordAccepted(l) \/ RecordRefused(l)
       \/ RiderComes(l) \/ RiderGoes(l) \/ Finishes(l)
  BY <1>2, SubmissionSteps, RowSteps, CourierSteps
<1>3. CASE \/ RunStarts \/ TransactionEndsRun \/ ExpireSkips
           \/ ListStale \/ SyncFails \/ RunEnds
  BY <1>3, RunSteps
<1>4. CASE ExpireCancels \/ ExpireCloses \/ Sync
  BY <1>4, ExpireCancelsStep, ExpireClosesStep, SyncStep
<1> QED BY <1>1, <1>2, <1>3, <1>4 DEF WalletNext

(* A delivery goes on at the courier for a leg that has ended only if      *)
(* whoever ended the leg had read no id of a booking in it                 *)
(* (NoBookingLeftBehind of module Bookings; delivery-reconciler.service.ts *)
(* and delivery-dispatch.service.ts).                                      *)
THEOREM NoBookingIsLeftBehind == WalletSpec => []NoBookingLeftBehind
<1>1. WalletInit => WalletInv
  BY FirstWallet
<1>2. WalletInv /\ [WalletNext]_walletVars => WalletInv'
  BY WalletStep
<1>3. WalletInv => NoBookingLeftBehind
  BY DEF WalletInv, EndedAtCourier, Over, NoBookingLeftBehind, Open
<1> QED BY <1>1, <1>2, <1>3, PTL DEF WalletSpec

-----------------------------------------------------------------------------
(* The sum of some deliveries' fees.                                       *)

LEMMA LegsAndFees ==
  IsFiniteSet(Legs) /\ Fee \in [Legs -> Nat \ {0}]
<1>1. IsFiniteSet(Legs) /\ Fee \in [Legs -> Nat \ {0}]
  BY BookingsAssumption
<1> QED BY <1>1

Chosen(s) == CHOOSE x \in s : TRUE
IsSum(h, S) == h = [s \in SUBSET S |-> IF s = {} THEN 0 ELSE Fee[Chosen(s)] + h[s \ {Chosen(s)}]]
Sums(S) == CHOOSE h : IsSum(h, S)
Sum(S) == Sums(S)[S]

LEMMA SurchargesAre == ASSUME NEW S PROVE Surcharges(S) = (3 * Sum(S) + 4) \div 5
BY DEF Surcharges, MapThenSumSet, MapThenFoldSet, Sum, Sums, IsSum, Chosen

LEMMA LowestOf ==
  ASSUME NEW T, T \subseteq Nat, T # {}
  PROVE  \E m \in T : \A k \in T : ~(k < m)
<1>1. \E m \in T : \A k \in T : ~(<<k, m>> \in OpToRel(<, Nat))
  BY WFMin, NatLessThanWellFounded, Zenon
<1>2. PICK m \in T : \A k \in T : ~(<<k, m>> \in OpToRel(<, Nat))
  BY <1>1
<1>3. \A k \in T : ~(k < m)
  BY <1>2, Zenon DEF OpToRel
<1> QED BY <1>3

(* Induction over the sets of deliveries.                                  *)
LEMMA SetsByInduction ==
  ASSUME IsFiniteSet(Legs), NEW B,
         \A S \in SUBSET Legs : (\A T \in SUBSET S : T # S => T \in B) => S \in B
  PROVE  SUBSET Legs \subseteq B
<1> DEFINE N == { Cardinality(S) : S \in (SUBSET Legs) \ B }
<1>1. \A S \in SUBSET Legs : IsFiniteSet(S) /\ Cardinality(S) \in Nat
  BY FS_Subset, FS_CardinalityType
<1>2. SUFFICES ASSUME N # {} PROVE FALSE
  OBVIOUS
<1>3. N \subseteq Nat
  BY <1>1
<1>4. PICK m \in N : \A n \in N : ~(n < m)
  <2> HIDE DEF N
  <2> QED BY <1>2, <1>3, LowestOf
<1>5. PICK S \in (SUBSET Legs) \ B : m = Cardinality(S)
  OBVIOUS
<1>6. PICK T \in SUBSET S : T # S /\ T \notin B
  OBVIOUS
<1>7. T \in (SUBSET Legs) \ B
  BY <1>6
<1>8. Cardinality(T) \in N
  BY <1>7
<1>9. Cardinality(T) <= Cardinality(S) /\ Cardinality(T) # Cardinality(S)
  BY <1>1, <1>6, FS_Subset
<1>10. Cardinality(T) \in Nat /\ Cardinality(S) \in Nat
  BY <1>1, <1>7
<1> HIDE DEF N
<1> QED BY <1>4, <1>5, <1>8, <1>9, <1>10

LEMMA ChosenIsIn == ASSUME NEW s, s # {} PROVE Chosen(s) \in s
BY DEF Chosen

LEMMA SumsAgree ==
  ASSUME IsFiniteSet(Legs), NEW S \in SUBSET Legs, NEW T \in SUBSET Legs, NEW g, NEW h,
         IsSum(g, S), IsSum(h, T), NEW s \in SUBSET S, s \in SUBSET T
  PROVE  g[s] = h[s]
<1> DEFINE B == { t \in SUBSET Legs : t \subseteq S /\ t \subseteq T => g[t] = h[t] }
<1>1. ASSUME NEW t \in SUBSET Legs, \A u \in SUBSET t : u # t => u \in B
      PROVE  t \in B
  <2> SUFFICES ASSUME t \subseteq S, t \subseteq T PROVE g[t] = h[t]
    OBVIOUS
  <2>1. /\ g[t] = IF t = {} THEN 0 ELSE Fee[Chosen(t)] + g[t \ {Chosen(t)}]
        /\ h[t] = IF t = {} THEN 0 ELSE Fee[Chosen(t)] + h[t \ {Chosen(t)}]
    BY DEF IsSum
  <2>2. CASE t = {}
    BY <2>1, <2>2
  <2>3. CASE t # {}
    <3>1. t \ {Chosen(t)} \in SUBSET t /\ t \ {Chosen(t)} # t
      BY <2>3, ChosenIsIn
    <3>2. g[t \ {Chosen(t)}] = h[t \ {Chosen(t)}]
      BY <1>1, <3>1
    <3> QED BY <2>1, <2>3, <3>2
  <2> QED BY <2>2, <2>3
<1>2. SUBSET Legs \subseteq B
  <2> HIDE DEF B
  <2> QED BY <1>1, SetsByInduction
<1>3. s \in B
  BY <1>2
<1> QED BY <1>3

(* The fold is defined. *)
LEMMA SumsExist ==
  ASSUME IsFiniteSet(Legs), NEW S \in SUBSET Legs
  PROVE  IsSum(Sums(S), S)
<1> DEFINE B == { T \in SUBSET Legs : IsSum(Sums(T), T) }
<1>1. ASSUME NEW T \in SUBSET Legs, \A U \in SUBSET T : U # T => U \in B
      PROVE  T \in B
  <2> DEFINE h == [s \in SUBSET T |-> IF s = {} THEN 0 ELSE Fee[Chosen(s)] + Sum(s \ {Chosen(s)})]
  <2>1. ASSUME NEW s \in SUBSET T, s # {}
        PROVE  h[s \ {Chosen(s)}] = Sum(s \ {Chosen(s)})
    <3> DEFINE t == s \ {Chosen(s)}
    <3> SUFFICES h[t] = Sum(t)
      OBVIOUS
    <3>1. t \in SUBSET T /\ t # T /\ t \in SUBSET Legs
      BY <2>1, ChosenIsIn
    <3>2. IsSum(Sums(t), t)
      BY <1>1, <3>1
    <3>3. Sum(t) = IF t = {} THEN 0 ELSE Fee[Chosen(t)] + Sums(t)[t \ {Chosen(t)}]
      <4> HIDE DEF t
      <4> QED BY <3>2 DEF IsSum, Sum
    <3>4. h[t] = IF t = {} THEN 0 ELSE Fee[Chosen(t)] + Sum(t \ {Chosen(t)})
      <4> HIDE DEF t
      <4> QED BY <3>1
    <3>5. CASE t # {}
      <4> DEFINE u == t \ {Chosen(t)}
      <4>1. u \in SUBSET t /\ u \in SUBSET T /\ u # T /\ u \in SUBSET Legs
        BY <3>1, <3>5, ChosenIsIn
      <4>2. IsSum(Sums(u), u)
        BY <1>1, <4>1
      <4>3. Sums(t)[u] = Sums(u)[u]
        <5> HIDE DEF t, u
        <5> QED BY <3>1, <3>2, <4>1, <4>2, SumsAgree
      <4> HIDE DEF h, t
      <4> QED BY <3>3, <3>4, <3>5, <4>3 DEF Sum
    <3>6. CASE t = {}
      <4> HIDE DEF h, t
      <4> QED BY <3>3, <3>4, <3>6
    <3> QED BY <3>5, <3>6
  <2>2. IsSum(h, T)
    BY <2>1 DEF IsSum
  <2>3. IsSum(Sums(T), T)
    <3> HIDE DEF h
    <3> QED BY <2>2 DEF Sums
  <2> QED BY <2>3
<1>2. SUBSET Legs \subseteq B
  <2> HIDE DEF B
  <2> QED BY <1>1, SetsByInduction
<1>3. S \in B
  BY <1>2
<1> QED BY <1>3

LEMMA SumOf ==
  ASSUME IsFiniteSet(Legs), NEW S \in SUBSET Legs
  PROVE  Sum(S) = IF S = {} THEN 0 ELSE Fee[Chosen(S)] + Sum(S \ {Chosen(S)})
<1>1. IsSum(Sums(S), S)
  BY SumsExist
<1>2. Sum(S) = IF S = {} THEN 0 ELSE Fee[Chosen(S)] + Sums(S)[S \ {Chosen(S)}]
  BY <1>1 DEF IsSum, Sum
<1>3. CASE S # {}
  <2> DEFINE u == S \ {Chosen(S)}
  <2>1. u \in SUBSET S /\ u \in SUBSET Legs
    OBVIOUS
  <2>2. IsSum(Sums(u), u)
    BY <2>1, SumsExist
  <2>3. Sums(S)[u] = Sums(u)[u]
    <3> HIDE DEF u
    <3> QED BY <1>1, <2>1, <2>2, SumsAgree
  <2> QED BY <1>2, <1>3, <2>3 DEF Sum
<1> QED BY <1>2, <1>3

LEMMA SumOfNone == Sum({}) = 0
<1>1. IsFiniteSet(Legs) /\ {} \in SUBSET Legs
  BY LegsAndFees
<1>2. Sum({}) = IF {} = {} THEN 0 ELSE Fee[Chosen({})] + Sum({} \ {Chosen({})})
  BY <1>1, SumOf
<1> QED BY <1>2

LEMMA SumIsNat ==
  ASSUME NEW S \in SUBSET Legs
  PROVE  Sum(S) \in Nat
<1> DEFINE B == { T \in SUBSET Legs : Sum(T) \in Nat }
<1>1. ASSUME NEW T \in SUBSET Legs, \A U \in SUBSET T : U # T => U \in B
      PROVE  T \in B
  <2>1. CASE T = {}
    BY <2>1, SumOfNone
  <2>2. CASE T # {}
    <3>1. Chosen(T) \in T
      BY <2>2, ChosenIsIn
    <3>2. Sum(T \ {Chosen(T)}) \in Nat /\ Fee[Chosen(T)] \in Nat
      BY <1>1, <3>1, LegsAndFees
    <3> QED BY <2>2, <3>2, LegsAndFees, SumOf
  <2> QED BY <2>1, <2>2
<1>2. SUBSET Legs \subseteq B
  <2> HIDE DEF B
  <2> QED BY <1>1, LegsAndFees, SetsByInduction
<1> QED BY <1>2

(* Whichever delivery is taken out of the sum first.                       *)
LEMMA SumSplits ==
  ASSUME NEW S \in SUBSET Legs, NEW x \in S
  PROVE  Sum(S) = Fee[x] + Sum(S \ {x})
<1> DEFINE B == { T \in SUBSET Legs : \A y \in T : Sum(T) = Fee[y] + Sum(T \ {y}) }
<1>1. ASSUME NEW T \in SUBSET Legs, \A U \in SUBSET T : U # T => U \in B
      PROVE  T \in B
  <2> SUFFICES ASSUME NEW y \in T PROVE Sum(T) = Fee[y] + Sum(T \ {y})
    OBVIOUS
  <2>1. PICK c : c = Chosen(T)
    OBVIOUS
  <2>2. c \in T /\ Sum(T) = Fee[c] + Sum(T \ {c})
    BY <2>1, ChosenIsIn, LegsAndFees, SumOf
  <2>3. CASE c = y
    BY <2>2, <2>3
  <2>4. CASE c # y
    <3>1. T \ {c} \in B /\ T \ {y} \in B /\ y \in T \ {c} /\ c \in T \ {y}
      BY <1>1, <2>2, <2>4
    <3>2. Sum(T \ {c}) = Fee[y] + Sum((T \ {c}) \ {y}) /\ Sum(T \ {y}) = Fee[c] + Sum((T \ {y}) \ {c})
      BY <3>1
    <3>3. PICK U : U = (T \ {c}) \ {y} /\ U \in SUBSET Legs
      OBVIOUS
    <3>4. (T \ {y}) \ {c} = U
      BY <3>3
    <3>5. Fee[c] \in Nat /\ Fee[y] \in Nat /\ Sum(U) \in Nat
      BY <2>2, <3>3, LegsAndFees, SumIsNat
    <3>6. Sum(T \ {c}) = Fee[y] + Sum(U) /\ Sum(T \ {y}) = Fee[c] + Sum(U)
      BY <3>2, <3>3, <3>4
    <3> HIDE DEF B
    <3> QED BY <2>2, <3>5, <3>6
  <2> QED BY <2>3, <2>4
<1>2. SUBSET Legs \subseteq B
  <2> HIDE DEF B
  <2> QED BY <1>1, LegsAndFees, SetsByInduction
<1> QED BY <1>2

(* More deliveries, no smaller a sum.                                      *)
LEMMA SumGrows ==
  ASSUME NEW T \in SUBSET Legs, NEW S \in SUBSET T
  PROVE  Sum(S) <= Sum(T)
<1> DEFINE B == { U \in SUBSET Legs : \A V \in SUBSET U : Sum(V) <= Sum(U) }
<1>1. ASSUME NEW U \in SUBSET Legs, \A W \in SUBSET U : W # U => W \in B
      PROVE  U \in B
  <2> SUFFICES ASSUME NEW V \in SUBSET U PROVE Sum(V) <= Sum(U)
    OBVIOUS
  <2>1. Sum(V) \in Nat /\ Sum(U) \in Nat
    BY SumIsNat
  <2>2. CASE V = U
    BY <2>1, <2>2
  <2>3. CASE V # U
    <3>1. PICK x \in U : x \notin V
      BY <2>3
    <3>2. U \ {x} \in B /\ V \in SUBSET (U \ {x})
      BY <1>1, <3>1
    <3>3. Sum(V) <= Sum(U \ {x})
      BY <3>2
    <3>4. Sum(U) = Fee[x] + Sum(U \ {x}) /\ Fee[x] \in Nat /\ Sum(U \ {x}) \in Nat
      BY <3>1, SumSplits, SumIsNat, LegsAndFees
    <3> HIDE DEF B
    <3> QED BY <2>1, <3>3, <3>4
  <2> QED BY <2>2, <2>3
<1>2. SUBSET Legs \subseteq B
  <2> HIDE DEF B
  <2> QED BY <1>1, LegsAndFees, SetsByInduction
<1> QED BY <1>2

-----------------------------------------------------------------------------
(* Every leg once, in the order of the last writes of their rows.          *)
Ages(f) ==
  /\ f \in [1 .. Cardinality(Legs) -> Legs] /\ IsInjective(f)
  /\ \A l \in Legs : \E i \in 1 .. Cardinality(Legs) : f[i] = l

LEMMA HowManyLegs ==
  Cardinality(Legs) \in Nat /\ Cardinality(Legs) = Cardinality(Legs)
BY LegsAndFees, FS_CardinalityType

LEMMA AgesAtFirst == Ages(SetToSeq(Legs))
<1> DEFINE n == Cardinality(Legs)
<1>1. n \in Nat /\ n = Cardinality(Legs) /\ IsFiniteSet(Legs)
  BY HowManyLegs, LegsAndFees
<1>2. ExistsBijection(1 .. n, Legs)
  <2> HIDE DEF n
  <2> QED BY <1>1, FS_CardinalityType
<1>3. \E f \in [1 .. n -> Legs] : IsInjective(f)
  <2> HIDE DEF n
  <2>1. PICK f : f \in [1 .. n -> Legs] /\ f \in Injection(1 .. n, Legs)
    BY <1>2 DEF ExistsBijection, Bijection, Injection
  <2>2. \A a, b \in DOMAIN f : f[a] = f[b] => a = b
    BY <2>1 DEF Injection, IsInjective
  <2> QED BY <2>1, <2>2 DEF IsInjective
<1>4. PICK f : f = SetToSeq(Legs) /\ f \in [1 .. n -> Legs] /\ IsInjective(f)
  BY <1>3 DEF SetToSeq
<1>5. f \in Surjection(1 .. n, Legs)
  <2> HIDE DEF n
  <2>1. f \in Injection(1 .. n, Legs)
    BY <1>4 DEF Injection, IsInjective, IsInjective
  <2>2. Cardinality(1 .. n) = n
    BY <1>1, FS_Interval
  <2> QED BY <1>1, <2>1, <2>2, FS_Injection
<1>6. \A l \in Legs : \E i \in 1 .. n : f[i] = l
  BY <1>5 DEF Surjection
<1> QED BY <1>4, <1>6 DEF Ages

(* A row that is written becomes the youngest. *)
LEMMA AgesTouched ==
  ASSUME Ages(byAge), NEW l \in Legs
  PROVE  Ages(Touched(l))
<1>1. PICK n \in Nat : n = Cardinality(Legs)
  BY HowManyLegs
<1>2. /\ byAge \in [1 .. n -> Legs] /\ byAge \in Seq(Legs) /\ Len(byAge) = n
      /\ \A a, b \in 1 .. n : byAge[a] = byAge[b] => a = b
      /\ \A k \in Legs : \E i \in 1 .. n : byAge[i] = k
  BY <1>1 DEF Ages, IsInjective
<1>3. PICK p \in 1 .. n : p = Place(l) /\ byAge[p] = l
  BY <1>2 DEF Place
<1>4. PICK a : a = SubSeq(byAge, 1, p - 1)
  OBVIOUS
<1>5. PICK b : b = SubSeq(byAge, p + 1, n)
  OBVIOUS
<1>6. a \in Seq(Legs) /\ Len(a) = p - 1 /\ \A i \in 1 .. p - 1 : a[i] = byAge[i]
  <2>1. p - 1 \in Int /\ \A i \in 1 .. p - 1 : byAge[i] \in Legs
    BY <1>2
  <2> QED BY <1>4, <2>1, SubSeqProperties
<1>7. b \in Seq(Legs) /\ Len(b) = n - p /\ \A i \in 1 .. n - p : b[i] = byAge[p + i]
  <2>1. p + 1 \in Int /\ \A i \in p + 1 .. n : byAge[i] \in Legs
    BY <1>2
  <2>2. /\ b \in Seq(Legs)
        /\ Len(b) = IF p + 1 <= n THEN n - (p + 1) + 1 ELSE 0
        /\ \A i \in 1 .. n - (p + 1) + 1 : b[i] = byAge[p + 1 + i - 1]
    BY <1>5, <2>1, SubSeqProperties
  <2> QED BY <2>2
<1>8. PICK r : r = a \o b
  OBVIOUS
<1>9. /\ r \in Seq(Legs) /\ Len(r) = n - 1
      /\ \A i \in 1 .. n - 1 : r[i] = IF i < p THEN byAge[i] ELSE byAge[i + 1]
  <2>1. /\ r \in Seq(Legs) /\ Len(r) = n - 1
        /\ \A i \in 1 .. n - 1 : r[i] = IF i <= p - 1 THEN a[i] ELSE b[i - (p - 1)]
    <3>1. /\ r \in Seq(Legs) /\ Len(r) = Len(a) + Len(b)
          /\ \A i \in 1 .. Len(a) + Len(b) : r[i] = IF i <= Len(a) THEN a[i] ELSE b[i - Len(a)]
      <4>1. a \in Seq(Legs) /\ b \in Seq(Legs)
        BY <1>6, <1>7
      <4> QED BY <1>8, <4>1, ConcatProperties, Zenon
    <3>2. Len(a) = p - 1 /\ Len(b) = n - p
      BY <1>6, <1>7
    <3>3. Len(a) + Len(b) = n - 1
      BY <3>2
    <3> QED BY <3>1, <3>2, <3>3, Zenon
  <2>2. ASSUME NEW i \in 1 .. n - 1, i < p
        PROVE  r[i] = byAge[i]
    BY <1>6, <2>1, <2>2
  <2>3. ASSUME NEW i \in 1 .. n - 1, ~(i < p)
        PROVE  r[i] = byAge[i + 1]
    <3>1. i - (p - 1) \in 1 .. n - p /\ p + (i - (p - 1)) = i + 1
      BY <2>3
    <3>2. r[i] = b[i - (p - 1)]
      BY <2>1, <2>3
    <3>3. b[i - (p - 1)] = byAge[p + (i - (p - 1))]
      BY <1>7, <3>1
    <3> QED BY <3>1, <3>2, <3>3
  <2> QED BY <2>1, <2>2, <2>3
<1>10. PICK t : t = Append(r, l) /\ t = Touched(l)
  BY <1>2, <1>3, <1>4, <1>5, <1>8 DEF Touched, RemoveAt
<1>11. /\ t \in Seq(Legs) /\ Len(t) = n /\ t[n] = l
       /\ \A i \in 1 .. n - 1 : t[i] = IF i < p THEN byAge[i] ELSE byAge[i + 1]
  <2>1. /\ t \in Seq(Legs) /\ Len(t) = Len(r) + 1 /\ t[Len(r) + 1] = l
        /\ \A i \in 1 .. Len(r) : t[i] = r[i]
    <3>1. r \in Seq(Legs) /\ l \in Legs
      BY <1>9
    <3>2. /\ Append(r, l) \in Seq(Legs) /\ Len(Append(r, l)) = Len(r) + 1
          /\ Append(r, l)[Len(r) + 1] = l
          /\ \A i \in 1 .. Len(r) : Append(r, l)[i] = r[i]
      BY <3>1
    <3>3. t = Append(r, l)
      BY <1>10
    <3> QED BY <3>2, <3>3, Zenon
  <2>2. Len(r) = n - 1 /\ Len(r) + 1 = n
    BY <1>9
  <2> QED BY <1>9, <2>1, <2>2
<1>12. t \in [1 .. n -> Legs]
  BY <1>11
<1>13. \A i, j \in 1 .. n : t[i] = t[j] => i = j
  <2> SUFFICES ASSUME NEW i \in 1 .. n, NEW j \in 1 .. n, t[i] = t[j] PROVE i = j
    OBVIOUS
  <2> DEFINE at(x) == IF x = n THEN p ELSE IF x < p THEN x ELSE x + 1
  <2>1. \A x \in 1 .. n : at(x) \in 1 .. n /\ t[x] = byAge[at(x)]
    BY <1>3, <1>11
  <2>2. at(i) = at(j)
    <3> HIDE DEF at
    <3> QED BY <1>2, <2>1
  <2> QED BY <2>2
<1>14. \A k \in Legs : \E i \in 1 .. n : t[i] = k
  <2> TAKE k \in Legs
  <2>1. PICK i \in 1 .. n : byAge[i] = k
    BY <1>2
  <2>2. CASE i = p
    BY <1>3, <1>11, <2>1, <2>2
  <2>3. CASE i < p
    <3>1. i \in 1 .. n - 1 /\ t[i] = k
      BY <1>11, <2>1, <2>3
    <3> QED BY <3>1
  <2>4. CASE i > p
    <3>1. i - 1 \in 1 .. n - 1 /\ t[i - 1] = byAge[(i - 1) + 1]
      BY <1>11, <2>4
    <3> QED BY <2>1, <3>1
  <2> QED BY <2>2, <2>3, <2>4
<1> QED BY <1>1, <1>10, <1>12, <1>13, <1>14 DEF Ages, IsInjective

-----------------------------------------------------------------------------
(* The money.                                                              *)

BookingRows == [status : Statuses, booked : BOOLEAN]
SubmissionRows ==
  [at : {"idle", "due", "asking", "covered", "booked", "refused"}, others : SUBSET Legs]
Entries == [leg : Legs, booked : BOOLEAN]
BookingTypes ==
  /\ leg \in [Legs -> BookingRows] /\ Ages(byAge)
  /\ submit \in [Legs -> SubmissionRows]
  /\ job \in [Legs -> Statuses]
  /\ available \in Int
  /\ run \in [at : {"idle", "expire", "close", "poll"}, todo : Seq(Entries)]
  /\ Len(run.todo) <= BatchSize /\ (run.at = "close" => run.todo # <<>>)
  /\ said \in BOOLEAN /\ victims \in 0 .. MaxVictims
  /\ unseen \subseteq Legs /\ blind \subseteq Legs

(* What is recorded as booked is known to the courier, and so are the      *)
(* quotes a submission counted.                                            *)
Known(l) == job[l] # "none"
BookingsKnown == \A l \in Legs : leg[l].booked \/ submit[l].at = "booked" => Known(l)
OthersKnown == \A l \in Legs : \A k \in submit[l].others : k # l /\ Known(k)

(* From its check to its booking, a submission finds the wallet short of   *)
(* what it saw by no more than the fees held for bookings it did not see.  *)
NotCounted(l) == { k \in Legs \ (submit[l].others \cup {l}) : Open(k) }
CoveredBut(l) == available + Sum(NotCounted(l)) >= Needed(l, submit[l].others)
StillCovered == \A l \in Legs : submit[l].at = "covered" => CoveredBut(l)

OpenOnes == { l \in Legs : Open(l) }
Headroom == unseen = {} => available >= Surcharges(OpenOnes)

Money == BookingsKnown /\ OthersKnown /\ StillCovered /\ Headroom
MoneyInv == BookingTypes /\ Money

LEMMA FifthsGrow ==
  ASSUME NEW a \in Nat, NEW b \in Nat, a <= b
  PROVE  (3 * a + 4) \div 5 \in Nat /\ (3 * a + 4) \div 5 <= (3 * b + 4) \div 5
OBVIOUS

LEMMA FifthsShrink ==
  ASSUME NEW a \in Nat, NEW f \in Nat
  PROVE  /\ (3 * a + 4) \div 5 <= (3 * (f + a) + 4) \div 5 - 3 * (f \div 5)
         /\ f \div 5 \in Nat
OBVIOUS

LEMMA SurchargesGrow ==
  ASSUME NEW T \in SUBSET Legs, NEW S \in SUBSET T
  PROVE  Surcharges(S) \in Nat /\ Surcharges(S) <= Surcharges(T)
<1>1. Sum(S) \in Nat /\ Sum(T) \in Nat /\ Sum(S) <= Sum(T)
  BY SumIsNat, SumGrows
<1> QED BY <1>1, FifthsGrow, SurchargesAre

LEMMA SurchargesShrink ==
  ASSUME NEW S \in SUBSET Legs, NEW l \in S,
         NEW m \in Int, m >= Surcharges(S)
  PROVE  /\ m >= Surcharges(S \ {l})
         /\ m - 3 * (Fee[l] \div 5) >= Surcharges(S \ {l})
<1>1. /\ Sum(S \ {l}) \in Nat /\ Fee[l] \in Nat /\ Sum(S) = Fee[l] + Sum(S \ {l})
  BY SumIsNat, SumSplits, LegsAndFees
<1>2. /\ (3 * Sum(S \ {l}) + 4) \div 5 <= (3 * Sum(S) + 4) \div 5 - 3 * (Fee[l] \div 5)
      /\ Fee[l] \div 5 \in Nat
  BY <1>1, FifthsShrink
<1>3. /\ Surcharges(S) = (3 * Sum(S) + 4) \div 5
      /\ Surcharges(S \ {l}) = (3 * Sum(S \ {l}) + 4) \div 5
  BY SurchargesAre
<1>4. Surcharges(S) \in Nat /\ Surcharges(S \ {l}) \in Nat
  BY SurchargesGrow
<1>5. PICK k : k = Fee[l] \div 5 /\ k \in Nat
  BY <1>2
<1>6. Surcharges(S \ {l}) <= Surcharges(S) - 3 * k
  BY <1>2, <1>3, <1>5
<1>7. m >= Surcharges(S \ {l}) /\ m - 3 * k >= Surcharges(S \ {l})
  BY <1>4, <1>5, <1>6
<1> QED BY <1>5, <1>7

LEMMA NeededIs ==
  ASSUME NEW l \in Legs, NEW others \in SUBSET Legs
  PROVE  /\ Needed(l, others) = Fee[l] + Surcharges(others \cup {l})
         /\ Needed(l, others) \in Nat
<1>1. Surcharges(others \cup {l}) \in Nat /\ Fee[l] \in Nat
  BY SurchargesGrow, LegsAndFees
<1> QED BY <1>1 DEF Needed

(* Nothing is under way at first. *)
LEMMA MoneyAtFirst == ASSUME WalletInit PROVE MoneyInv
<1>1. BookingTypes
  <2>1. available \in Int
    BY BookingsAssumption DEF WalletInit
  <2>2. Ages(byAge)
    BY AgesAtFirst DEF WalletInit
  <2>3. run = [at |-> "idle", todo |-> <<>>] /\ BatchSize \in Nat /\ MaxVictims \in Nat
    BY BookingsAssumption DEF WalletInit, NotRunning
  <2>4. run \in [at : {"idle", "expire", "close", "poll"}, todo : Seq(Entries)] /\ Len(run.todo) <= BatchSize
    BY <2>3
  <2>5. /\ leg \in [Legs -> BookingRows] /\ submit \in [Legs -> SubmissionRows]
        /\ job \in [Legs -> Statuses]
    BY DEF WalletInit, NotSubmitting, BookingRows, SubmissionRows, Statuses
  <2>6. said = FALSE /\ victims = 0 /\ unseen = {} /\ blind = {}
    BY DEF WalletInit
  <2>7. Len(run.todo) <= BatchSize /\ (run.at = "close" => run.todo # <<>>)
    BY <2>3
  <2>8. said \in BOOLEAN /\ unseen \subseteq Legs /\ blind \subseteq Legs
    BY <2>6, Zenon
  <2>9. victims \in 0 .. MaxVictims
    BY <2>3, <2>6
  <2> QED BY <2>1, <2>2, <2>4, <2>5, <2>7, <2>8, <2>9 DEF BookingTypes
<1>2. BookingsKnown /\ OthersKnown /\ StillCovered
  BY DEF WalletInit, NotSubmitting, BookingsKnown, OthersKnown, StillCovered
<1>3. Headroom
  <2>1. OpenOnes = {}
    BY DEF WalletInit, OpenOnes, Open
  <2>2. Surcharges({}) = 0
    BY SurchargesAre, SumOfNone
  <2>3. available \in Nat
    BY BookingsAssumption DEF WalletInit
  <2> QED BY <2>1, <2>2, <2>3 DEF Headroom
<1> QED BY <1>1, <1>2, <1>3 DEF MoneyInv, Money

(* As long as nothing changes at the courier, a submission must be covered *)
(* by what is in the wallet now.                                           *)
SubmissionIsFine(l, s) ==
  /\ \A k \in s.others : k # l /\ Known(k)
  /\ s.at = "booked" => Known(l)
  /\ s.at = "covered" => available >= Needed(l, s.others)

LEMMA MoneyStands ==
  ASSUME MoneyInv, BookingTypes', UNCHANGED <<job, available, unseen>>,
         \A l \in Legs : leg'[l].booked => leg[l].booked \/ Known(l),
         \A l \in Legs : submit'[l] = submit[l] \/ SubmissionIsFine(l, submit'[l])
  PROVE  MoneyInv'
<1>1. \A l \in Legs : Known(l)' <=> Known(l)
  BY DEF Known
<1>2. BookingsKnown'
  BY <1>1 DEF MoneyInv, Money, BookingsKnown, SubmissionIsFine
<1>3. OthersKnown'
  <2> SUFFICES ASSUME NEW l \in Legs, NEW k \in submit'[l].others PROVE k # l /\ Known(k)
    BY DEF OthersKnown, Known
  <2> QED BY DEF MoneyInv, Money, OthersKnown, SubmissionIsFine
<1>4. StillCovered'
  <2> SUFFICES ASSUME NEW l \in Legs, submit'[l].at = "covered" PROVE CoveredBut(l)'
    BY DEF StillCovered
  <2>1. CASE submit'[l] = submit[l]
    <3>1. CoveredBut(l)
      BY <2>1 DEF MoneyInv, Money, StillCovered
    <3> QED BY <2>1, <3>1 DEF CoveredBut, NotCounted, Open
  <2>2. CASE SubmissionIsFine(l, submit'[l])
    <3>1. PICK S \in SUBSET Legs : S = NotCounted(l)'
      BY DEF NotCounted
    <3>2. submit'[l].others \in SUBSET Legs /\ available \in Int /\ available' = available
      BY DEF MoneyInv, BookingTypes, SubmissionRows
    <3>3. Sum(S) \in Nat /\ Needed(l, submit'[l].others) \in Nat
      BY <3>2, SumIsNat, NeededIs
    <3>4. available >= Needed(l, submit'[l].others)
      BY <2>2 DEF SubmissionIsFine
    <3>5. available' + Sum(S) >= Needed(l, submit'[l].others)
      BY <3>2, <3>3, <3>4
    <3> QED BY <3>1, <3>5 DEF CoveredBut
  <2> QED BY <2>1, <2>2
<1>5. Headroom'
  BY DEF MoneyInv, Money, Headroom, OpenOnes, Open
<1> QED BY <1>2, <1>3, <1>4, <1>5 DEF MoneyInv, Money

LEMMA StepIs ==
  ASSUME BookingTypes, NEW l \in Legs, Step(l, "due") \/ Step(l, "covered")
  PROVE  \E s \in SubmissionRows :
           /\ submit' = [submit EXCEPT ![l] = s]
           /\ s.at \in {"due", "covered"} /\ s.others = submit[l].others
           /\ Step(l, "due") => s.at = "due"
<1>1. PICK at \in {"due", "covered"} : Step(l, at) /\ (Step(l, "due") => at = "due")
  OBVIOUS
<1> DEFINE s == [submit[l] EXCEPT !.at = at]
<1>2. s \in SubmissionRows /\ s.at = at /\ s.others = submit[l].others
  BY DEF BookingTypes, SubmissionRows
<1>3. submit' = [submit EXCEPT ![l] = s]
  BY <1>1 DEF Step
<1> HIDE DEF s
<1> QED BY <1>1, <1>2, <1>3

LEMMA OutcomeIs ==
  ASSUME NEW l \in Legs, NEW at \in {"idle", "due", "booked", "refused"}, Outcome(l, at)
  PROVE  \E s \in SubmissionRows :
           submit' = [submit EXCEPT ![l] = s] /\ s.at = at /\ s.others = {}
<1> DEFINE s == [NotSubmitting EXCEPT !.at = at]
<1>1. s \in SubmissionRows /\ s.at = at /\ s.others = {}
  BY DEF SubmissionRows, NotSubmitting
<1>2. submit' = [submit EXCEPT ![l] = s]
  BY DEF Outcome
<1> HIDE DEF s
<1> QED BY <1>1, <1>2

LEMMA SubmissionMoves ==
  ASSUME MoneyInv, NEW l \in Legs, NEW s \in SubmissionRows,
         submit' = [submit EXCEPT ![l] = s], SubmissionIsFine(l, s),
         UNCHANGED <<leg, job, available, unseen, byAge, run, said, victims, blind>>
  PROVE  MoneyInv'
<1>1. \A k \in Legs : submit'[k] = IF k = l THEN s ELSE submit[k]
  BY DEF MoneyInv, BookingTypes
<1>2. BookingTypes'
  <2>1. submit' \in [Legs -> SubmissionRows]
    BY DEF MoneyInv, BookingTypes
  <2> QED BY <2>1 DEF MoneyInv, BookingTypes
<1>3. \A k \in Legs : submit'[k] = submit[k] \/ SubmissionIsFine(k, submit'[k])
  BY <1>1
<1> QED BY <1>2, <1>3, MoneyStands

LEMMA SubmissionsKeepMoney ==
  ASSUME MoneyInv, NEW l \in Legs,
         \/ BeginSubmit(l) \/ QuoteAndCheckWallet(l)
         \/ CourierRepeats(l) \/ CourierRefuses(l) \/ SubmitFails(l)
  PROVE  MoneyInv'
<1>1. UNCHANGED <<leg, job, available, unseen, byAge, run, said, victims, blind>>
  BY DEF BeginSubmit, QuoteAndCheckWallet, CourierRepeats,
         CourierRefuses, SubmitFails, wallet
<1>2. BookingTypes
  BY DEF MoneyInv
<1>3. \E s \in SubmissionRows : submit' = [submit EXCEPT ![l] = s] /\ SubmissionIsFine(l, s)
  <2>1. CASE BeginSubmit(l)
    <3>1. CASE leg[l].status = "requested" /\ ~leg[l].booked
      <4> DEFINE s == [submit[l] EXCEPT !.at = "asking", !.others = OthersQuoted(l)]
      <4>1. submit' = [submit EXCEPT ![l] = s]
        BY <2>1, <3>1 DEF BeginSubmit
      <4>2. s \in SubmissionRows /\ s.at = "asking" /\ s.others = OthersQuoted(l)
        <5>1. OthersQuoted(l) \in SUBSET Legs
          BY DEF OthersQuoted
        <5>2. submit[l] \in SubmissionRows
          BY <1>2 DEF BookingTypes
        <5> QED BY <5>1, <5>2 DEF SubmissionRows
      <4>3. \A k \in OthersQuoted(l) : k # l /\ Known(k)
        BY DEF MoneyInv, Money, BookingsKnown, OthersQuoted
      <4> HIDE DEF s
      <4> QED BY <4>1, <4>2, <4>3 DEF SubmissionIsFine
    <3>2. CASE ~(leg[l].status = "requested" /\ ~leg[l].booked)
      <4>1. Outcome(l, "idle")
        BY <2>1, <3>2 DEF BeginSubmit, Outcome, NotSubmitting
      <4> QED BY <4>1, OutcomeIs DEF SubmissionIsFine
    <3> QED BY <3>1, <3>2
  <2>2. CASE QuoteAndCheckWallet(l)
    <3>1. CASE Outcome(l, "refused")
      BY <3>1, OutcomeIs DEF SubmissionIsFine
    <3>2. CASE available >= Needed(l, submit[l].others) /\ Step(l, "covered")
      <4>1. PICK s \in SubmissionRows :
              /\ submit' = [submit EXCEPT ![l] = s]
              /\ s.at \in {"due", "covered"} /\ s.others = submit[l].others
        BY <1>2, <3>2, StepIs
      <4>2. \A k \in s.others : k # l /\ Known(k)
        BY <4>1 DEF MoneyInv, Money, OthersKnown
      <4> QED BY <3>2, <4>1, <4>2 DEF SubmissionIsFine
    <3> QED BY <2>2, <3>1, <3>2 DEF QuoteAndCheckWallet
  <2>3. CASE CourierRepeats(l)
    <3>1. Outcome(l, "booked") /\ Known(l)
      BY <2>3 DEF CourierRepeats, Open, Known
    <3> QED BY <3>1, OutcomeIs DEF SubmissionIsFine
  <2>4. CASE CourierRefuses(l) \/ SubmitFails(l)
    <3>1. PICK at \in {"idle", "due", "refused"} : Outcome(l, at)
      BY <2>4 DEF CourierRefuses, SubmitFails
    <3> QED BY <3>1, OutcomeIs DEF SubmissionIsFine
  <2> QED BY <2>1, <2>2, <2>3, <2>4
<1> QED BY <1>1, <1>3, SubmissionMoves

LEMMA RowIsWritten ==
  ASSUME BookingTypes, NEW l \in Legs, NEW row \in BookingRows,
         Write(l, row)
  PROVE  /\ leg' \in [Legs -> BookingRows] /\ Ages(byAge')
         /\ \A k \in Legs : leg'[k] = IF k = l THEN row ELSE leg[k]
<1>1. leg \in [Legs -> BookingRows] /\ Ages(byAge)
  BY DEF BookingTypes
<1>2. leg' = [leg EXCEPT ![l] = row] /\ byAge' = Touched(l)
  BY DEF Write
<1>3. Ages(byAge')
  BY <1>1, <1>2, AgesTouched
<1> QED BY <1>1, <1>2, <1>3

LEMMA RowsKeepMoney ==
  ASSUME MoneyInv, NEW l \in Legs,
         Dispatch(l) \/ RecordAccepted(l) \/ RecordRefused(l)
  PROVE  MoneyInv'
<1>1. UNCHANGED <<job, available, unseen, run, said, victims>> /\ blind' \subseteq blind \cup {l}
  BY DEF Dispatch, RecordAccepted, RecordRefused, wallet
<1>2. BookingTypes /\ leg[l] \in BookingRows
  BY DEF MoneyInv, BookingTypes
<1>3. \E row \in BookingRows : Write(l, row) /\ (row.booked => leg[l].booked \/ Known(l))
  <2>1. CASE Dispatch(l)
    <3> DEFINE row == [leg[l] EXCEPT !.status = "requested"]
    <3>1. row \in BookingRows /\ row.booked = leg[l].booked
      BY <1>2 DEF BookingRows, Statuses
    <3>2. Write(l, row)
      BY <2>1 DEF Dispatch
    <3> QED BY <3>1, <3>2
  <2>2. CASE RecordAccepted(l)
    <3> DEFINE row == [leg[l] EXCEPT !.booked = TRUE]
    <3>1. row \in BookingRows
      BY <1>2 DEF BookingRows
    <3>2. Write(l, row) /\ Known(l)
      BY <2>2 DEF RecordAccepted, AtStep, MoneyInv, Money, BookingsKnown
    <3> QED BY <3>1, <3>2
  <2>3. CASE RecordRefused(l)
    <3> DEFINE row == [leg[l] EXCEPT !.status = "cancelled"]
    <3>1. row \in BookingRows /\ row.booked = leg[l].booked
      BY <1>2 DEF BookingRows, Statuses
    <3>2. Write(l, row)
      BY <2>3 DEF RecordRefused, Closed
    <3> QED BY <3>1, <3>2
  <2> QED BY <2>1, <2>2, <2>3
<1>4. PICK row \in BookingRows : Write(l, row) /\ (row.booked => leg[l].booked \/ Known(l))
  BY <1>3
<1>5. /\ leg' \in [Legs -> BookingRows] /\ Ages(byAge')
      /\ \A k \in Legs : leg'[k] = IF k = l THEN row ELSE leg[k]
  BY <1>2, <1>4, RowIsWritten
<1>6. \E s \in SubmissionRows : submit' = [submit EXCEPT ![l] = s] /\ SubmissionIsFine(l, s)
  <2>1. CASE Dispatch(l)
    <3>1. PICK s \in SubmissionRows :
            /\ submit' = [submit EXCEPT ![l] = s]
            /\ s.at = "due" /\ s.others = submit[l].others
      BY <1>2, <2>1, StepIs DEF Dispatch
    <3>2. \A k \in s.others : k # l /\ Known(k)
      BY <3>1 DEF MoneyInv, Money, OthersKnown
    <3> QED BY <3>1, <3>2 DEF SubmissionIsFine
  <2>2. CASE RecordAccepted(l) \/ RecordRefused(l)
    <3>1. Outcome(l, "idle")
      BY <2>2 DEF RecordAccepted, RecordRefused
    <3> QED BY <3>1, OutcomeIs DEF SubmissionIsFine
  <2> QED BY <2>1, <2>2
<1>7. PICK s \in SubmissionRows : submit' = [submit EXCEPT ![l] = s] /\ SubmissionIsFine(l, s)
  BY <1>6
<1>8. /\ submit' \in [Legs -> SubmissionRows]
      /\ \A k \in Legs : submit'[k] = IF k = l THEN s ELSE submit[k]
  BY <1>2, <1>7 DEF BookingTypes
<1>9. BookingTypes'
  BY <1>1, <1>2, <1>5, <1>8 DEF BookingTypes
<1>10. \A k \in Legs : leg'[k].booked => leg[k].booked \/ Known(k)
  BY <1>4, <1>5
<1>11. \A k \in Legs : submit'[k] = submit[k] \/ SubmissionIsFine(k, submit'[k])
  BY <1>7, <1>8
<1> QED BY <1>1, <1>9, <1>10, <1>11, MoneyStands

(* The courier books, cancels or goes on with a delivery that a covered    *)
(* submission has not counted, or cancels or goes on with one it has.      *)
LEMMA CoverHolds ==
  ASSUME BookingTypes, BookingTypes', NEW l \in Legs, NEW x \in Legs,
         NEW d \in Statuses, job' = [job EXCEPT ![x] = d],
         CoveredBut(l), submit'[l] = submit[l],
         \/ /\ ~Open(x) /\ d = "requested" /\ x \notin submit[l].others \cup {l}
            /\ available' = available - Fee[x]
         \/ Open(x) /\ d = "cancelled" /\ available' = available + Fee[x]
         \/ Open(x) /\ d \in {"requested", "assigned"} /\ available' = available
  PROVE  CoveredBut(l)'
<1>1. PICK S \in SUBSET Legs : S = NotCounted(l)
  BY DEF NotCounted
<1>2. PICK T \in SUBSET Legs : T = NotCounted(l)'
  BY DEF NotCounted
<1>3. PICK o \in SUBSET Legs : o = submit[l].others
  BY DEF BookingTypes, SubmissionRows
<1>4. /\ S = { k \in Legs \ (o \cup {l}) : job[k] \in {"requested", "assigned"} }
      /\ T = { k \in Legs \ (o \cup {l}) : job'[k] \in {"requested", "assigned"} }
  BY <1>1, <1>2, <1>3 DEF NotCounted, Open
<1>5. \A k \in Legs : job'[k] = IF k = x THEN d ELSE job[k]
  BY DEF BookingTypes
<1>6. Sum(S) \in Nat /\ Sum(T) \in Nat /\ Fee[x] \in Nat /\ available \in Int
  BY SumIsNat, LegsAndFees DEF BookingTypes
<1>7. available + Sum(S) >= Needed(l, o) /\ Needed(l, o) \in Nat
  BY <1>1, <1>3, NeededIs DEF CoveredBut
<1>8. available' + Sum(T) >= Needed(l, o)
  <2>1. CASE ~Open(x) /\ d = "requested" /\ x \notin o \cup {l} /\ available' = available - Fee[x]
    <3>1. x \in T /\ T \ {x} = S
      BY <1>4, <1>5, <2>1 DEF Open
    <3>2. Sum(T) = Fee[x] + Sum(S)
      BY <3>1, SumSplits
    <3> QED BY <1>6, <1>7, <2>1, <3>2
  <2>2. CASE Open(x) /\ d = "cancelled" /\ available' = available + Fee[x]
    <3>1. CASE x \in o \cup {l}
      <4>1. T = S
        BY <1>4, <1>5, <3>1
      <4> QED BY <1>6, <1>7, <2>2, <4>1
    <3>2. CASE x \notin o \cup {l}
      <4>1. x \in S /\ S \ {x} = T
        BY <1>4, <1>5, <2>2, <3>2 DEF Open
      <4>2. Sum(S) = Fee[x] + Sum(T)
        BY <4>1, SumSplits
      <4> QED BY <1>6, <1>7, <2>2, <4>2
    <3> QED BY <3>1, <3>2
  <2>3. CASE Open(x) /\ d \in {"requested", "assigned"} /\ available' = available
    <3>1. T = S
      BY <1>4, <1>5, <2>3 DEF Open
    <3> QED BY <1>7, <2>3, <3>1
  <2> QED BY <1>3, <2>1, <2>2, <2>3
<1> QED BY <1>2, <1>3, <1>8 DEF CoveredBut

LEMMA KnownGrows ==
  ASSUME MoneyInv, NEW x \in Legs, NEW d \in Statuses, d # "none",
         job' = [job EXCEPT ![x] = d], UNCHANGED leg,
         \A l \in Legs : \/ submit'[l] = submit[l]
                         \/ l = x /\ submit'[l].others = {}
  PROVE  BookingsKnown' /\ OthersKnown'
<1>1. \A k \in Legs : Known(k) \/ k = x => Known(k)'
  BY DEF MoneyInv, BookingTypes, Known
<1>2. BookingsKnown'
  BY <1>1 DEF MoneyInv, Money, BookingsKnown
<1>3. OthersKnown'
  <2> SUFFICES ASSUME NEW l \in Legs, NEW k \in submit'[l].others PROVE k # l /\ Known(k)'
    BY DEF OthersKnown
  <2>1. submit'[l] = submit[l]
    OBVIOUS
  <2>2. k \in Legs /\ k # l /\ Known(k)
    BY <2>1 DEF MoneyInv, BookingTypes, SubmissionRows, Money, OthersKnown
  <2> QED BY <1>1, <2>2
<1> QED BY <1>2, <1>3

(* A delivery moves at the courier and no submission does.                 *)
LEMMA DeliveryMoves ==
  ASSUME MoneyInv, BookingTypes', NEW x \in Legs, NEW d \in Statuses,
         job' = [job EXCEPT ![x] = d], UNCHANGED <<leg, submit, unseen>>,
         \/ Open(x) /\ d = "cancelled" /\ available' = available + Fee[x]
         \/ Open(x) /\ d \in {"requested", "assigned"} /\ available' = available
         \/ /\ Open(x) /\ d = "delivered" /\ CallsEndFirst
            /\ \E times \in {0, 3} : available' = available - times * (Fee[x] \div 5)
  PROVE  MoneyInv'
<1>1. BookingsKnown' /\ OthersKnown'
  BY KnownGrows
<1>2. StillCovered'
  <2> SUFFICES ASSUME NEW l \in Legs, submit'[l].at = "covered" PROVE CoveredBut(l)'
    BY DEF StillCovered
  <2>1. CoveredBut(l) /\ ~CallsEndFirst /\ submit'[l] = submit[l]
    BY DEF MoneyInv, Money, StillCovered, CallsEndFirst, AtStep, Handling
  <2> QED BY <2>1, CoverHolds DEF MoneyInv
<1>3. Headroom'
  <2> SUFFICES ASSUME unseen = {} PROVE available' >= Surcharges(OpenOnes')
    BY DEF Headroom
  <2>1. PICK S \in SUBSET Legs : S = OpenOnes
    BY DEF OpenOnes
  <2>2. \A k \in Legs : job'[k] = IF k = x THEN d ELSE job[k]
    BY DEF MoneyInv, BookingTypes
  <2>3. x \in S /\ available \in Int /\ available >= Surcharges(S)
    BY <2>1 DEF MoneyInv, BookingTypes, Money, Headroom, OpenOnes
  <2>4. PICK m \in Int : m = available
    BY <2>3
  <2>5. /\ m >= Surcharges(S \ {x}) /\ m - 3 * (Fee[x] \div 5) >= Surcharges(S \ {x})
        /\ Surcharges(S \ {x}) \in Nat
    BY <2>3, <2>4, SurchargesShrink, SurchargesGrow
  <2>6. Fee[x] \in Nat
    BY LegsAndFees
  <2>7. CASE d \in {"requested", "assigned"} /\ available' = available
    <3>1. OpenOnes' = S
      BY <2>1, <2>2, <2>3, <2>7 DEF OpenOnes, Open
    <3> QED BY <2>3, <2>7, <3>1
  <2>8. CASE d \in {"cancelled", "delivered"}
    <3>1. OpenOnes' = S \ {x}
      BY <2>1, <2>2, <2>8 DEF OpenOnes, Open
    <3>2. available' = m + Fee[x] \/ available' = m \/ available' = m - 3 * (Fee[x] \div 5)
      BY <2>4, <2>6, <2>8
    <3>3. available' >= Surcharges(S \ {x})
      <4>1. CASE available' = m + Fee[x]
        BY <2>5, <2>6, <4>1
      <4>2. CASE available' = m \/ available' = m - 3 * (Fee[x] \div 5)
        BY <2>5, <4>2
      <4> QED BY <3>2, <4>1, <4>2
    <3> QED BY <3>1, <3>3
  <2> QED BY <2>7, <2>8
<1> QED BY <1>1, <1>2, <1>3 DEF MoneyInv, Money

LEMMA CourierBooksStep ==
  ASSUME MoneyInv, NEW l \in Legs, CourierBooks(l)
  PROVE  MoneyInv'
<1>1. /\ submit[l].at = "covered" /\ job[l] = "none"
      /\ job' = [job EXCEPT ![l] = "requested"] /\ available' = available - Fee[l]
      /\ unseen' = unseen \cup { k \in Legs \ submit[l].others : k # l /\ Open(k) }
      /\ Outcome(l, "booked")
      /\ UNCHANGED <<leg, byAge, run, said, victims, blind>>
  BY DEF CourierBooks, AtStep
<1>2. PICK s \in SubmissionRows :
        submit' = [submit EXCEPT ![l] = s] /\ s.at = "booked" /\ s.others = {}
  BY <1>1, OutcomeIs
<1>3. \A k \in Legs : submit'[k] = IF k = l THEN s ELSE submit[k]
  BY <1>2 DEF MoneyInv, BookingTypes
<1>4. \A k \in Legs : job'[k] = IF k = l THEN "requested" ELSE job[k]
  BY <1>1 DEF MoneyInv, BookingTypes
<1>5. Fee[l] \in Nat /\ available \in Int
  BY LegsAndFees DEF MoneyInv, BookingTypes
<1>6. BookingTypes'
  <2>1. submit' \in [Legs -> SubmissionRows] /\ job' \in [Legs -> Statuses]
    BY <1>1, <1>2 DEF MoneyInv, BookingTypes, Statuses
  <2>2. available' \in Int /\ unseen' \subseteq Legs
    BY <1>1, <1>5 DEF MoneyInv, BookingTypes
  <2> QED BY <1>1, <2>1, <2>2 DEF MoneyInv, BookingTypes
<1>7. BookingsKnown' /\ OthersKnown'
  <2>1. "requested" \in Statuses /\ "requested" # "none"
    BY DEF Statuses
  <2> QED BY <1>1, <1>2, <1>3, <2>1, KnownGrows
<1>8. StillCovered'
  <2> SUFFICES ASSUME NEW m \in Legs, submit'[m].at = "covered" PROVE CoveredBut(m)'
    BY DEF StillCovered
  <2>1. m # l /\ submit'[m] = submit[m] /\ CoveredBut(m)
    BY <1>2, <1>3 DEF MoneyInv, Money, StillCovered
  <2>2. l \notin submit[m].others \cup {m} /\ ~Open(l)
    BY <1>1, <2>1 DEF MoneyInv, Money, OthersKnown, Known, Open
  <2>3. "requested" \in Statuses
    BY DEF Statuses
  <2> QED BY <1>1, <1>6, <2>1, <2>2, <2>3, CoverHolds DEF MoneyInv
<1>9. Headroom'
  <2> SUFFICES ASSUME unseen' = {} PROVE available' >= Surcharges(OpenOnes')
    BY DEF Headroom
  <2>1. PICK o \in SUBSET Legs : o = submit[l].others
    BY DEF MoneyInv, BookingTypes, SubmissionRows
  <2>2. PICK S \in SUBSET Legs : S = OpenOnes'
    BY DEF OpenOnes
  <2>3. \A k \in Legs : k # l /\ Open(k) => k \in o
    BY <1>1, <2>1
  <2>4. S \in SUBSET (o \cup {l})
    BY <1>4, <2>2, <2>3 DEF OpenOnes, Open
  <2>5. available + Sum(NotCounted(l)) >= Needed(l, o)
    BY <1>1, <2>1 DEF MoneyInv, Money, StillCovered, CoveredBut
  <2>6. NotCounted(l) = {}
    BY <2>1, <2>3 DEF NotCounted
  <2>7. available >= Fee[l] + Surcharges(o \cup {l})
    BY <1>5, <2>5, <2>6, SumOfNone, NeededIs
  <2>8. /\ Surcharges(S) <= Surcharges(o \cup {l})
        /\ Surcharges(S) \in Nat /\ Surcharges(o \cup {l}) \in Nat
    BY <2>4, SurchargesGrow
  <2>9. available' >= Surcharges(S)
    BY <1>1, <1>5, <2>7, <2>8
  <2> QED BY <2>2, <2>9
<1> QED BY <1>6, <1>7, <1>8, <1>9 DEF MoneyInv, Money

LEMMA RidersKeepMoney ==
  ASSUME MoneyInv, NEW l \in Legs,
         RiderComes(l) \/ RiderGoes(l) \/ Finishes(l)
  PROVE  MoneyInv'
<1>1. UNCHANGED <<leg, submit, byAge, run, said, victims, unseen, blind>>
  BY DEF RiderComes, RiderGoes, Finishes, External
<1>2. PICK d \in {"requested", "assigned", "delivered"} :
        /\ job' = [job EXCEPT ![l] = d] /\ Open(l)
        /\ \/ d \in {"requested", "assigned"} /\ available' = available
           \/ /\ d = "delivered" /\ CallsEndFirst
              /\ \E times \in {0, 3} : available' = available - times * (Fee[l] \div 5)
  BY DEF RiderComes, RiderGoes, Finishes, Open, wallet
<1>3. Fee[l] \in Nat /\ available \in Int
  BY LegsAndFees DEF MoneyInv, BookingTypes
<1>4. Fee[l] \div 5 \in Nat
  BY <1>3
<1>5. available' \in Int
  BY <1>2, <1>3, <1>4
<1>6. d \in Statuses
  BY DEF Statuses
<1>7. BookingTypes'
  BY <1>1, <1>2, <1>5, <1>6 DEF MoneyInv, BookingTypes
<1> QED BY <1>1, <1>2, <1>6, <1>7, DeliveryMoves

(* A list of legs, as the reconciler reads them.                           *)
LEMMA ListIs ==
  ASSUME BookingTypes, NEW S \in SUBSET Legs,
         NEW c \in SetToAllKPermutations(S)
  PROVE  ListOf(c) \in Seq(Entries) /\ Len(ListOf(c)) = Len(c)
<1>1. PICK T \in SUBSET S : c \in SetToSeqs(T)
  BY DEF SetToAllKPermutations
<1>2. c \in [1 .. Cardinality(T) -> T]
  BY <1>1 DEF SetToSeqs
<1>3. PICK n \in Nat : n = Cardinality(T)
  BY LegsAndFees, FS_Subset, FS_CardinalityType
<1>4. c \in [1 .. n -> Legs]
  BY <1>2, <1>3
<1>5. \A l \in Legs : Listed(l) \in Entries
  BY DEF Listed, BookingTypes, BookingRows, Entries
<1>6. ListOf(c) = [i \in 1 .. n |-> Listed(c[i])]
  BY <1>4 DEF ListOf
<1>7. ListOf(c) \in [1 .. n -> Entries]
  BY <1>4, <1>5, <1>6
<1> QED BY <1>3, <1>4, <1>7

(* What a step of the run leaves to be handled. *)
RunIs(at, todo) ==
  /\ run' = [at |-> at, todo |-> todo] /\ todo \in Seq(Entries) /\ Len(todo) <= BatchSize
  /\ at \in {"idle", "expire", "close", "poll"} /\ (at = "close" => todo # <<>>)

LEMMA RunIsTyped ==
  ASSUME NEW at, NEW todo, RunIs(at, todo)
  PROVE  /\ run' \in [at : {"idle", "expire", "close", "poll"}, todo : Seq(Entries)]
         /\ Len(run'.todo) <= BatchSize /\ (run'.at = "close" => run'.todo # <<>>)
BY DEF RunIs

LEMMA RunFields ==
  ASSUME BookingTypes
  PROVE  /\ run.at \in {"idle", "expire", "close", "poll"} /\ run.todo \in Seq(Entries)
         /\ run = [at |-> run.at, todo |-> run.todo]
         /\ run.todo # <<>> => /\ Head(run.todo) \in Entries /\ Tail(run.todo) \in Seq(Entries)
                               /\ Len(Tail(run.todo)) <= BatchSize
         /\ BatchSize \in Nat
<1>1. /\ run.at \in {"idle", "expire", "close", "poll"} /\ run.todo \in Seq(Entries)
      /\ run = [at |-> run.at, todo |-> run.todo] /\ Len(run.todo) <= BatchSize
  BY DEF BookingTypes
<1>2. BatchSize \in Nat
  BY BookingsAssumption
<1>3. PICK s \in Seq(Entries) : s = run.todo
  BY <1>1
<1>4. s # <<>> => /\ Head(s) \in Entries /\ Tail(s) \in Seq(Entries) /\ Len(Tail(s)) = Len(s) - 1
  BY HeadTailProperties
<1>5. Len(s) \in Nat /\ Len(s) <= BatchSize
  BY <1>1, <1>3
<1>6. s # <<>> => Len(Tail(s)) <= BatchSize
  BY <1>2, <1>4, <1>5
<1> QED BY <1>1, <1>2, <1>3, <1>4, <1>6

LEMMA RunsKeepMoney ==
  ASSUME MoneyInv,
         \/ RunStarts \/ TransactionEndsRun \/ ExpireSkips
         \/ ListStale \/ SyncFails \/ RunEnds
  PROVE  MoneyInv'
<1>1. UNCHANGED <<leg, submit, job, available, unseen, byAge, blind>>
  BY DEF RunStarts, TransactionEndsRun, ExpireSkips, ListStale,
         SyncFails, RunEnds, RunUnchanged, wallet
<1>2. BookingTypes
  BY DEF MoneyInv
<1>3. \E at, todo : RunIs(at, todo)
  <2>1. CASE RunStarts
    <3>1. PICK S \in SUBSET Legs : S = { l \in Legs : leg[l].status = "requested" }
      OBVIOUS
    <3>2. PICK c \in SetToAllKPermutations(S) :
            Len(c) <= BatchSize /\ run' = [at |-> "expire", todo |-> ListOf(c)]
      BY <2>1, <3>1 DEF RunStarts
    <3>3. ListOf(c) \in Seq(Entries) /\ Len(ListOf(c)) <= BatchSize
      BY <1>2, <3>2, ListIs
    <3>4. RunIs("expire", ListOf(c))
      BY <3>2, <3>3 DEF RunIs
    <3> QED BY <3>4
  <2>2. CASE ListStale
    <3>1. PICK S \in SUBSET Legs : S = { l \in Legs : Active(l) /\ leg[l].booked }
      OBVIOUS
    <3>2. PICK c \in SetToAllKPermutations(S) :
            IsOldestOf(c, S) /\ run' = [at |-> "poll", todo |-> ListOf(c)]
      BY <2>2, <3>1 DEF ListStale
    <3>3. Len(c) <= BatchSize
      <4>1. IsFiniteSet(S) /\ Cardinality(S) \in Nat /\ BatchSize \in Nat
        BY <1>2, RunFields, LegsAndFees, FS_Subset, FS_CardinalityType
      <4>2. Len(c) = IF Cardinality(S) < BatchSize THEN Cardinality(S) ELSE BatchSize
        BY <3>2 DEF IsOldestOf
      <4> QED BY <4>1, <4>2
    <3>4. ListOf(c) \in Seq(Entries) /\ Len(ListOf(c)) <= BatchSize
      BY <1>2, <3>2, <3>3, ListIs
    <3>5. RunIs("poll", ListOf(c))
      BY <3>2, <3>4 DEF RunIs
    <3> QED BY <3>5
  <2>3. CASE TransactionEndsRun \/ RunEnds
    <3>1. run' = [at |-> "idle", todo |-> <<>>] /\ BatchSize \in Nat
      BY <1>2, <2>3, RunFields DEF TransactionEndsRun, RunEnds, NotRunning
    <3>2. RunIs("idle", <<>>)
      BY <3>1 DEF RunIs
    <3> QED BY <3>2
  <2>4. CASE ExpireSkips \/ SyncFails
    <3>1. run' = [run EXCEPT !.todo = Tail(@)] /\ run.at # "close" /\ run.todo # <<>>
      BY <2>4 DEF ExpireSkips, SyncFails, RunGoesOn
    <3>2. run' = [at |-> run.at, todo |-> Tail(run.todo)]
      BY <1>2, <3>1, RunFields
    <3>3. RunIs(run.at, Tail(run.todo))
      BY <1>2, <3>1, <3>2, RunFields DEF RunIs
    <3> QED BY <3>3
  <2> QED BY <2>1, <2>2, <2>3, <2>4
<1>4. PICK at, todo : RunIs(at, todo)
  BY <1>3
<1>5. said' \in BOOLEAN /\ victims' \in 0 .. MaxVictims
  <2>1. CASE RunEnds
    <3>1. said' \in BOOLEAN
      BY <2>1 DEF RunEnds, LowBalance
    <3>2. victims' = victims
      BY <2>1 DEF RunEnds
    <3> QED BY <1>2, <3>1, <3>2 DEF BookingTypes
  <2>2. CASE TransactionEndsRun
    <3>1. victims' = victims + 1 /\ victims < MaxVictims /\ said' = said
      BY <2>2 DEF TransactionEndsRun
    <3>2. MaxVictims \in Nat /\ victims \in 0 .. MaxVictims /\ said \in BOOLEAN
      BY BookingsAssumption, <1>2 DEF BookingTypes
    <3>3. victims' \in 0 .. MaxVictims
      BY <3>1, <3>2
    <3> QED BY <3>1, <3>2, <3>3
  <2>3. CASE RunStarts \/ ExpireSkips \/ ListStale \/ SyncFails
    <3>1. said' = said /\ victims' = victims
      BY <2>3 DEF RunStarts, ExpireSkips, ListStale, SyncFails,
                  RunUnchanged
    <3> QED BY <1>2, <3>1 DEF BookingTypes
  <2> QED BY <2>1, <2>2, <2>3
<1>6. BookingTypes'
  BY <1>1, <1>2, <1>4, <1>5, RunIsTyped DEF BookingTypes
<1> QED BY <1>1, <1>6, MoneyStands

LEMMA ExpireCancelsKeepsMoney ==
  ASSUME MoneyInv, ExpireCancels
  PROVE  MoneyInv'
<1>1. PICK h : h = Head(run.todo)
  OBVIOUS
<1>2. /\ run.at = "expire" /\ run.todo # <<>> /\ run' = [run EXCEPT !.at = "close"]
      /\ UNCHANGED <<leg, submit, unseen, byAge, said, victims, blind>>
      /\ \/ /\ job[h.leg] = "requested" /\ job' = [job EXCEPT ![h.leg] = "cancelled"]
            /\ available' = available + Fee[h.leg]
         \/ UNCHANGED <<job, available>>
  BY <1>1 DEF ExpireCancels, Current
<1>3. BookingTypes
  BY DEF MoneyInv
<1>4. h \in Entries /\ h.leg \in Legs
  BY <1>1, <1>2, <1>3, RunFields DEF Entries
<1>5. RunIs("close", run.todo)
  <2>1. run' = [at |-> "close", todo |-> run.todo]
    BY <1>2, <1>3, RunFields
  <2> QED BY <1>2, <1>3, <2>1, RunFields DEF RunIs, BookingTypes
<1>6. "cancelled" \in Statuses /\ Fee[h.leg] \in Nat /\ available \in Int
  BY <1>3, <1>4, LegsAndFees DEF Statuses, BookingTypes
<1>7. job' \in [Legs -> Statuses] /\ available' \in Int
  <2>1. CASE UNCHANGED <<job, available>>
    BY <1>3, <2>1 DEF BookingTypes
  <2>2. CASE /\ job' = [job EXCEPT ![h.leg] = "cancelled"]
             /\ available' = available + Fee[h.leg]
    <3>1. available' \in Int
      BY <1>6, <2>2
    <3>2. job' \in [Legs -> Statuses]
      BY <1>3, <1>6, <2>2 DEF BookingTypes
    <3> QED BY <3>1, <3>2
  <2> QED BY <1>2, <2>1, <2>2
<1>8. BookingTypes'
  BY <1>2, <1>3, <1>5, <1>7, RunIsTyped DEF BookingTypes
<1>9. CASE UNCHANGED <<job, available>>
  BY <1>2, <1>8, <1>9, MoneyStands
<1>10. CASE /\ job[h.leg] = "requested"
            /\ job' = [job EXCEPT ![h.leg] = "cancelled"]
            /\ available' = available + Fee[h.leg]
  <2>1. Open(h.leg)
    BY <1>10 DEF Open
  <2> QED BY <1>2, <1>4, <1>6, <1>8, <1>10, <2>1, DeliveryMoves
<1> QED BY <1>2, <1>9, <1>10

(* A leg is closed or brought up to date by the run. *)
LEMMA ReconcilerKeepsMoney ==
  ASSUME MoneyInv, ExpireCloses \/ Sync
  PROVE  MoneyInv'
<1>1. PICK h : h = Head(run.todo)
  OBVIOUS
<1>2. BookingTypes
  BY DEF MoneyInv
<1>3. /\ run.todo # <<>>
      /\ UNCHANGED <<submit, job, available, unseen, said, victims>>
      /\ blind' \subseteq blind \cup {h.leg}
  BY <1>1, <1>2 DEF ExpireCloses, Sync, RunUnchanged, Current,
                    wallet, BookingTypes
<1>4. h.leg \in Legs /\ leg[h.leg] \in BookingRows /\ job[h.leg] \in Statuses
  BY <1>1, <1>2, <1>3, RunFields DEF Entries, BookingTypes
<1>5. RunIs(IF Sync THEN run.at ELSE "expire", Tail(run.todo))
  <2>1. CASE Sync
    <3>1. run' = [run EXCEPT !.todo = Tail(@)] /\ run.at # "close"
      BY <2>1 DEF Sync, RunGoesOn
    <3>2. run' = [at |-> run.at, todo |-> Tail(run.todo)]
      BY <1>2, <3>1, RunFields
    <3> QED BY <1>2, <1>3, <2>1, <3>1, <3>2, RunFields DEF RunIs
  <2>2. CASE ~Sync
    <3>1. run' = [[run EXCEPT !.todo = Tail(@)] EXCEPT !.at = "expire"]
      BY <2>2 DEF ExpireCloses, RunGoesOn
    <3>2. run' = [at |-> "expire", todo |-> Tail(run.todo)]
      BY <1>2, <3>1, RunFields
    <3> QED BY <1>2, <1>3, <2>2, <3>2, RunFields DEF RunIs
  <2> QED BY <2>1, <2>2
<1>6. \/ UNCHANGED <<leg, byAge>>
      \/ \E row \in BookingRows : Write(h.leg, row) /\ row.booked = leg[h.leg].booked
  <2>1. CASE ExpireCloses
    <3> DEFINE row == [leg[h.leg] EXCEPT !.status = "cancelled"]
    <3>1. row \in BookingRows /\ row.booked = leg[h.leg].booked
      BY <1>4 DEF BookingRows, Statuses
    <3>2. UNCHANGED <<leg, byAge>> \/ Write(h.leg, row)
      BY <1>1, <2>1 DEF ExpireCloses, Current, Closed
    <3> HIDE DEF row
    <3> QED BY <3>1, <3>2
  <2>2. CASE Sync
    <3> DEFINE new == [leg[h.leg] EXCEPT !.status = job[h.leg]]
               row == IF Active(h.leg) THEN new ELSE leg[h.leg]
    <3>1. new \in BookingRows /\ new.booked = leg[h.leg].booked
      BY <1>4 DEF BookingRows
    <3>2. Write(h.leg, row)
      BY <1>1, <2>2 DEF Sync, Current
    <3> HIDE DEF new
    <3>3. row \in BookingRows /\ row.booked = leg[h.leg].booked
      BY <1>4, <3>1
    <3> HIDE DEF row
    <3> QED BY <3>2, <3>3
  <2> QED BY <2>1, <2>2
<1>7. /\ leg' \in [Legs -> BookingRows] /\ Ages(byAge')
      /\ \A k \in Legs : leg'[k].booked => leg[k].booked
  <2>1. CASE UNCHANGED <<leg, byAge>>
    BY <1>2, <2>1 DEF BookingTypes
  <2>2. ASSUME NEW row \in BookingRows, Write(h.leg, row), row.booked = leg[h.leg].booked
        PROVE  /\ leg' \in [Legs -> BookingRows] /\ Ages(byAge')
               /\ \A k \in Legs : leg'[k].booked => leg[k].booked
    <3>1. /\ leg' \in [Legs -> BookingRows] /\ Ages(byAge')
          /\ \A k \in Legs : leg'[k] = IF k = h.leg THEN row ELSE leg[k]
      BY <1>2, <1>4, <2>2, RowIsWritten
    <3> QED BY <2>2, <3>1
  <2> QED BY <1>6, <2>1, <2>2
<1>8. BookingTypes'
  BY <1>2, <1>3, <1>4, <1>5, <1>7, RunIsTyped DEF BookingTypes
<1> QED BY <1>3, <1>7, <1>8, MoneyStands

LEMMA MoneyNext ==
  ASSUME MoneyInv, [WalletNext]_walletVars
  PROVE  MoneyInv'
<1>1. CASE UNCHANGED walletVars
  <2>1. /\ UNCHANGED <<job, available, unseen, leg, submit>> /\ BookingTypes'
    BY <1>1 DEF walletVars, MoneyInv, BookingTypes, Ages
  <2> QED BY <2>1, MoneyStands
<1>2. CASE \E l \in Legs :
       \/ Dispatch(l) \/ BeginSubmit(l) \/ QuoteAndCheckWallet(l)
       \/ CourierBooks(l) \/ CourierRepeats(l) \/ CourierRefuses(l)
       \/ SubmitFails(l) \/ RecordAccepted(l) \/ RecordRefused(l)
       \/ RiderComes(l) \/ RiderGoes(l) \/ Finishes(l)
  BY <1>2, SubmissionsKeepMoney, RowsKeepMoney, CourierBooksStep, RidersKeepMoney
<1>3. CASE \/ RunStarts \/ TransactionEndsRun \/ ExpireSkips
           \/ ListStale \/ SyncFails \/ RunEnds
  BY <1>3, RunsKeepMoney
<1>4. CASE ExpireCancels \/ ExpireCloses \/ Sync
  BY <1>4, ExpireCancelsKeepsMoney, ReconcilerKeepsMoney
<1> QED BY <1>1, <1>2, <1>3, <1>4 DEF WalletNext

LEMMA MoneyInvIsEnough ==
  ASSUME MoneyInv
  PROVE  HeadroomKept
<1>1. WalletTypeOK
  BY DEF MoneyInv, BookingTypes, BookingRows, SubmissionRows, Statuses, Entries, Ages, WalletTypeOK
<1> QED BY <1>1 DEF MoneyInv, Money, Headroom, OpenOnes, HeadroomKept

(* Whatever the fees and however many deliveries: as long as every booking *)
(* was counted by the checks that came after it, the wallet covers the     *)
(* surcharges of all that is under way (HeadroomKept of module Bookings;   *)
(* assertWalletHeadroom of sendii.provider.ts).                            *)
THEOREM HeadroomIsKept == WalletSpec => []HeadroomKept
<1>1. WalletInit => MoneyInv
  BY MoneyAtFirst
<1>2. MoneyInv /\ [WalletNext]_walletVars => MoneyInv'
  BY MoneyNext
<1>3. MoneyInv => HeadroomKept
  BY MoneyInvIsEnough
<1> QED BY <1>1, <1>2, <1>3, PTL DEF WalletSpec
==============================================================================
