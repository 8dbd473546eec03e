---------------------------- MODULE PaymentIntents ----------------------------
(***************************************************************************)
(* Checkout at one origin Node: payment intents from reservation to order  *)
(* or expiry (payments/application), step by step.  Three processes work   *)
(* on an intent and none of them locks its row before it has decided what  *)
(* to write: the checkout request, the handler of the payment provider's   *)
(* webhook and the expiry sweep.                                           *)
(*                                                                         *)
(* A transaction's writes become visible together at its commit, so what   *)
(* it writes is one step; its reads, and the calls it awaits, are steps of *)
(* their own.  repo.save reads the row again and writes every column in    *)
(* which the object differs from it, whoever changed that column.          *)
(***************************************************************************)
EXTENDS Naturals, FiniteSets

CONSTANTS
  Intents,
  Capacity,        \* of the origin Node
  NoIntent

ASSUME PaymentAssumption ==
  /\ IsFiniteSet(Intents) /\ Capacity \in Nat /\ NoIntent \notin Intents

VARIABLES
  intent,        \* payment_intents.status
  reference,     \* intents whose providerReference is set
  charge,        \* the provider's transaction: unknown until initialized
  ordered,       \* intents with an order
  keys,          \* idempotency keys of committed webhook transactions
  webhook,       \* intents whose webhook transaction is open, with its key
  sweep,         \* the expiry sweep: the intent in hand and how far it is
  currentCount   \* nodes.currentCount

vars == <<intent, reference, charge, ordered, keys, webhook, sweep, currentCount>>

Idle == [intent |-> NoIntent, at |-> "idle"]
Sweeps == {Idle} \cup [intent : Intents, at : {"verifying", "recovering", "expiring", "saving"}]

(* The columns and the two processes hold what they can hold. *)
TypeOK ==
  /\ intent \in [Intents -> {"none", "pending", "paid", "expired"}]
  /\ reference \subseteq Intents
  /\ charge \in [Intents -> {"unknown", "open", "success"}]
  /\ ordered \subseteq Intents /\ keys \subseteq Intents /\ webhook \subseteq Intents
  /\ sweep \in Sweeps
  /\ currentCount \in 0 .. Capacity

Init ==
  /\ intent = [i \in Intents |-> "none"]
  /\ reference = {} /\ ordered = {} /\ keys = {} /\ webhook = {}
  /\ charge = [i \in Intents |-> "unknown"]
  /\ sweep = Idle
  /\ currentCount = 0

Release(count) == IF count > 0 THEN count - 1 ELSE 0

-----------------------------------------------------------------------------
(* CreatePaymentIntentService: three statements, any of which may be the   *)
(* last the request gets to.                                               *)

Reserve(i) ==
  /\ intent[i] = "none" /\ currentCount < Capacity
  /\ intent' = [intent EXCEPT ![i] = "pending"]
  /\ currentCount' = currentCount + 1
  /\ UNCHANGED <<reference, charge, ordered, keys, webhook, sweep>>

SetReference(i) ==
  /\ intent[i] # "none" /\ i \notin reference
  /\ reference' = reference \cup {i}
  /\ UNCHANGED <<intent, charge, ordered, keys, webhook, sweep, currentCount>>

(* PaystackPaymentProvider.initialize: the provider creates the            *)
(* transaction, whether or not its answer, the payment page's address,     *)
(* gets back to the request.                                               *)
Initialize(i) ==
  /\ i \in reference /\ charge[i] = "unknown"
  /\ charge' = [charge EXCEPT ![i] = "open"]
  /\ UNCHANGED <<intent, reference, ordered, keys, webhook, sweep, currentCount>>

(* External: the customer pays, in time or not. *)
Pay(i) ==
  /\ charge[i] = "open"
  /\ charge' = [charge EXCEPT ![i] = "success"]
  /\ UNCHANGED <<intent, reference, ordered, keys, webhook, sweep, currentCount>>

(* What PaystackPaymentProvider.verify may answer about a transaction: it  *)
(* may lag behind the charge or report another amount, and only a charge   *)
(* it knows gets an answer at all.                                         *)
Answers(i) ==
  IF charge[i] = "unknown" THEN {}
  ELSE {"other"} \cup {c \in {"success"} : charge[i] = "success"}

(* A genuine event that parseWebhookEvent takes for charge.success. *)
Announced(i) == charge[i] = "success"

(* createFromPaidIntent fails: another order has the tracking code it      *)
(* drew.  Its loop draws again in the same transaction, which the          *)
(* database refuses until the rollback, so the transaction is lost.        *)
CodeCollides(i) == intent[i] = "pending"

-----------------------------------------------------------------------------
(* HandlePaymentWebhookService.  The insert of the idempotency key waits   *)
(* while another transaction has inserted it and is still open; the sweep  *)
(* inserts it and commits in one step.                                     *)

ReceiveWebhook(i) ==
  /\ Announced(i) /\ i \notin keys \cup webhook
  /\ IF intent[i] = "pending"
     THEN webhook' = webhook \cup {i} /\ keys' = keys
     ELSE webhook' = webhook /\ keys' = keys \cup {i}
  /\ UNCHANGED <<intent, reference, charge, ordered, sweep, currentCount>>

(* ConfirmPaymentIntentPaidService, with the object read earlier. *)
ConfirmPaid(i) ==
  /\ intent' = [intent EXCEPT ![i] = "paid"]
  /\ ordered' = ordered \cup {i}
  /\ keys' = keys \cup {i}

ConfirmFromWebhook(i) ==
  /\ i \in webhook /\ "success" \in Answers(i)
  /\ ConfirmPaid(i)
  /\ webhook' = webhook \ {i}
  /\ UNCHANGED <<reference, charge, sweep, currentCount>>

(* Verify does not confirm the payment: its status lags behind the event,  *)
(* or the amount differs.  The handler returns, and the transaction        *)
(* commits the key.                                                        *)
RejectWebhook(i) ==
  /\ i \in webhook /\ "other" \in Answers(i)
  /\ webhook' = webhook \ {i}
  /\ keys' = keys \cup {i}
  /\ UNCHANGED <<intent, reference, charge, ordered, sweep, currentCount>>

(* Something threw, or the process stopped: rolled back, key and all. *)
AbortWebhook(i) ==
  /\ i \in webhook
  /\ webhook' = webhook \ {i}
  /\ UNCHANGED <<intent, reference, charge, ordered, keys, sweep, currentCount>>

-----------------------------------------------------------------------------
(* ExpirePaymentIntentsService: one intent past its TTL at a time. *)

Sweep(i, at) == sweep' = [intent |-> i, at |-> at]

TakeStale(i) ==
  /\ sweep = Idle /\ intent[i] = "pending"
  /\ Sweep(i, IF i \in reference THEN "verifying" ELSE "expiring")
  /\ UNCHANGED <<intent, reference, charge, ordered, keys, webhook, currentCount>>

(* Mutant: any answer but "failed" counts as paid. *)
VerifyStaleLoosely ==
  /\ sweep.at = "verifying" /\ Answers(sweep.intent) # {}
  /\ Sweep(sweep.intent, "recovering")
  /\ UNCHANGED <<intent, reference, charge, ordered, keys, webhook, currentCount>>

(* A payment is recovered when verify says success; any other answer, a    *)
(* lagging or mismatching one included, lets the intent expire.            *)
VerifyStale ==
  /\ sweep.at = "verifying"
  /\ \E answer \in Answers(sweep.intent) :
       Sweep(sweep.intent, IF answer = "success" THEN "recovering" ELSE "expiring")
  /\ UNCHANGED <<intent, reference, charge, ordered, keys, webhook, currentCount>>

(* Mutant: isPolling is not reset when verify throws. *)
SkipStaleStillPolling ==
  /\ sweep.at = "verifying"
  /\ Sweep(sweep.intent, "polling")
  /\ UNCHANGED <<intent, reference, charge, ordered, keys, webhook, currentCount>>

(* Verify threw: paystackRequest got no answer it could use, or the        *)
(* provider does not know the reference.  Retried by a later sweep.        *)
SkipStale ==
  /\ sweep.at = "verifying"
  /\ sweep' = Idle
  /\ UNCHANGED <<intent, reference, charge, ordered, keys, webhook, currentCount>>

(* tryRecover's transaction.  With the key inserted, only the sweep itself *)
(* could write the intent, so its read and its write are one step.         *)
Recover ==
  LET i == sweep.intent IN
  /\ sweep.at = "recovering" /\ i \notin webhook
  /\ IF i \notin keys /\ intent[i] = "pending"
     THEN ConfirmPaid(i)
     ELSE keys' = keys \cup {i} /\ UNCHANGED <<intent, ordered>>
  /\ sweep' = Idle
  /\ UNCHANGED <<reference, charge, webhook, currentCount>>

(* Thrown through poll, which drops the rest of its batch. *)
RecoverFails ==
  /\ sweep.at = "recovering" /\ sweep.intent \notin keys \cup webhook
  /\ CodeCollides(sweep.intent)
  /\ sweep' = Idle
  /\ UNCHANGED <<intent, reference, charge, ordered, keys, webhook, currentCount>>

ReadFresh ==
  /\ sweep.at = "expiring"
  /\ sweep' = IF intent[sweep.intent] = "pending"
              THEN [sweep EXCEPT !.at = "saving"] ELSE Idle
  /\ UNCHANGED <<intent, reference, charge, ordered, keys, webhook, currentCount>>

(* Mutant: the slot of the expired intent is never given back. *)
SaveWithoutRelease ==
  /\ sweep.at = "saving"
  /\ intent' = [intent EXCEPT ![sweep.intent] = "expired"]
  /\ sweep' = Idle
  /\ UNCHANGED <<reference, charge, ordered, keys, webhook, currentCount>>

SaveExpired ==
  /\ sweep.at = "saving"
  /\ intent' = [intent EXCEPT ![sweep.intent] = "expired"]
  /\ currentCount' = Release(currentCount)
  /\ sweep' = Idle
  /\ UNCHANGED <<reference, charge, ordered, keys, webhook>>

Next ==
  \/ \E i \in Intents :
       \/ Reserve(i)
       \/ SetReference(i)
       \/ Initialize(i)
       \/ Pay(i)
       \/ ReceiveWebhook(i)
       \/ ConfirmFromWebhook(i)
       \/ RejectWebhook(i)
       \/ AbortWebhook(i)
       \/ TakeStale(i)
  \/ VerifyStale
  \/ SkipStale
  \/ Recover
  \/ RecoverFails
  \/ ReadFresh
  \/ SaveExpired

(* The sweep runs every minute and takes every stale intent, oldest first; *)
(* verify returns, and not with an error for ever when it knows the        *)
(* reference; an open transaction ends, one that waits for its key gets    *)
(* it, and tracking codes do not collide for ever.  Nothing obliges a      *)
(* customer, the checkout request or the provider's webhooks.              *)
Fairness ==
  /\ \A i \in Intents : SF_vars(TakeStale(i))
  /\ WF_vars(SkipStale \/ VerifyStale)
  /\ \A i \in Intents : SF_vars(sweep.intent = i /\ VerifyStale)
  /\ \A i \in Intents : SF_vars(sweep.intent = i /\ Recover)
  /\ WF_vars(ReadFresh) /\ WF_vars(SaveExpired)
  /\ \A i \in Intents :
       WF_vars(ConfirmFromWebhook(i) \/ RejectWebhook(i) \/ AbortWebhook(i))

Spec == Init /\ [][Next]_vars /\ Fairness

-----------------------------------------------------------------------------
(* What must hold. *)

Pending == { i \in Intents : intent[i] = "pending" }

(* However webhook and sweep interleave, no slot is lost: every checkout   *)
(* in progress has one, and none outlives its intent and its order.        *)
SlotBounds ==
  /\ TypeOK
  /\ Cardinality(Pending) <= currentCount
  /\ currentCount <= Cardinality(Pending \cup ordered)

(* No parcel is accepted unpaid, whichever of the two entry points         *)
(* confirms the payment.                                                   *)
OrderOnlyForPayment == \A i \in ordered : charge[i] = "success"

(* "Anything genuinely unpaid past its TTL is marked EXPIRED ... abandoned *)
(* checkouts don't hold a slot hostage forever": a checkout that got as    *)
(* far as the provider is paid or expires, even if every webhook is lost,  *)
(* unless a webhook that confirmed nothing has used up its key.            *)
CheckoutResolves ==
  \A i \in Intents :
    (intent[i] = "pending" /\ charge[i] # "unknown") ~> (intent[i] # "pending" \/ i \in keys)

(* "Re-read inside the transaction - a webhook may have processed this     *)
(* intent concurrently" (expire-payment-intents.service.ts): the sweep     *)
(* never expires an intent that a webhook has marked paid.                 *)
PaidStaysPaid ==
  [][\A i \in Intents : intent[i] = "paid" => intent'[i] = "paid"]_vars
==============================================================================
