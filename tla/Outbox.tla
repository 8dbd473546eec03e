-------------------------------- MODULE Outbox --------------------------------
(***************************************************************************)
(* The transactional outbox (notifications/application): rows claimed in   *)
(* batches under a lease by the pollers of one or more instances, handled  *)
(* one after the other, retried with backoff and given up after            *)
(* OUTBOX_MAX_ATTEMPTS.  Time is abstracted to "due or not": a backoff or  *)
(* a lease that runs out makes the row due.                                *)
(***************************************************************************)
EXTENDS Naturals, FiniteSets

CONSTANTS
  Events, Pollers,
  BatchSize,    \* OUTBOX_BATCH_SIZE
  MaxAttempts,  \* OUTBOX_MAX_ATTEMPTS
  MaxCrashes,   \* bound: pollers that die with rows in hand
  LeasesHold    \* is a batch always handled before its lease lapses?

ASSUME OutboxAssumption ==
  /\ IsFiniteSet(Events)
  /\ BatchSize \in Nat \ {0} /\ MaxAttempts \in Nat \ {0} /\ MaxCrashes \in Nat
  /\ LeasesHold \in BOOLEAN

VARIABLES
  row,      \* outbox_events: status, attempts, and whether nextAttemptAt is past
  batch,    \* each poller's claimed rows, as it read them
  handled,  \* the one of them whose handler has just succeeded
  crashes

vars == <<row, batch, handled, crashes>>

Copies == [event : Events, attempts : 0 .. MaxAttempts]

(* Rows and claims hold what the code writes. *)
TypeOK ==
  /\ row \in [Events -> [status : {"none", "pending", "sent", "failed"},
                         attempts : 0 .. MaxAttempts, due : BOOLEAN]]
  /\ batch \in [Pollers -> SUBSET Copies]
  /\ handled \in [Pollers -> SUBSET Copies]
  /\ \A p \in Pollers : Cardinality(batch[p]) <= BatchSize /\ handled[p] \subseteq batch[p]
  /\ crashes \in 0 .. MaxCrashes

Init ==
  /\ row = [e \in Events |-> [status |-> "none", attempts |-> 0, due |-> FALSE]]
  /\ batch = [p \in Pollers |-> {}] /\ handled = [p \in Pollers |-> {}]
  /\ crashes = 0

Due == { e \in Events : row[e].status = "pending" /\ row[e].due }
Held(e) == { p \in Pollers : \E c \in batch[p] : c.event = e }

(* OutboxService.enqueue, in the transaction of the change it announces. *)
Enqueue(e) ==
  /\ row[e].status = "none"
  /\ row' = [row EXCEPT ![e] = [status |-> "pending", attempts |-> 0, due |-> TRUE]]
  /\ UNCHANGED <<batch, handled, crashes>>

(* The backoff or the lease has run out. *)
ComesDue(e) ==
  /\ row[e].status = "pending" /\ ~row[e].due
  /\ LeasesHold => Held(e) = {}
  /\ row' = [row EXCEPT ![e].due = TRUE]
  /\ UNCHANGED <<batch, handled, crashes>>

(* Mutant: the claim does not push nextAttemptAt. *)
ClaimWithoutLease(p) ==
  /\ batch[p] = {} /\ Due # {}
  /\ \E claim \in { s \in SUBSET Due : Cardinality(s) = 1 } :
       /\ batch' = [batch EXCEPT ![p] =
                      { [event |-> e, attempts |-> row[e].attempts] : e \in claim }]
       /\ row' = row
  /\ UNCHANGED <<handled, crashes>>

(* claimDueEvents: one statement, skipping rows another claim has locked.  *)
(* The oldest come first; which ones those are is left open.               *)
Claim(p) ==
  /\ batch[p] = {} /\ Due # {}
  /\ \E claim \in SUBSET Due :
       /\ Cardinality(claim) = BatchSize \/ (claim = Due /\ Cardinality(Due) < BatchSize)
       /\ batch' = [batch EXCEPT ![p] =
                      { [event |-> e, attempts |-> row[e].attempts] : e \in claim }]
       /\ row' = [e \in Events |-> [row[e] EXCEPT !.due = IF e \in claim THEN FALSE ELSE @]]
  /\ UNCHANGED <<handled, crashes>>

(* The handler has done its work; the row does not say so yet. *)
Handle(p) ==
  /\ handled[p] = {}
  /\ \E c \in batch[p] :
       handled' = [handled EXCEPT ![p] = {c}]
  /\ UNCHANGED <<row, batch, crashes>>

(* repo.save of the row as it was read at the claim: whatever another      *)
(* poller wrote since is overwritten.                                      *)
Save(p, c, status, attempts) ==
  /\ row' = [row EXCEPT ![c.event] = [status |-> status, attempts |-> attempts, due |-> FALSE]]
  /\ batch' = [batch EXCEPT ![p] = @ \ {c}]

SaveSent(p) ==
  /\ \E c \in handled[p] : Save(p, c, "sent", c.attempts)
  /\ handled' = [handled EXCEPT ![p] = {}]
  /\ UNCHANGED crashes

(* Mutant: a failed attempt is not counted. *)
RetryForEver(p) ==
  /\ handled[p] = {}
  /\ \E c \in batch[p] : Save(p, c, "pending", c.attempts)
  /\ UNCHANGED <<handled, crashes>>

(* registerFailure: the handler threw, with or without its effect. *)
RegisterFailure(p) ==
  /\ handled[p] = {}
  /\ \E c \in batch[p] :
       Save(p, c, IF c.attempts + 1 >= MaxAttempts THEN "failed" ELSE "pending",
            c.attempts + 1)
  /\ UNCHANGED <<handled, crashes>>

(* The process stops, or poll() throws: its claims are simply abandoned. *)
Crash(p) ==
  /\ batch[p] # {} /\ crashes < MaxCrashes
  /\ crashes' = crashes + 1
  /\ batch' = [batch EXCEPT ![p] = {}] /\ handled' = [handled EXCEPT ![p] = {}]
  /\ UNCHANGED row

Next ==
  \/ \E e \in Events : Enqueue(e) \/ ComesDue(e)
  \/ \E p \in Pollers :
       \/ Claim(p)
       \/ Handle(p)
       \/ SaveSent(p)
       \/ RegisterFailure(p)
       \/ Crash(p)

(* Leases and backoffs run out, polls recur, oldest rows first, and        *)
(* handlers return.                                                        *)
Fairness ==
  /\ \A e \in Events :
       /\ WF_vars(ComesDue(e))
       /\ SF_vars(\E p \in Pollers :
                    Claim(p) /\ [event |-> e, attempts |-> row[e].attempts] \in batch'[p])
  /\ \A p \in Pollers : WF_vars(Handle(p) \/ RegisterFailure(p)) /\ WF_vars(SaveSent(p))

Spec == Init /\ [][Next]_vars /\ Fairness

-----------------------------------------------------------------------------
(* What must hold. *)

(* "The lease keeps the claimed rows invisible to later polls while their  *)
(* handlers run" (outbox-poller.service.ts): no two pollers work on the    *)
(* same row.                                                               *)
OnePollerPerRow ==
  /\ TypeOK
  /\ \A e \in Events : Cardinality(Held(e)) <= 1

(* "A crashed instance can't strand rows" (outbox-poller.service.ts):      *)
(* every row queued is sent, or given up after its attempts.               *)
EveryRowSettles ==
  \A e \in Events : (row[e].status = "pending") ~> (row[e].status \in {"sent", "failed"})
==============================================================================
