------------------------------ MODULE Bookings -------------------------------
(***************************************************************************)
(* Several deliveries booked at one prepaid courier: what the money in its *)
(* wallet must cover, and the reconciler that looks after all of them in   *)
(* one run.  Module CourierSubmission follows one order through its legs;  *)
(* here each leg is another order's, and an order whose leg is cancelled   *)
(* goes to the pool.                                                       *)
(*                                                                         *)
(* A submission reads the other deliveries' quotes, asks for a quote, asks *)
(* for the balance, books, and records the booking: five steps.  The       *)
(* courier holds a delivery's fee while it is under way and charges it     *)
(* with the surcharges when it is over.                                    *)
(*                                                                         *)
(* "assigned" stands for assigned, picked_up and returning, "delivered"    *)
(* for delivered and returned.  Webhooks are lost.                         *)
(***************************************************************************)
EXTENDS Integers, FiniteSets, Sequences, SequencesExt, FiniteSetsExt

CONSTANTS
  Legs,         \* the delivery legs
  Fee,          \* Fee[l]: what the courier asks, if not more than the limit allows
  Funds,        \* what may be in the wallet
  AlertBelow,   \* lowBalanceAlertKobo
  BatchSize,    \* BATCH_SIZE
  MaxVictims    \* bound: transactions the database ends (a deadlock, a lost connection)

ASSUME BookingsAssumption ==
  /\ IsFiniteSet(Legs) /\ Fee \in [Legs -> Nat \ {0}]
  /\ Funds \subseteq Nat /\ AlertBelow \in Nat
  /\ BatchSize \in Nat \ {0} /\ MaxVictims \in Nat

VARIABLES
  leg,       \* delivery_legs
  submit,    \* each leg's event in the outbox and what its handler holds
  job,       \* the courier's own record
  available, \* its wallet: the balance less the fees held
  byAge,     \* the legs, the one whose row was written longest ago first
  run,       \* the reconciler's run
  said,      \* was the last look at the wallet a warning?
  victims,
  \* Two that the program does not have.
  unseen,    \* bookings some later booking's check of the wallet did not count
  blind      \* legs closed by somebody who had read no booking of theirs
walletVars == <<leg, submit, job, available, byAge, run, said, victims, unseen, blind>>
wallet == <<available, unseen>>

(***************************************************************************)
(* The rows and the money.                                                 *)
(***************************************************************************)
Active(l) == leg[l].status \in {"requested", "assigned"}
Open(l) == job[l] \in {"requested", "assigned"}

(* MAX_SURCHARGE_FACTOR, 0.6, of some deliveries' fees, rounded up. *)
Surcharges(ls) == (3 * MapThenSumSet(LAMBDA l : Fee[l], ls) + 4) \div 5

(* otherActiveQuotedKobo: the other legs in progress whose quote is        *)
(* recorded.                                                               *)
OthersQuoted(l) == { k \in Legs \ {l} : Active(k) /\ leg[k].booked }

(* Mutant: the surcharges of this delivery itself are forgotten. *)
NeededByOthers(l, others) == Fee[l] + Surcharges(others)

(* assertWalletHeadroom: this fee and the surcharges of all of them. *)
Needed(l, others) == Fee[l] + Surcharges(others \cup {l})

(* walletFor: what is left when the deliveries in progress have had theirs. *)
LowBalance == available - Surcharges({ l \in Legs : Active(l) /\ leg[l].booked }) < AlertBelow

NotSubmitting == [at |-> "idle", others |-> {}]
NotRunning == [at |-> "idle", todo |-> <<>>]

(* The reconciler's lists hold what they read of a leg. *)
Listed(l) == [leg |-> l, booked |-> leg[l].booked]
ListOf(chosen) == [i \in DOMAIN chosen |-> Listed(chosen[i])]

Place(l) == CHOOSE i \in DOMAIN byAge : byAge[i] = l

(* ORDER BY "updatedAt" LIMIT BATCH_SIZE. *)
IsOldestOf(list, legs) ==
  /\ Len(list) = IF Cardinality(legs) < BatchSize THEN Cardinality(legs) ELSE BatchSize
  /\ \A i \in DOMAIN list : \A l \in legs :
       Place(l) < Place(list[i]) => \E j \in 1 .. i - 1 : list[j] = l

(* Mutant: a leg nothing is new about keeps its date. *)
NotTouched(l) == byAge

(* Whoever writes a leg's row sets its updatedAt. *)
Touched(l) == Append(RemoveAt(byAge, Place(l)), l)
Write(l, row) == leg' = [leg EXCEPT ![l] = row] /\ byAge' = Touched(l)
Closed(l) == [leg[l] EXCEPT !.status = "cancelled"]

WalletInit ==
  /\ leg = [l \in Legs |-> [status |-> "none", booked |-> FALSE]]
  /\ submit = [l \in Legs |-> NotSubmitting]
  /\ job = [l \in Legs |-> "none"]
  /\ available \in Funds
  /\ byAge = SetToSeq(Legs) /\ run = NotRunning /\ said = FALSE /\ victims = 0
  /\ unseen = {} /\ blind = {}

(***************************************************************************)
(* A submission.  The outbox hands an event to one poller at a time.       *)
(***************************************************************************)
Step(l, at) == submit' = [submit EXCEPT ![l].at = at]
Outcome(l, at) == submit' = [submit EXCEPT ![l] = [NotSubmitting EXCEPT !.at = at]]
AtStep(l, steps) == submit[l].at \in steps

Handling == {"asking", "covered", "booked", "refused"}

Dispatch(l) ==
  /\ leg[l].status = "none"
  /\ Write(l, [leg[l] EXCEPT !.status = "requested"])
  /\ Step(l, "due")
  /\ UNCHANGED <<job, wallet, run, said, victims, blind>>

(* The leg and the others' quotes are read; a leg that is booked or has    *)
(* ended needs nothing.                                                    *)
BeginSubmit(l) ==
  /\ AtStep(l, {"due"})
  /\ submit' = [submit EXCEPT ![l] =
       IF leg[l].status = "requested" /\ ~leg[l].booked
       THEN [@ EXCEPT !.at = "asking", !.others = OthersQuoted(l)] ELSE NotSubmitting]
  /\ UNCHANGED <<leg, job, wallet, byAge, run, said, victims, blind>>

(* createDelivery up to the booking: the quote is above maxCostKobo, or    *)
(* the wallet does not cover it, or both are in order.                     *)
QuoteAndCheckWallet(l) ==
  /\ AtStep(l, {"asking"})
  /\ \/ Outcome(l, "refused")
     \/ available >= Needed(l, submit[l].others) /\ Step(l, "covered")
  /\ UNCHANGED <<leg, job, wallet, byAge, run, said, victims, blind>>

(* External: the courier books and holds the fee, refuses, or answers a    *)
(* repetition with the delivery it has.                                    *)
CourierBooks(l) ==
  /\ AtStep(l, {"covered"}) /\ job[l] = "none" /\ available >= Fee[l]
  /\ Outcome(l, "booked")
  /\ job' = [job EXCEPT ![l] = "requested"]
  /\ available' = available - Fee[l]
  /\ unseen' = unseen \cup { k \in Legs \ submit[l].others : k # l /\ Open(k) }
  /\ UNCHANGED <<leg, byAge, run, said, victims, blind>>

CourierRepeats(l) ==
  /\ AtStep(l, {"covered"}) /\ Open(l)
  /\ Outcome(l, "booked")
  /\ UNCHANGED <<leg, job, wallet, byAge, run, said, victims, blind>>

CourierRefuses(l) ==
  /\ AtStep(l, {"covered"}) /\ ~Open(l)
  /\ Outcome(l, "refused")
  /\ UNCHANGED <<leg, job, wallet, byAge, run, said, victims, blind>>

(* No usable answer, or the process dies: the event comes due again, or    *)
(* has used up its attempts.                                               *)
SubmitFails(l) ==
  /\ AtStep(l, Handling)
  /\ Outcome(l, "due") \/ Outcome(l, "idle")
  /\ UNCHANGED <<leg, job, wallet, byAge, run, said, victims, blind>>

(* The update names the leg and looks at nothing else. *)
RecordAccepted(l) ==
  /\ AtStep(l, {"booked"})
  /\ Write(l, [leg[l] EXCEPT !.booked = TRUE])
  /\ Outcome(l, "idle")
  /\ UNCHANGED <<job, wallet, run, said, victims, blind>>

(* So does this one; the order is dispatched onward. *)
RecordRefused(l) ==
  /\ AtStep(l, {"refused"})
  /\ Write(l, Closed(l))
  /\ Outcome(l, "idle")
  /\ blind' = blind \cup {l}
  /\ UNCHANGED <<job, wallet, run, said, victims>>

(***************************************************************************)
(* External: deliveries under way, and the courier's wallet.               *)
(***************************************************************************)
External == UNCHANGED <<leg, submit, byAge, run, said, victims, unseen, blind>>

RiderComes(l) == job[l] = "requested" /\ job' = [job EXCEPT ![l] = "assigned"] /\ External /\ UNCHANGED wallet

RiderGoes(l) == job[l] = "assigned" /\ job' = [job EXCEPT ![l] = "requested"] /\ External /\ UNCHANGED wallet

(* The held fee is charged, and a fifth of it for every drop-off attempt   *)
(* more (two at most) and for the way back: nothing or all of it.  A       *)
(* request to the courier is cut off after seconds, a parcel takes longer  *)
(* to cross the city.                                                      *)
CallsEndFirst == \A l \in Legs : ~AtStep(l, Handling)

Finishes(l) ==
  /\ job[l] = "assigned" /\ CallsEndFirst
  /\ job' = [job EXCEPT ![l] = "delivered"]
  /\ \E times \in {0, 3} : available' = available - times * (Fee[l] \div 5)
  /\ External

(***************************************************************************)
(* The reconciler.                                                         *)
(***************************************************************************)
RunUnchanged == UNCHANGED <<submit, job, wallet, said, victims, blind>>
Current == Head(run.todo).leg
RunGoesOn == [run EXCEPT !.todo = Tail(@)]

(* runOnce: whichever of the unassigned legs have waited too long by now. *)
RunStarts ==
  /\ run.at = "idle"
  /\ \E late \in SetToAllKPermutations({ l \in Legs : leg[l].status = "requested" }) :
       /\ Len(late) <= BatchSize
       /\ run' = [at |-> "expire", todo |-> ListOf(late)]
  /\ RunUnchanged /\ UNCHANGED <<leg, byAge>>

(* Mutant: the courier is not asked. *)
ExpireWithoutCancelling ==
  /\ run.at = "expire" /\ run.todo # <<>>
  /\ run' = [run EXCEPT !.at = "close"]
  /\ UNCHANGED <<leg, submit, job, wallet, byAge, said, victims, blind>>

(* provider.cancel: without an id there is nothing to do; a rider on the   *)
(* way cannot be called back, then the leg is brought up to date instead.  *)
Cancels(entry) == entry.booked => job[entry.leg] \in {"requested", "cancelled"}

ExpireCancels ==
  /\ run.at = "expire" /\ run.todo # <<>> /\ Cancels(Head(run.todo))
  /\ run' = [run EXCEPT !.at = "close"]
  /\ IF Head(run.todo).booked /\ job[Current] = "requested"
     THEN job' = [job EXCEPT ![Current] = "cancelled"] /\ available' = available + Fee[Current]
     ELSE UNCHANGED <<job, available>>
  /\ UNCHANGED <<leg, submit, unseen, byAge, said, victims, blind>>

(* cancelLeg, in its own transaction. *)
ExpireCloses ==
  /\ run.at = "close"
  /\ run' = [RunGoesOn EXCEPT !.at = "expire"]
  /\ IF leg[Current].status \in {"requested", "assigned"}
     THEN /\ Write(Current, Closed(Current))
          /\ blind' = IF Head(run.todo).booked THEN blind ELSE blind \cup {Current}
     ELSE UNCHANGED <<leg, byAge, blind>>
  /\ UNCHANGED <<submit, job, wallet, said, victims>>

(* cancelLeg throws: nothing catches it in the loop, and the whole run     *)
(* ends, its polls and the look at the wallet included.                    *)
TransactionEndsRun ==
  /\ run.at = "close" /\ victims < MaxVictims
  /\ victims' = victims + 1
  /\ run' = NotRunning
  /\ UNCHANGED <<leg, submit, job, wallet, byAge, said, blind>>

(* No answer from the courier: this leg is left for the next run. *)
ExpireSkips ==
  /\ run.at = "expire" /\ run.todo # <<>> /\ Head(run.todo).booked
  /\ run' = RunGoesOn
  /\ RunUnchanged /\ UNCHANGED <<leg, byAge>>

ListStale ==
  /\ run.at = "expire" /\ run.todo = <<>>
  /\ LET stale == { l \in Legs : Active(l) /\ leg[l].booked }
     IN  \E list \in SetToAllKPermutations(stale) :
           IsOldestOf(list, stale) /\ run' = [at |-> "poll", todo |-> ListOf(list)]
  /\ RunUnchanged /\ UNCHANGED <<leg, byAge>>

(* syncLeg: the courier's answer is applied and the row written, if only   *)
(* to touch it.                                                            *)
Sync ==
  /\ \/ run.at = "poll" /\ run.todo # <<>>
     \/ run.at = "expire" /\ run.todo # <<>> /\ ~Cancels(Head(run.todo))
  /\ run' = RunGoesOn
  /\ Write(Current, IF Active(Current) THEN [leg[Current] EXCEPT !.status = job[Current]] ELSE leg[Current])
  /\ RunUnchanged

(* Its failure is caught, and the row stays as old as it is. *)
SyncFails ==
  /\ run.at = "poll" /\ run.todo # <<>>
  /\ run' = RunGoesOn
  /\ RunUnchanged /\ UNCHANGED <<leg, byAge>>

(* checkWallets; an unanswered question leaves it at that. *)
RunEnds ==
  /\ run.at = "poll" /\ run.todo = <<>>
  /\ run' = NotRunning
  /\ said' = LowBalance
  /\ UNCHANGED <<leg, submit, job, wallet, byAge, victims, blind>>

WalletNext ==
  \/ \E l \in Legs :
       \/ Dispatch(l) \/ BeginSubmit(l) \/ QuoteAndCheckWallet(l)
       \/ CourierBooks(l) \/ CourierRepeats(l) \/ CourierRefuses(l)
       \/ SubmitFails(l) \/ RecordAccepted(l) \/ RecordRefused(l)
       \/ RiderComes(l) \/ RiderGoes(l) \/ Finishes(l)
  \/ RunStarts \/ ExpireCancels \/ ExpireCloses \/ TransactionEndsRun \/ ExpireSkips
  \/ ListStale \/ Sync \/ SyncFails \/ RunEnds

(* The interval fires for ever and a run goes on to its end; a courier     *)
(* that is asked about a delivery again and again answers at some time.    *)
WalletFairness ==
  /\ WF_walletVars(RunStarts) /\ WF_walletVars(ExpireCancels)
  /\ WF_walletVars(ExpireCloses) /\ WF_walletVars(ExpireSkips)
  /\ WF_walletVars(ListStale) /\ WF_walletVars(SyncFails) /\ WF_walletVars(RunEnds)
  /\ \A l \in Legs : SF_walletVars(Sync /\ run.todo # <<>> /\ Current = l)
WalletSpec == WalletInit /\ [][WalletNext]_walletVars /\ WalletFairness

WalletTypeOK ==
  /\ leg \in [Legs -> [status : {"none", "requested", "assigned", "delivered", "cancelled"},
                       booked : BOOLEAN]]
  /\ submit \in [Legs -> [at : {"idle", "due", "asking", "covered", "booked", "refused"},
                          others : SUBSET Legs]]
  /\ job \in [Legs -> {"none", "requested", "assigned", "delivered", "cancelled"}]
  /\ available \in Int
  /\ byAge \in [1 .. Cardinality(Legs) -> Legs] /\ IsInjective(byAge)
  /\ run.at \in {"idle", "expire", "close", "poll"}
  /\ run.todo \in Seq([leg : Legs, booked : BOOLEAN]) /\ Len(run.todo) <= BatchSize
  /\ said \in BOOLEAN /\ victims \in 0 .. MaxVictims
  /\ unseen \subseteq Legs /\ blind \subseteq Legs

(* "Kept as headroom in the wallet so surcharges can't push it negative"   *)
(* (sendii.provider.ts): the wallet covers the surcharges of everything    *)
(* under way at the courier - as long as every booking was counted by the  *)
(* checks that came after it.  One that was made while another submission  *)
(* was between its check and its booking, or whose answer was lost, was    *)
(* not.                                                                    *)
HeadroomKept ==
  /\ WalletTypeOK
  /\ unseen = {} => available >= Surcharges({ l \in Legs : Open(l) })

(* A delivery goes on at the courier for a leg that has ended only if      *)
(* whoever ended the leg had read no id of a booking in it: a refusal of   *)
(* our own after an answer that was lost, or a list of the reconciler's    *)
(* older than the booking.                                                 *)
NoBookingLeftBehind ==
  \A l \in Legs : Open(l) /\ leg[l].status \in {"delivered", "cancelled"} => l \in blind

(* Lost webhooks, a courier that does not answer, more deliveries than a   *)
(* batch holds and runs cut short by an exception do not keep the          *)
(* reconciler from its work: a booked delivery that is over is noticed,    *)
(* and a wallet that stays below the Admin's threshold is reported.        *)
FinishedJobIsNoticed ==
  \A l \in Legs :
    (Active(l) /\ leg[l].booked /\ job[l] \in {"delivered", "cancelled"}) ~> ~Active(l)
LowWalletIsReported == LowBalance ~> (said \/ ~LowBalance)
NothingGoesUnnoticed == FinishedJobIsNoticed /\ LowWalletIsReported
==============================================================================
