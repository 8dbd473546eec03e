------------------------------ MODULE Collection ------------------------------
(***************************************************************************)
(* The last counter: a receiver's collection code is issued, replaced,     *)
(* tried and used (handoffs/application), the order completes and its      *)
(* amount is recorded for the parties, whom Admins pay later (earnings).   *)
(*                                                                         *)
(* A confirmation is one transaction; its idempotency key makes those of   *)
(* one order wait for each other.  A wrong code is counted over a          *)
(* connection of its own, so that the count outlives the rollback: every   *)
(* transaction holds a connection of the pool, a refusal needs a second.   *)
(***************************************************************************)
EXTENDS Integers, Sequences, FiniteSets, FiniteSetsExt, RevenueSplit

CONSTANTS
  Orders,
  Resends,         \* requests for a fresh code
  Desks,           \* requests that confirm a collection
  Admins,
  Rules,           \* rulesets Admins may create
  Amount, DestinationFee,
  PoolSize,        \* connections of the instance (pg's default: 10)
  MaxAttempts,     \* MAX_HANDOFF_CODE_ATTEMPTS
  MaxCodes,        \* bound: codes issued for an order
  MaxRefusals,     \* bound: refusals told apart (at least MaxAttempts)
  MaxRules,        \* bound: rulesets created
  NoOrder, Nobody, NoEntry

ASSUME CollectionAssumption ==
  /\ NoOrder \notin Orders /\ Nobody \notin Admins /\ Desks \cap Resends = {}
  /\ \A rule \in Rules : IsRule(rule)
  /\ PoolSize \in Nat \ {0}
  /\ Amount \in Nat /\ DestinationFee \in 0 .. Amount
  /\ MaxAttempts \in Nat \ {0} /\ MaxRefusals \in Nat /\ MaxRefusals >= MaxAttempts
  /\ MaxCodes \in Nat \ {0} /\ MaxRules \in Nat

VARIABLES
  status,   \* orders.status
  carried,  \* the orders an external courier carried: riderId is null
  codes,    \* handoff_codes rows of an order, by createdAt
  resend,   \* the order and the codes each resend's transaction has deleted
  desk,     \* each confirmation: its order, the code typed, the row it read
  keys,     \* idempotency keys of committed confirmations
  rules,    \* revenue_split_rules, append-only
  entries,  \* revenue_split_entries by order and party
  paying    \* the entry each Admin's request found pending

vars == <<status, carried, codes, resend, desk, keys, rules, entries, paying>>

Parties == {"rider", "courier_allocation", "node", "destination_node", "platform"}
Payouts == {"pending", "paid", "not_payable"}
CodeRows == [state : {"uncommitted", "unused", "used", "deleted"}, expired : BOOLEAN,
             failedAttempts : 0 .. MaxRefusals]
Fresh == [state |-> "unused", expired |-> FALSE, failedAttempts |-> 0]

IdleDesk == [order |-> NoOrder, typed |-> 0, row |-> 0, at |-> "idle"]
IdleResend == [order |-> NoOrder, row |-> 0, gone |-> {}]
Entry(amount, payout) == [amount |-> amount, payout |-> payout, paidBy |-> Nobody]

(* Rows, requests and entries hold what the code can give them. *)
TypeOK ==
  /\ status \in [Orders -> {"ready_for_collection", "completed"}]
  /\ carried \subseteq Orders
  /\ \A o \in Orders : codes[o] \in Seq(CodeRows) /\ Len(codes[o]) \in 1 .. MaxCodes
  /\ \A r \in Resends : resend[r].order \in Orders \cup {NoOrder}
  /\ \A d \in Desks : /\ desk[d].order \in Orders \cup {NoOrder}
                      /\ desk[d].at \in {"idle", "begun", "keyed", "accepted", "refused"}
  /\ keys \subseteq Orders
  /\ rules \in Seq(Rules) /\ Len(rules) <= MaxRules
  /\ DOMAIN entries \subseteq Orders \X Parties
  /\ \A e \in DOMAIN entries :
       entries[e] \in [amount : Nat, payout : Payouts, paidBy : Admins \cup {Nobody}]
  /\ \A a \in Admins : paying[a] \in DOMAIN entries \cup {NoEntry}

(* ConfirmIntakeService has shelved the parcels and issued a first code. *)
Init ==
  /\ status = [o \in Orders |-> "ready_for_collection"]
  /\ carried \in SUBSET Orders
  /\ codes = [o \in Orders |-> <<Fresh>>]
  /\ resend = [r \in Resends |-> IdleResend]
  /\ desk = [d \in Desks |-> IdleDesk]
  /\ keys = {}
  /\ rules = << >>
  /\ entries = [e \in {} |-> Entry(0, "pending")]
  /\ paying = [a \in Admins |-> NoEntry]

(* Open transactions; nobody waits for a connection with a time limit.     *)
Confirming == { d \in Desks : desk[d] # IdleDesk }
Busy == { r \in Resends : resend[r] # IdleResend } \cup Confirming
ConnectionFree == Cardinality(Busy) < PoolSize

-----------------------------------------------------------------------------
(* Codes. *)

Unused(o) == { c \in DOMAIN codes[o] : codes[o][c].state = "unused" }

(* ResendCollectionCodeService checks the status before its transaction;   *)
(* HandoffCodeIssuerService deletes the unused codes it can see and        *)
(* inserts its own, dated by the transaction's start ...                   *)
BeginResend(r, o) ==
  /\ resend[r] = IdleResend /\ status[o] = "ready_for_collection"
  /\ Len(codes[o]) < MaxCodes /\ ConnectionFree
  /\ codes' = [codes EXCEPT ![o] = Append(@, [Fresh EXCEPT !.state = "uncommitted"])]
  /\ resend' = [resend EXCEPT ![r] =
       [order |-> o, row |-> Len(codes[o]) + 1, gone |-> Unused(o)]]
  /\ UNCHANGED <<status, carried, desk, keys, rules, entries, paying>>

(* Mutant: the old codes are deleted over a connection of their own. *)
MayIssueOverAnother(r) == resend[r] # IdleResend /\ ConnectionFree

(* ... over its own connection, and commits; a code used in between is not *)
(* deleted.                                                                *)
MayIssue(r) == resend[r] # IdleResend

Issue(r) ==
  LET o == resend[r].order
      After(c) == IF c = resend[r].row THEN "unused"
                  ELSE IF c \in resend[r].gone \cap Unused(o) THEN "deleted"
                  ELSE codes[o][c].state IN
  /\ MayIssue(r)
  /\ codes' = [codes EXCEPT ![o] = [c \in DOMAIN @ |-> [@[c] EXCEPT !.state = After(c)]]]
  /\ resend' = [resend EXCEPT ![r] = IdleResend]
  /\ UNCHANGED <<status, carried, desk, keys, rules, entries, paying>>

(* Codes run out in the order they were issued. *)
Expire(o, c) ==
  /\ ~codes[o][c].expired
  /\ \A d \in 1 .. (c - 1) : codes[o][d].expired
  /\ codes' = [codes EXCEPT ![o][c].expired = TRUE]
  /\ UNCHANGED <<status, carried, resend, desk, keys, rules, entries, paying>>

-----------------------------------------------------------------------------
(* ConfirmCollectionService and HandoffCodeValidatorService. *)

Leave(d) == desk' = [desk EXCEPT ![d] = IdleDesk]

(* c is the code typed, 0 for one that never existed. *)
Present(d, o, c) ==
  /\ desk[d] = IdleDesk /\ ConnectionFree
  /\ desk' = [desk EXCEPT ![d] = [order |-> o, typed |-> c, row |-> 0, at |-> "begun"]]
  /\ UNCHANGED <<status, carried, codes, resend, keys, rules, entries, paying>>

Holders(o) == { d \in Desks : desk[d].order = o /\ desk[d].at # "begun" }

(* IdempotencyService: the insert of the key waits for an open             *)
(* confirmation of the same order; with the key committed, the request     *)
(* only reads the order again.                                             *)
MayTakeKey(d) == desk[d].at = "begun" /\ Holders(desk[d].order) = {}
TakeKey(d) ==
  /\ MayTakeKey(d)
  /\ desk' = [desk EXCEPT ![d] = IF @.order \in keys THEN IdleDesk ELSE [@ EXCEPT !.at = "keyed"]]
  /\ UNCHANGED <<status, carried, codes, resend, keys, rules, entries, paying>>

(* Mutant: the attempts are counted and never looked at. *)
ValidateUnlimited(d) ==
  LET o == desk[d].order
      latest == IF Unused(o) = {} THEN 0 ELSE Max(Unused(o))
      valid == latest # 0 /\ desk[d].typed = latest /\ ~codes[o][latest].expired
  IN  /\ desk[d].at = "keyed"
      /\ desk' = [desk EXCEPT ![d] = [order |-> o, typed |-> 0, row |-> latest,
                                      at |-> IF valid THEN "accepted" ELSE "refused"]]
      /\ UNCHANGED <<status, carried, codes, resend, keys, rules, entries, paying>>

Validate(d) ==
  LET o == desk[d].order
      latest == IF Unused(o) = {} THEN 0 ELSE Max(Unused(o))
      valid == /\ latest # 0 /\ desk[d].typed = latest
               /\ ~codes[o][latest].expired
               /\ codes[o][latest].failedAttempts < MaxAttempts
  IN  /\ desk[d].at = "keyed"
      /\ desk' = [desk EXCEPT ![d] = [order |-> o, typed |-> 0, row |-> latest,
                                      at |-> IF valid THEN "accepted" ELSE "refused"]]
      /\ UNCHANGED <<status, carried, codes, resend, keys, rules, entries, paying>>

(* The count is committed over a second connection; the transaction, key   *)
(* included, rolls back.                                                   *)
MayRefuse(d) == desk[d].at = "refused" /\ (desk[d].row # 0 => ConnectionFree)
Refuse(d) ==
  LET o == desk[d].order
      row == desk[d].row IN
  /\ MayRefuse(d)
  /\ codes' = IF row # 0 /\ codes[o][row].state # "deleted"
              THEN [codes EXCEPT ![o][row].failedAttempts = Min({@ + 1, MaxRefusals})] ELSE codes
  /\ Leave(d)
  /\ UNCHANGED <<status, carried, resend, keys, rules, entries, paying>>

(* Mutant: the courier's share is recorded like a rider's. *)
SharesAllPayable(o, rule) ==
  LET share == CalculateSplit(Amount - DestinationFee, rule)
      carrier == IF o \in carried THEN "courier_allocation" ELSE "rider" IN
  [e \in {o} \X {carrier, "node", "destination_node", "platform"} |->
     CASE e[2] = "node"             -> Entry(share.node, "pending")
       [] e[2] = "destination_node" -> Entry(DestinationFee, "pending")
       [] e[2] = "platform"         -> Entry(share.platform, "pending")
       [] OTHER                     -> Entry(share.rider, "pending")]

(* RecordRevenueSplitService: four entries, by the ruleset in effect. *)
Shares(o, rule) ==
  LET share == CalculateSplit(Amount - DestinationFee, rule)
      carrier == IF o \in carried THEN "courier_allocation" ELSE "rider" IN
  [e \in {o} \X {carrier, "node", "destination_node", "platform"} |->
     CASE e[2] = "node"               -> Entry(share.node, "pending")
       [] e[2] = "destination_node"   -> Entry(DestinationFee, "pending")
       [] e[2] = "platform"           -> Entry(share.platform, "pending")
       [] e[2] = "rider"              -> Entry(share.rider, "pending")
       [] e[2] = "courier_allocation" -> Entry(share.rider, "not_payable")]

(* The code is used, the order completes and the split is recorded, or     *)
(* nothing of it is: with no ruleset yet, record throws.                   *)
Complete(d) ==
  LET o == desk[d].order
      row == desk[d].row IN
  /\ desk[d].at = "accepted"
  /\ status[o] = "ready_for_collection" /\ rules # << >>
  /\ codes' = IF codes[o][row].state = "deleted" THEN codes
              ELSE [codes EXCEPT ![o][row].state = "used"]
  /\ status' = [status EXCEPT ![o] = "completed"]
  /\ LET new == Shares(o, rules[Len(rules)]) IN
     entries' = [e \in DOMAIN entries \cup DOMAIN new |->
                   IF e \in DOMAIN new THEN new[e] ELSE entries[e]]
  /\ keys' = keys \cup {o}
  /\ Leave(d)
  /\ UNCHANGED <<carried, resend, rules, paying>>

(* It threw, or the connection broke: rolled back. *)
Abandon(d) ==
  /\ desk[d] # IdleDesk
  /\ Leave(d)
  /\ UNCHANGED <<status, carried, codes, resend, keys, rules, entries, paying>>

-----------------------------------------------------------------------------
(* Admins. *)

CreateRule(rule) ==
  /\ Len(rules) < MaxRules
  /\ rules' = Append(rules, rule)
  /\ UNCHANGED <<status, carried, codes, resend, desk, keys, entries, paying>>

(* MarkRevenueSplitPaidService: read the entry, ... *)
ReadEntry(a, e) ==
  /\ paying[a] = NoEntry /\ entries[e].payout = "pending"
  /\ paying' = [paying EXCEPT ![a] = e]
  /\ UNCHANGED <<status, carried, codes, resend, desk, keys, rules, entries>>

(* ... then save it as paid, whatever happened to the row since. *)
SavePaid(a) ==
  /\ paying[a] # NoEntry
  /\ entries' = [entries EXCEPT ![paying[a]].payout = "paid", ![paying[a]].paidBy = a]
  /\ paying' = [paying EXCEPT ![a] = NoEntry]
  /\ UNCHANGED <<status, carried, codes, resend, desk, keys, rules>>

Next ==
  \/ \E o \in Orders :
       \/ \E r \in Resends : BeginResend(r, o)
       \/ \E c \in DOMAIN codes[o] : Expire(o, c)
       \/ \E d \in Desks, c \in 0 .. Len(codes[o]) : Present(d, o, c)
  \/ \E r \in Resends : Issue(r)
  \/ \E d \in Desks : TakeKey(d) \/ Validate(d) \/ Refuse(d) \/ Complete(d) \/ Abandon(d)
  \/ \E rule \in Rules : CreateRule(rule)
  \/ \E a \in Admins :
       \/ \E e \in DOMAIN entries : ReadEntry(a, e)
       \/ SavePaid(a)

Spec == Init /\ [][Next]_vars

-----------------------------------------------------------------------------
(* What must hold. *)

AmountOf(o, party) == IF <<o, party>> \in DOMAIN entries THEN entries[<<o, party>>].amount ELSE 0
Recorded(o) == AmountOf(o, "rider") + AmountOf(o, "courier_allocation") + AmountOf(o, "node")
               + AmountOf(o, "destination_node") + AmountOf(o, "platform")

OwnParties == {"node", "destination_node", "platform"}

(* The attempt counter is read under no lock and written by a transaction  *)
(* of its own; still, however wrong codes, resends and rollbacks of        *)
(* several desks interleave, a code that has been refused                  *)
(* MAX_HANDOFF_CODE_ATTEMPTS times never opens the shelf.                  *)
NoCodePastItsAttempts ==
  \A o \in Orders : \A c \in DOMAIN codes[o] :
    codes[o][c].state = "used" => codes[o][c].failedAttempts < MaxAttempts

(* A request that holds a connection and waits, for the key of its order   *)
(* or for a second connection, waits for one that can go on: the counters  *)
(* of a Node never come to a standstill on the pool, however many codes    *)
(* are resent meanwhile, as long as the confirmations in flight (a retyped *)
(* code makes two of one order) leave a connection of it.                  *)
GoesOn(d) == desk[d].at \in {"keyed", "accepted"} \/ MayTakeKey(d) \/ MayRefuse(d)
NoStandstill ==
  Cardinality(Confirming) < PoolSize /\ Busy # {} =>
    (\E r \in Resends : MayIssue(r)) \/ (\E d \in Desks : GoesOn(d))

(* "An order can't reach COMPLETED without its revenue split being         *)
(* recorded atomically alongside it" (confirm-collection.service.ts), and  *)
(* the split is exactly the amount the sender paid, whichever ruleset was  *)
(* in effect and however its percentages round.                            *)
CompletedMeansShared ==
  TypeOK /\ \A o \in Orders : Recorded(o) = (IF status[o] = "completed" THEN Amount ELSE 0)

(* What an external courier's order leaves of the rider's share is never   *)
(* paid out, and everybody else's share can be: no Admin, however their    *)
(* requests cross, marks a courier's allocation as paid.                   *)
CourierIsNotPaidOut ==
  \A e \in DOMAIN entries :
    entries[e].payout = "not_payable" <=> e[1] \in carried /\ e[2] \notin OwnParties
==============================================================================
