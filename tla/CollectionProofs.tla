--------------------------- MODULE CollectionProofs ---------------------------
(***************************************************************************)
(* Collection, for any number of orders, counters, requests and Admins,    *)
(* any rulesets and any price: a code is never used past its attempts, a   *)
(* completed order's split is exactly its amount, and an external courier  *)
(* is not paid out of it.  And Pricing, which sets the amount, for every   *)
(* rule and every distance.                                                *)
(***************************************************************************)
EXTENDS Collection, Pricing, FiniteSetTheorems, WellFoundedInduction, SequenceTheorems, TLAPS

DeskStates == [order : Orders \cup {NoOrder}, typed : Nat, row : Nat,
               at : {"idle", "begun", "keyed", "accepted", "refused"}]

CodesTyped ==
  /\ codes \in [Orders -> Seq(CodeRows)]
  /\ \A o \in Orders : Len(codes[o]) \in 1 .. MaxCodes
  /\ desk \in [Desks -> DeskStates]
  /\ \A d \in Desks : desk[d].at # "idle" => desk[d].order \in Orders
  /\ resend \in [Resends -> [order : Orders \cup {NoOrder}, row : Nat, gone : SUBSET Nat]]
  /\ \A r \in Resends : resend[r] # IdleResend => resend[r].order \in Orders

(* The idempotency key of an order is in one transaction's hands.          *)
Keyed == {"keyed", "accepted", "refused"}
OneHolder ==
  \A d, e \in Desks :
    desk[d].order = desk[e].order /\ desk[d].at \in Keyed /\ desk[e].at \in Keyed => d = e

(* What a transaction has read of its code stays true until it commits:    *)
(* an accepted code keeps its attempts, a refused one is not used.         *)
Judged ==
  \A d \in Desks :
    LET o == desk[d].order
        c == desk[d].row IN
    /\ desk[d].at = "accepted" => c \in DOMAIN codes[o] /\ codes[o][c].failedAttempts < MaxAttempts
    /\ desk[d].at = "refused" /\ c # 0 => c \in DOMAIN codes[o] /\ codes[o][c].state # "used"

CodeInv == CodesTyped /\ OneHolder /\ Judged /\ NoCodePastItsAttempts

-----------------------------------------------------------------------------
(* A bounded set of positions has a last one, so Max is a member. *)
LEMMA MaxIsIn ==
  ASSUME NEW n \in Nat, NEW S \in SUBSET (1 .. n), S # {}
  PROVE  Max(S) \in S
<1> DEFINE T == { n - x : x \in S }
<1>1. T \subseteq Nat /\ T # {}
  <2>1. \A x \in S : n - x \in Nat
    OBVIOUS
  <2>2. PICK x \in S : TRUE
    OBVIOUS
  <2> QED BY <2>1, <2>2
<1>2. \E m \in T : \A k \in T : ~(<<k, m>> \in OpToRel(<, Nat))
  <2> HIDE DEF T
  <2> QED BY <1>1, WFMin, NatLessThanWellFounded, Zenon
<1>3. PICK m \in T : \A k \in T : ~(<<k, m>> \in OpToRel(<, Nat))
  BY <1>2
<1>4. \A k \in T : ~(k < m)
  <2> HIDE DEF T
  <2> QED BY <1>1, <1>3, Zenon DEF OpToRel
<1>5. PICK x \in S : m = n - x
  OBVIOUS
<1>6. \A y \in S : x >= y
  BY <1>4, <1>5
<1> QED BY <1>6 DEF Max

(* What CHOOSE gives for the smaller of two numbers. *)
LEMMA MinOfTwo ==
  ASSUME NEW a \in Nat, NEW b \in Nat
  PROVE  Min({a, b}) \in 0 .. b
<1>1. \E x \in {a, b} : \A y \in {a, b} : x =< y
  OBVIOUS
<1>2. Min({a, b}) \in {a, b} /\ \A y \in {a, b} : Min({a, b}) =< y
  BY <1>1 DEF Min
<1> QED BY <1>2

(* The latest unused code is one of the order's, and unused. *)
LEMMA LatestIsUnused ==
  ASSUME CodesTyped, NEW o \in Orders, Unused(o) # {}
  PROVE  Max(Unused(o)) \in DOMAIN codes[o] /\ codes[o][Max(Unused(o))].state = "unused"
<1>1. Len(codes[o]) \in Nat /\ DOMAIN codes[o] = 1 .. Len(codes[o])
  BY DEF CodesTyped
<1>2. Unused(o) \in SUBSET (1 .. Len(codes[o]))
  BY <1>1 DEF Unused
<1>3. Max(Unused(o)) \in Unused(o)
  BY <1>1, <1>2, MaxIsIn
<1> QED BY <1>3 DEF Unused

-----------------------------------------------------------------------------
LEMMA CodeInit == Init => CodeInv
<1> SUFFICES ASSUME Init PROVE CodeInv
  OBVIOUS
<1>1. Fresh \in CodeRows
  BY CollectionAssumption DEF Fresh, CodeRows
<1>2. codes \in [Orders -> Seq(CodeRows)] /\ \A o \in Orders : Len(codes[o]) = 1
  BY <1>1 DEF Init
<1>3. desk \in [Desks -> DeskStates] /\ \A d \in Desks : desk[d].at = "idle"
  BY DEF Init, IdleDesk, DeskStates
<1>4. /\ resend \in [Resends -> [order : Orders \cup {NoOrder}, row : Nat, gone : SUBSET Nat]]
      /\ \A r \in Resends : resend[r] = IdleResend
  BY DEF Init, IdleResend
<1>5. CodesTyped
  <2>1. 1 \in 1 .. MaxCodes
    BY CollectionAssumption
  <2> QED BY <1>2, <1>3, <1>4, <2>1 DEF CodesTyped
<1>6. OneHolder /\ Judged
  BY <1>3 DEF OneHolder, Judged, Keyed
<1>7. NoCodePastItsAttempts
  BY DEF Init, NoCodePastItsAttempts, Fresh
<1> QED BY <1>5, <1>6, <1>7 DEF CodeInv

(* Codes may be added and deleted and may expire, as long as none becomes  *)
(* used and none loses or gains attempts.                                  *)
NothingUsed(before, after) ==
  /\ DOMAIN before \subseteq DOMAIN after
  /\ \A c \in DOMAIN after : after[c].state = "used" => c \in DOMAIN before /\ before[c].state = "used"
  /\ \A c \in DOMAIN before : after[c].failedAttempts = before[c].failedAttempts

LEMMA CodesMayChange ==
  ASSUME CodeInv, CodesTyped', desk' = desk, NEW o \in Orders, NEW s,
         codes' = [codes EXCEPT ![o] = s], NothingUsed(codes[o], s)
  PROVE  CodeInv'
<1>1. \A p \in Orders : codes'[p] = IF p = o THEN s ELSE codes[p]
  BY DEF CodeInv, CodesTyped
<1>2. OneHolder'
  BY DEF CodeInv, OneHolder
<1>3. Judged'
  <2> SUFFICES ASSUME NEW d \in Desks
               PROVE  /\ desk[d].at = "accepted" =>
                           /\ desk[d].row \in DOMAIN codes'[desk[d].order]
                           /\ codes'[desk[d].order][desk[d].row].failedAttempts < MaxAttempts
                      /\ desk[d].at = "refused" /\ desk[d].row # 0 =>
                           /\ desk[d].row \in DOMAIN codes'[desk[d].order]
                           /\ codes'[desk[d].order][desk[d].row].state # "used"
    BY DEF Judged
  <2>1. desk[d].at \in {"accepted", "refused"} => desk[d].order \in Orders
    BY DEF CodeInv, CodesTyped
  <2> QED BY <1>1, <2>1 DEF CodeInv, Judged, NothingUsed
<1>4. NoCodePastItsAttempts'
  BY <1>1 DEF CodeInv, NoCodePastItsAttempts, NothingUsed
<1> QED BY <1>2, <1>3, <1>4 DEF CodeInv

LEMMA RowsRewritten ==
  ASSUME NEW before \in Seq(CodeRows), NEW after,
         DOMAIN after = DOMAIN before, after = [c \in DOMAIN after |-> after[c]],
         \A c \in DOMAIN before : /\ after[c] \in CodeRows /\ after[c].failedAttempts = before[c].failedAttempts
                                  /\ after[c].state = "used" => before[c].state = "used"
  PROVE  after \in Seq(CodeRows) /\ Len(after) = Len(before) /\ NothingUsed(before, after)
<1>1. Len(before) \in Nat /\ DOMAIN before = 1 .. Len(before)
  OBVIOUS
<1>2. after \in [1 .. Len(before) -> CodeRows]
  BY <1>1
<1>3. after \in Seq(CodeRows) /\ Len(after) = Len(before)
  BY <1>1, <1>2
<1>4. NothingUsed(before, after)
  BY DEF NothingUsed
<1> QED BY <1>3, <1>4

LEMMA BeginResendStep ==
  ASSUME CodeInv, NEW r \in Resends, NEW o \in Orders, BeginResend(r, o)
  PROVE  CodeInv'
<1> DEFINE new == [Fresh EXCEPT !.state = "uncommitted"]
           s == Append(codes[o], new)
<1>1. new \in CodeRows /\ new.state = "uncommitted"
  <2>1. Fresh \in CodeRows
    BY CollectionAssumption DEF Fresh, CodeRows
  <2> QED BY <2>1 DEF CodeRows
<1>2. codes[o] \in Seq(CodeRows) /\ Len(codes[o]) \in 1 .. MaxCodes /\ Len(codes[o]) < MaxCodes
  BY DEF CodeInv, CodesTyped, BeginResend
<1>3. codes' = [codes EXCEPT ![o] = s] /\ desk' = desk
  BY DEF BeginResend
<1> HIDE DEF new
<1>4. /\ s \in Seq(CodeRows) /\ Len(s) = Len(codes[o]) + 1 /\ DOMAIN s = 1 .. Len(codes[o]) + 1
      /\ DOMAIN codes[o] = 1 .. Len(codes[o])
      /\ \A c \in DOMAIN codes[o] : s[c] = codes[o][c]
      /\ s[Len(codes[o]) + 1] = new
  BY <1>1, <1>2
<1>5. /\ resend' \in [Resends -> [order : Orders \cup {NoOrder}, row : Nat, gone : SUBSET Nat]]
      /\ \A q \in Resends : resend'[q] # IdleResend => resend'[q].order \in Orders
  <2>1. Unused(o) \in SUBSET Nat
    BY <1>2 DEF Unused
  <2>2. Len(codes[o]) + 1 \in Nat
    BY <1>2
  <2> QED BY <2>1, <2>2 DEF BeginResend, CodeInv, CodesTyped
<1> HIDE DEF s
<1>6. /\ codes' \in [Orders -> Seq(CodeRows)]
      /\ \A p \in Orders : Len(codes'[p]) \in 1 .. MaxCodes
  BY <1>2, <1>3, <1>4, CollectionAssumption DEF CodeInv, CodesTyped
<1>7. CodesTyped'
  BY <1>3, <1>5, <1>6 DEF CodeInv, CodesTyped
<1>8. NothingUsed(codes[o], s)
  BY <1>1, <1>2, <1>4 DEF NothingUsed
<1> QED BY <1>3, <1>7, <1>8, CodesMayChange

LEMMA IssueStep ==
  ASSUME CodeInv, NEW r \in Resends, Issue(r)
  PROVE  CodeInv'
<1> DEFINE o == resend[r].order
           After(c) == IF c = resend[r].row THEN "unused"
                       ELSE IF c \in resend[r].gone \cap Unused(o) THEN "deleted"
                       ELSE codes[o][c].state
           NewRow(c) == [codes[o][c] EXCEPT !.state = After(c)]
           s == [c \in DOMAIN codes[o] |-> NewRow(c)]
<1>1. o \in Orders
  BY DEF Issue, MayIssue, CodeInv, CodesTyped
<1>2. codes[o] \in Seq(CodeRows) /\ Len(codes[o]) \in 1 .. MaxCodes /\ DOMAIN codes[o] = 1 .. Len(codes[o])
  BY <1>1 DEF CodeInv, CodesTyped
<1>3. codes' = [codes EXCEPT ![o] = s] /\ desk' = desk /\ resend' = [resend EXCEPT ![r] = IdleResend]
  BY <1>1 DEF Issue, MayIssue, CodeInv, CodesTyped
<1>4. \A c \in DOMAIN codes[o] : codes[o][c] \in CodeRows
  BY <1>2
<1>5. \A c \in DOMAIN codes[o] : After(c) \in {"uncommitted", "unused", "used", "deleted"}
  BY <1>4 DEF CodeRows
<1>6. \A c \in DOMAIN codes[o] : /\ s[c] \in CodeRows /\ s[c].failedAttempts = codes[o][c].failedAttempts
                                 /\ s[c].state = "used" => codes[o][c].state = "used"
  BY <1>4, <1>5 DEF CodeRows
<1>7. DOMAIN s = DOMAIN codes[o] /\ s = [c \in DOMAIN s |-> s[c]]
  OBVIOUS
<1> HIDE DEF s, o
<1>9. s \in Seq(CodeRows) /\ Len(s) = Len(codes[o]) /\ NothingUsed(codes[o], s)
  BY <1>2, <1>6, <1>7, RowsRewritten
<1>8. CodesTyped'
  <2>1. codes' \in [Orders -> Seq(CodeRows)] /\ \A p \in Orders : Len(codes'[p]) \in 1 .. MaxCodes
    BY <1>1, <1>2, <1>3, <1>9 DEF CodeInv, CodesTyped
  <2>2. /\ resend' \in [Resends -> [order : Orders \cup {NoOrder}, row : Nat, gone : SUBSET Nat]]
        /\ \A q \in Resends : resend'[q] # IdleResend => resend'[q].order \in Orders
    BY <1>3 DEF CodeInv, CodesTyped, IdleResend
  <2> QED BY <1>3, <2>1, <2>2 DEF CodeInv, CodesTyped
<1> QED BY <1>1, <1>3, <1>8, <1>9, CodesMayChange

LEMMA ExpireStep ==
  ASSUME CodeInv, NEW o \in Orders, NEW c \in DOMAIN codes[o], Expire(o, c)
  PROVE  CodeInv'
<1> DEFINE s == [codes[o] EXCEPT ![c] = [codes[o][c] EXCEPT !.expired = TRUE]]
<1>1. codes[o] \in Seq(CodeRows) /\ Len(codes[o]) \in 1 .. MaxCodes /\ DOMAIN codes[o] = 1 .. Len(codes[o])
  BY DEF CodeInv, CodesTyped
<1>2. codes' = [codes EXCEPT ![o] = s] /\ desk' = desk /\ resend' = resend
  BY DEF Expire
<1>3. codes[o][c] \in CodeRows
  BY <1>1
<1>4. [codes[o][c] EXCEPT !.expired = TRUE] \in CodeRows
  BY <1>3 DEF CodeRows
<1>5. s \in Seq(CodeRows) /\ Len(s) = Len(codes[o]) /\ DOMAIN s = DOMAIN codes[o]
  BY <1>1, <1>4
<1>6. \A d \in DOMAIN codes[o] : s[d].state = codes[o][d].state /\ s[d].failedAttempts = codes[o][d].failedAttempts
  BY <1>1, <1>3 DEF CodeRows
<1> HIDE DEF s
<1>7. CodesTyped'
  <2>1. codes' \in [Orders -> Seq(CodeRows)] /\ \A p \in Orders : Len(codes'[p]) \in 1 .. MaxCodes
    BY <1>1, <1>2, <1>5 DEF CodeInv, CodesTyped
  <2> QED BY <1>2, <2>1 DEF CodeInv, CodesTyped
<1>8. NothingUsed(codes[o], s)
  BY <1>5, <1>6 DEF NothingUsed
<1> QED BY <1>2, <1>7, <1>8, CodesMayChange

-----------------------------------------------------------------------------
(* A desk may move on as long as it takes no key another one holds and     *)
(* judges the codes by what they are.                                      *)
LEMMA DeskMovesOn ==
  ASSUME CodeInv, NEW d \in Desks, NEW s \in DeskStates,
         desk' = [desk EXCEPT ![d] = s], codes' = codes, resend' = resend,
         s.at # "idle" => s.order \in Orders,
         s.at \in Keyed => \A e \in Desks : desk[e].order = s.order /\ desk[e].at \in Keyed => e = d,
         s.at = "accepted" => s.row \in DOMAIN codes[s.order] /\ codes[s.order][s.row].failedAttempts < MaxAttempts,
         s.at = "refused" /\ s.row # 0 => s.row \in DOMAIN codes[s.order] /\ codes[s.order][s.row].state # "used"
  PROVE  CodeInv'
<1>1. desk' \in [Desks -> DeskStates] /\ \A e \in Desks : desk'[e] = IF e = d THEN s ELSE desk[e]
  BY DEF CodeInv, CodesTyped
<1>2. CodesTyped'
  BY <1>1 DEF CodeInv, CodesTyped
<1>3. OneHolder'
  BY <1>1 DEF CodeInv, OneHolder
<1>4. Judged'
  BY <1>1 DEF CodeInv, Judged
<1>5. NoCodePastItsAttempts'
  BY DEF CodeInv, NoCodePastItsAttempts
<1> QED BY <1>2, <1>3, <1>4, <1>5 DEF CodeInv

LEMMA DeskLeaves ==
  ASSUME CodeInv, NEW d \in Desks, Leave(d), codes' = codes, resend' = resend
  PROVE  CodeInv'
<1>1. IdleDesk \in DeskStates /\ IdleDesk.at = "idle"
  BY DEF IdleDesk, DeskStates
<1>2. desk' = [desk EXCEPT ![d] = IdleDesk]
  BY DEF Leave
<1> QED BY <1>1, <1>2, DeskMovesOn DEF Keyed

LEMMA PresentStep ==
  ASSUME CodeInv, NEW d \in Desks, NEW o \in Orders, NEW c \in 0 .. Len(codes[o]), Present(d, o, c)
  PROVE  CodeInv'
<1> DEFINE s == [order |-> o, typed |-> c, row |-> 0, at |-> "begun"]
<1>1. s \in DeskStates /\ s.at = "begun" /\ s.order \in Orders
  <2>1. c \in Nat
    BY DEF CodeInv, CodesTyped
  <2> QED BY <2>1 DEF DeskStates
<1>2. desk' = [desk EXCEPT ![d] = s] /\ codes' = codes /\ resend' = resend
  BY DEF Present
<1> HIDE DEF s
<1> QED BY <1>1, <1>2, DeskMovesOn DEF Keyed

LEMMA TakeKeyStep ==
  ASSUME CodeInv, NEW d \in Desks, TakeKey(d)
  PROVE  CodeInv'
<1>1. desk[d] \in DeskStates /\ desk[d].order \in Orders /\ desk[d].at = "begun" /\ codes' = codes /\ resend' = resend
  BY DEF TakeKey, MayTakeKey, CodeInv, CodesTyped
<1>2. CASE desk[d].order \in keys
  <2>1. Leave(d)
    BY <1>2 DEF TakeKey, MayTakeKey, Leave, CodeInv, CodesTyped
  <2> QED BY <1>1, <2>1, DeskLeaves
<1>3. CASE desk[d].order \notin keys
  <2> DEFINE s == [desk[d] EXCEPT !.at = "keyed"]
  <2>1. s \in DeskStates /\ s.at = "keyed" /\ s.order = desk[d].order
    BY <1>1 DEF DeskStates
  <2>2. desk' = [desk EXCEPT ![d] = s]
    BY <1>3 DEF TakeKey, MayTakeKey, CodeInv, CodesTyped
  <2>3. \A e \in Desks : ~(desk[e].order = s.order /\ desk[e].at \in Keyed)
    BY <2>1 DEF TakeKey, MayTakeKey, Holders, Keyed
  <2> HIDE DEF s
  <2> QED BY <1>1, <2>1, <2>2, <2>3, DeskMovesOn
<1> QED BY <1>2, <1>3

LEMMA ValidateStep ==
  ASSUME CodeInv, NEW d \in Desks, Validate(d)
  PROVE  CodeInv'
<1> DEFINE o == desk[d].order
           latest == IF Unused(o) = {} THEN 0 ELSE Max(Unused(o))
           valid == /\ latest # 0 /\ desk[d].typed = latest
                    /\ ~codes[o][latest].expired
                    /\ codes[o][latest].failedAttempts < MaxAttempts
           s == [order |-> o, typed |-> 0, row |-> latest,
                 at |-> IF valid THEN "accepted" ELSE "refused"]
<1>1. desk[d] \in DeskStates /\ o \in Orders /\ desk[d].at = "keyed" /\ codes' = codes /\ resend' = resend
  BY DEF Validate, CodeInv, CodesTyped
<1>2. latest # 0 => latest \in DOMAIN codes[o] /\ codes[o][latest].state = "unused"
  BY <1>1, LatestIsUnused DEF CodeInv
<1>3. latest \in Nat
  <2>1. DOMAIN codes[o] = 1 .. Len(codes[o]) /\ Len(codes[o]) \in Nat
    BY <1>1 DEF CodeInv, CodesTyped
  <2> HIDE DEF latest
  <2> QED BY <1>2, <2>1
<1>4. desk' = [desk EXCEPT ![d] = s]
  BY DEF Validate
<1> HIDE DEF latest
<1>5. s \in DeskStates /\ s.order = o /\ s.row = latest
  BY <1>1, <1>3 DEF DeskStates
<1>6. /\ s.at \in {"accepted", "refused"}
      /\ s.at = "accepted" => latest # 0 /\ codes[o][latest].failedAttempts < MaxAttempts
  OBVIOUS
<1>7. \A e \in Desks : desk[e].order = o /\ desk[e].at \in Keyed => e = d
  BY <1>1 DEF CodeInv, OneHolder, Keyed
<1> HIDE DEF s, o, valid
<1> QED BY <1>1, <1>2, <1>4, <1>5, <1>6, <1>7, DeskMovesOn

(* A desk that judged a code leaves, and the code with it changes: no      *)
(* other desk has judged a code of that order.                             *)
LEMMA DeskActs ==
  ASSUME CodeInv, NEW d \in Desks, desk[d].at \in Keyed, Leave(d), resend' = resend,
         NEW c \in DOMAIN codes[desk[d].order], NEW row \in CodeRows,
         codes' = [codes EXCEPT ![desk[d].order] = [@ EXCEPT ![c] = row]],
         row.state = "used" => row.failedAttempts < MaxAttempts
  PROVE  CodeInv'
<1> DEFINE o == desk[d].order
           s == [codes[o] EXCEPT ![c] = row]
<1>1. o \in Orders
  BY DEF CodeInv, CodesTyped, Keyed
<1>2. codes[o] \in Seq(CodeRows) /\ Len(codes[o]) \in 1 .. MaxCodes
  BY <1>1 DEF CodeInv, CodesTyped
<1>3. /\ s \in Seq(CodeRows) /\ Len(s) = Len(codes[o]) /\ DOMAIN s = DOMAIN codes[o]
      /\ \A k \in DOMAIN s : s[k] = IF k = c THEN row ELSE codes[o][k]
  BY <1>2
<1>4. codes' = [codes EXCEPT ![o] = s]
  OBVIOUS
<1>5. desk' \in [Desks -> DeskStates] /\ \A e \in Desks : desk'[e] = IF e = d THEN IdleDesk ELSE desk[e]
  BY DEF Leave, CodeInv, CodesTyped, IdleDesk, DeskStates
<1>6. IdleDesk.at = "idle"
  BY DEF IdleDesk
<1> HIDE DEF s
<1>7. codes' \in [Orders -> Seq(CodeRows)] /\ \A p \in Orders : codes'[p] = IF p = o THEN s ELSE codes[p]
  BY <1>1, <1>3, <1>4 DEF CodeInv, CodesTyped
<1>8. CodesTyped'
  BY <1>2, <1>3, <1>5, <1>6, <1>7 DEF CodeInv, CodesTyped
<1>9. OneHolder'
  BY <1>5, <1>6 DEF CodeInv, OneHolder, Keyed
<1>10. \A e \in Desks : e # d /\ desk[e].at \in Keyed => desk[e].order # o /\ desk[e].order \in Orders
  BY DEF CodeInv, CodesTyped, OneHolder, Keyed
<1>11. Judged'
  BY <1>5, <1>6, <1>7, <1>10 DEF CodeInv, Judged, Keyed
<1>12. NoCodePastItsAttempts'
  BY <1>3, <1>7 DEF CodeInv, NoCodePastItsAttempts
<1> QED BY <1>8, <1>9, <1>11, <1>12 DEF CodeInv

LEMMA RefuseStep ==
  ASSUME CodeInv, NEW d \in Desks, Refuse(d)
  PROVE  CodeInv'
<1> DEFINE o == desk[d].order
           c == desk[d].row
<1>1. desk[d].at = "refused" /\ Leave(d) /\ resend' = resend /\ o \in Orders
  BY DEF Refuse, MayRefuse, CodeInv, CodesTyped
<1>2. CASE codes' = codes
  BY <1>1, <1>2, DeskLeaves
<1>3. CASE c # 0 /\ codes[o][c].state # "deleted"
  <2> DEFINE n == Min({codes[o][c].failedAttempts + 1, MaxRefusals})
             row == [codes[o][c] EXCEPT !.failedAttempts = n]
  <2>1. c \in DOMAIN codes[o] /\ codes[o][c].state # "used"
    BY <1>1, <1>3 DEF CodeInv, Judged
  <2>2. codes[o][c] \in CodeRows
    BY <1>1, <2>1 DEF CodeInv, CodesTyped
  <2>3. n \in 0 .. MaxRefusals
    <3>1. codes[o][c].failedAttempts + 1 \in Nat /\ MaxRefusals \in Nat
      BY <2>2, CollectionAssumption DEF CodeRows
    <3> QED BY <3>1, MinOfTwo
  <2>4. codes' = [codes EXCEPT ![o] = [@ EXCEPT ![c] = row]]
    BY <1>3 DEF Refuse, MayRefuse
  <2> HIDE DEF n
  <2>5. row \in CodeRows /\ row.state # "used"
    BY <2>1, <2>2, <2>3 DEF CodeRows
  <2> HIDE DEF row
  <2> QED BY <1>1, <2>1, <2>4, <2>5, DeskActs DEF Keyed
<1> QED BY <1>2, <1>3 DEF Refuse, MayRefuse

LEMMA CompleteStep ==
  ASSUME CodeInv, NEW d \in Desks, Complete(d)
  PROVE  CodeInv'
<1> DEFINE o == desk[d].order
           c == desk[d].row
           row == [codes[o][c] EXCEPT !.state = "used"]
<1>1. desk[d].at = "accepted" /\ Leave(d) /\ resend' = resend /\ o \in Orders
  BY DEF Complete, CodeInv, CodesTyped
<1>2. CASE codes' = codes
  BY <1>1, <1>2, DeskLeaves
<1>3. CASE codes[o][c].state # "deleted"
  <2>1. c \in DOMAIN codes[o] /\ codes[o][c].failedAttempts < MaxAttempts
    BY <1>1 DEF CodeInv, Judged
  <2>2. codes[o][c] \in CodeRows
    BY <1>1, <2>1 DEF CodeInv, CodesTyped
  <2>3. codes' = [codes EXCEPT ![o] = [@ EXCEPT ![c] = row]]
    BY <1>3 DEF Complete
  <2>4. row \in CodeRows /\ row.failedAttempts < MaxAttempts
    BY <2>1, <2>2 DEF CodeRows
  <2> HIDE DEF row
  <2> QED BY <1>1, <2>1, <2>3, <2>4, DeskActs DEF Keyed
<1> QED BY <1>2, <1>3 DEF Complete

LEMMA CodeStep == CodeInv /\ [Next]_vars => CodeInv'
<1> SUFFICES ASSUME CodeInv, [Next]_vars PROVE CodeInv'
  OBVIOUS
<1>1. ASSUME UNCHANGED <<codes, desk, resend>> PROVE CodeInv'
  BY <1>1 DEF CodeInv, CodesTyped, OneHolder, Judged, NoCodePastItsAttempts
<1>2. ASSUME NEW o \in Orders, NEW r \in Resends, BeginResend(r, o) PROVE CodeInv'
  BY <1>2, BeginResendStep
<1>3. ASSUME NEW o \in Orders, NEW c \in DOMAIN codes[o], Expire(o, c) PROVE CodeInv'
  BY <1>3, ExpireStep
<1>4. ASSUME NEW o \in Orders, NEW d \in Desks, NEW c \in 0 .. Len(codes[o]), Present(d, o, c) PROVE CodeInv'
  BY <1>4, PresentStep
<1>5. ASSUME NEW r \in Resends, Issue(r) PROVE CodeInv'
  BY <1>5, IssueStep
<1>6. ASSUME NEW d \in Desks, TakeKey(d) \/ Validate(d) \/ Refuse(d) \/ Complete(d) PROVE CodeInv'
  BY <1>6, TakeKeyStep, ValidateStep, RefuseStep, CompleteStep
<1>7. ASSUME NEW d \in Desks, Abandon(d) PROVE CodeInv'
  BY <1>7, DeskLeaves DEF Abandon
<1>8. ASSUME NEW rule \in Rules, CreateRule(rule) PROVE CodeInv'
  BY <1>8, <1>1 DEF CreateRule
<1>9. ASSUME NEW a \in Admins, SavePaid(a) \/ \E e \in DOMAIN entries : ReadEntry(a, e) PROVE CodeInv'
  BY <1>9, <1>1 DEF SavePaid, ReadEntry
<1>10. CASE UNCHANGED vars
  BY <1>10, <1>1 DEF vars
<1> QED BY <1>2, <1>3, <1>4, <1>5, <1>6, <1>7, <1>8, <1>9, <1>10 DEF Next

(* The attempts are counted by transactions of their own and read without  *)
(* a lock (handoff-code-validator.service.ts); still, for any number of    *)
(* desks, resends and refusals, a code refused MAX_HANDOFF_CODE_ATTEMPTS   *)
(* times never opens the shelf.                                            *)
THEOREM AttemptsAreLimited == Spec => []NoCodePastItsAttempts
<1>1. CodeInv => NoCodePastItsAttempts
  BY DEF CodeInv
<1> QED BY <1>1, CodeInit, CodeStep, PTL DEF Spec

-----------------------------------------------------------------------------
(* Rounding never takes more than there is, so the platform's remainder is *)
(* an amount, and the three shares are the whole.                          *)
LEMMA SharesAreParts ==
  ASSUME NEW amount \in Nat, NEW rule, IsRule(rule)
  PROVE  LET split == CalculateSplit(amount, rule) IN
         /\ split.rider \in Nat /\ split.node \in Nat /\ split.platform \in Nat
         /\ split.rider + split.node + split.platform = amount
<1> DEFINE rider == rule.rider
           node == rule.node
           platform == rule.platform
<1>1. rider \in 0 .. 100 /\ node \in 0 .. 100 /\ platform \in 0 .. 100 /\ rider + node + platform = 100
  BY DEF IsRule, Percent
<1>2. \A p, q \in Nat : p + q <= 100 =>
        /\ Share(amount, p) \in Nat /\ Share(amount, q) \in Nat
        /\ Share(amount, p) + Share(amount, q) <= amount
  <2> SUFFICES ASSUME NEW p \in Nat, NEW q \in Nat, p + q <= 100
               PROVE  /\ Share(amount, p) \in Nat /\ Share(amount, q) \in Nat
                      /\ Share(amount, p) + Share(amount, q) <= amount
    OBVIOUS
  <2> DEFINE x == amount * p
             y == amount * q
  <2>1. x \in Nat /\ y \in Nat /\ x + y <= 100 * amount
    <3>1. x + y = amount * (p + q) /\ amount * (p + q) <= amount * 100
      OBVIOUS
    <3> QED BY <3>1
  <2>2. Share(amount, p) = x \div 100 /\ Share(amount, q) = y \div 100
    BY DEF Share
  <2> HIDE DEF x, y
  <2>3. x \div 100 \in Nat /\ y \div 100 \in Nat /\ (x \div 100) + (y \div 100) <= amount
    BY <2>1
  <2> QED BY <2>2, <2>3
<1>3. CalculateSplit(amount, rule) =
        [rider |-> Share(amount, rider), node |-> Share(amount, node),
         platform |-> amount - Share(amount, rider) - Share(amount, node)]
  BY DEF CalculateSplit
<1> HIDE DEF rider, node, platform
<1>4. rider \in Nat /\ node \in Nat /\ rider + node <= 100
  BY <1>1
<1>5. /\ Share(amount, rider) \in Nat /\ Share(amount, node) \in Nat
      /\ Share(amount, rider) + Share(amount, node) <= amount
  BY <1>2, <1>4
<1> QED BY <1>3, <1>5

-----------------------------------------------------------------------------
(* The entries of an order are written once, with its completion. *)

Carrier(o) == IF o \in carried THEN "courier_allocation" ELSE "rider"
OtherCarrier(o) == IF o \in carried THEN "rider" ELSE "courier_allocation"

EntriesTyped ==
  /\ DOMAIN entries \subseteq Orders \X Parties
  /\ entries = [e \in DOMAIN entries |-> entries[e]]
  /\ \A e \in DOMAIN entries :
       entries[e] \in [amount : Nat, payout : Payouts, paidBy : Admins \cup {Nobody}]

SplitTyped ==
  /\ status \in [Orders -> {"ready_for_collection", "completed"}]
  /\ rules \in Seq(Rules) /\ Len(rules) <= MaxRules
  /\ carried \subseteq Orders /\ keys \subseteq Orders
  /\ EntriesTyped
  /\ paying \in [Admins -> DOMAIN entries \cup {NoEntry}]

(* An entry some Admin has found pending may be paid.                      *)
PayableFound ==
  \A a \in Admins : paying[a] # NoEntry =>
    ~(paying[a][1] \in carried /\ paying[a][2] \notin OwnParties)

NoneBeforeCompletion ==
  \A o \in Orders : status[o] = "ready_for_collection" => \A p \in Parties : <<o, p>> \notin DOMAIN entries

Balanced == \A o \in Orders : Recorded(o) = (IF status[o] = "completed" THEN Amount ELSE 0)

SplitInv ==
  /\ CodeInv /\ SplitTyped
  /\ NoneBeforeCompletion /\ Balanced
  /\ CourierIsNotPaidOut /\ PayableFound

LEMMA SplitInit == Init => SplitInv
<1> SUFFICES ASSUME Init PROVE SplitInv
  OBVIOUS
<1>1. DOMAIN entries = {} /\ \A o \in Orders : status[o] = "ready_for_collection"
  BY DEF Init
<1>2. SplitTyped
  <2>1. rules \in Seq(Rules) /\ Len(rules) = 0
    BY DEF Init
  <2>2. EntriesTyped
    BY <1>1 DEF Init, EntriesTyped
  <2> QED BY <2>1, <2>2, CollectionAssumption DEF Init, SplitTyped
<1>3. NoneBeforeCompletion /\ CourierIsNotPaidOut /\ PayableFound
  BY <1>1 DEF NoneBeforeCompletion, CourierIsNotPaidOut, PayableFound, Init
<1>4. Balanced
  BY <1>1 DEF Balanced, Recorded, AmountOf
<1> QED BY <1>2, <1>3, <1>4, CodeInit DEF SplitInv

LEMMA SplitKept ==
  ASSUME SplitInv, CodeInv', UNCHANGED <<status, carried, keys, entries, paying>>,
         rules' \in Seq(Rules), Len(rules') <= MaxRules
  PROVE  SplitInv'
<1>1. SplitTyped'
  BY DEF SplitInv, SplitTyped, EntriesTyped
<1>2. NoneBeforeCompletion' /\ CourierIsNotPaidOut' /\ PayableFound'
  BY DEF SplitInv, NoneBeforeCompletion, CourierIsNotPaidOut, PayableFound
<1>3. Balanced'
  BY DEF SplitInv, Balanced, Recorded, AmountOf
<1> QED BY <1>1, <1>2, <1>3 DEF SplitInv

LEMMA ReadEntryStep ==
  ASSUME SplitInv, CodeInv', NEW a \in Admins, NEW e \in DOMAIN entries, ReadEntry(a, e)
  PROVE  SplitInv'
<1>1. \A b \in Admins : paying'[b] = IF b = a THEN e ELSE paying[b]
  BY DEF ReadEntry, SplitInv, SplitTyped
<1>2. entries[e].payout # "not_payable"
  BY DEF ReadEntry
<1>3. SplitTyped'
  BY DEF ReadEntry, SplitInv, SplitTyped, EntriesTyped
<1>4. PayableFound'
  BY <1>1, <1>2 DEF ReadEntry, SplitInv, PayableFound, CourierIsNotPaidOut
<1>5. NoneBeforeCompletion' /\ CourierIsNotPaidOut'
  BY DEF ReadEntry, SplitInv, NoneBeforeCompletion, CourierIsNotPaidOut
<1>6. Balanced'
  BY DEF ReadEntry, SplitInv, Balanced, Recorded, AmountOf
<1> QED BY <1>3, <1>4, <1>5, <1>6 DEF SplitInv

LEMMA SavePaidStep ==
  ASSUME SplitInv, CodeInv', NEW a \in Admins, SavePaid(a)
  PROVE  SplitInv'
<1> PICK e \in DOMAIN entries : e = paying[a]
  BY DEF SavePaid, SplitInv, SplitTyped
<1>1. entries[e] \in [amount : Nat, payout : Payouts, paidBy : Admins \cup {Nobody}]
  BY DEF SplitInv, SplitTyped, EntriesTyped
<1>2. entries' = [entries EXCEPT ![e].payout = "paid", ![e].paidBy = a]
  BY DEF SavePaid
<1>3. /\ DOMAIN entries' = DOMAIN entries
      /\ entries' = [f \in DOMAIN entries' |-> entries'[f]]
      /\ \A f \in DOMAIN entries : f # e => entries'[f] = entries[f]
  BY <1>2 DEF SplitInv, SplitTyped, EntriesTyped
<1>4. entries'[e] = [amount |-> entries[e].amount, payout |-> "paid", paidBy |-> a]
  BY <1>1, <1>2 DEF SplitInv, SplitTyped, EntriesTyped
<1>5. /\ \A f \in DOMAIN entries : entries'[f].amount = entries[f].amount
      /\ entries'[e].payout = "paid"
  BY <1>3, <1>4
<1>6. EntriesTyped'
  <2>1. entries'[e] \in [amount : Nat, payout : Payouts, paidBy : Admins \cup {Nobody}]
    BY <1>1, <1>4 DEF Payouts
  <2> QED BY <1>3, <2>1 DEF SplitInv, SplitTyped, EntriesTyped
<1>7. SplitTyped'
  <2>1. paying' \in [Admins -> DOMAIN entries \cup {NoEntry}]
    BY DEF SavePaid, SplitInv, SplitTyped
  <2>2. UNCHANGED <<status, carried, keys, rules>>
    BY DEF SavePaid
  <2> QED BY <1>3, <1>6, <2>1, <2>2 DEF SplitInv, SplitTyped
<1>8. NoneBeforeCompletion' /\ PayableFound'
  <2>1. \A b \in Admins : paying'[b] = IF b = a THEN NoEntry ELSE paying[b]
    BY DEF SavePaid, SplitInv, SplitTyped
  <2> QED BY <1>3, <2>1 DEF SavePaid, SplitInv, NoneBeforeCompletion, PayableFound
<1>9. CourierIsNotPaidOut'
  <2>1. ~(e[1] \in carried /\ e[2] \notin OwnParties)
    BY DEF SavePaid, SplitInv, PayableFound
  <2>2. carried' = carried
    BY DEF SavePaid
  <2> QED BY <1>3, <1>5, <2>1, <2>2 DEF SplitInv, CourierIsNotPaidOut
<1>10. Balanced'
  <2>1. \A o, party : AmountOf(o, party)' = AmountOf(o, party)
    BY <1>3, <1>5 DEF AmountOf
  <2>2. status' = status
    BY DEF SavePaid
  <2> QED BY <2>1, <2>2 DEF SplitInv, Balanced, Recorded
<1> QED BY <1>7, <1>8, <1>9, <1>10 DEF SplitInv

(* Entries that divide the amount, in a completed order's place. *)
Divides(o, new) ==
  /\ DOMAIN new = {o} \X {Carrier(o), "node", "destination_node", "platform"}
  /\ \A e \in DOMAIN new :
       /\ new[e] \in [amount : Nat, payout : Payouts, paidBy : Admins \cup {Nobody}]
       /\ new[e].payout = "not_payable" <=> e[1] \in carried /\ e[2] \notin OwnParties
  /\ new[<<o, Carrier(o)>>].amount + new[<<o, "node">>].amount
     + new[<<o, "destination_node">>].amount + new[<<o, "platform">>].amount = Amount

LEMMA FourShares ==
  ASSUME carried \subseteq Orders, NEW o \in Orders, NEW rule \in Rules
  PROVE  Divides(o, Shares(o, rule))
<1> DEFINE share == CalculateSplit(Amount - DestinationFee, rule)
           new == Shares(o, rule)
<1>1. /\ share.rider \in Nat /\ share.node \in Nat /\ share.platform \in Nat
      /\ share.rider + share.node + share.platform = Amount - DestinationFee
  <2>1. Amount - DestinationFee \in Nat /\ IsRule(rule)
    BY CollectionAssumption
  <2> QED BY <2>1, SharesAreParts
<1>2. DestinationFee \in Nat /\ Amount \in Nat
  BY CollectionAssumption
<1> HIDE DEF share
<1>3. DOMAIN new = {o} \X {Carrier(o), "node", "destination_node", "platform"}
  BY DEF Shares, Carrier
<1>4. \A e \in DOMAIN new : e[1] = o /\ e = <<o, e[2]>> /\ e[2] \in {Carrier(o), "node", "destination_node", "platform"}
  BY <1>3
<1>5. /\ new[<<o, "node">>] = Entry(share.node, "pending")
      /\ new[<<o, "destination_node">>] = Entry(DestinationFee, "pending")
      /\ new[<<o, "platform">>] = Entry(share.platform, "pending")
  BY DEF Shares, share
<1>6. new[<<o, Carrier(o)>>] = Entry(share.rider, IF o \in carried THEN "not_payable" ELSE "pending")
  BY DEF Shares, share, Carrier
<1> HIDE DEF new
<1>7. \A n \in Nat : \A s \in Payouts :
        /\ Entry(n, s) \in [amount : Nat, payout : Payouts, paidBy : Admins \cup {Nobody}]
        /\ Entry(n, s).payout = s /\ Entry(n, s).amount = n
  BY DEF Entry
<1>8. Carrier(o) \notin OwnParties /\ {"node", "destination_node", "platform"} \subseteq OwnParties
  BY DEF Carrier, OwnParties
<1>9. \A e \in DOMAIN new :
        /\ new[e] \in [amount : Nat, payout : Payouts, paidBy : Admins \cup {Nobody}]
        /\ new[e].payout = "not_payable" <=> e[1] \in carried /\ e[2] \notin OwnParties
  <2> SUFFICES ASSUME NEW e \in DOMAIN new
               PROVE  /\ new[e] \in [amount : Nat, payout : Payouts, paidBy : Admins \cup {Nobody}]
                      /\ new[e].payout = "not_payable" <=> e[1] \in carried /\ e[2] \notin OwnParties
    OBVIOUS
  <2>1. CASE e[2] = Carrier(o)
    <3>1. e[1] = o /\ e[2] \notin OwnParties /\ new[e] = new[<<o, Carrier(o)>>]
      BY <1>4, <1>8, <2>1
    <3>2. CASE o \in carried
      BY <1>1, <1>6, <1>7, <3>1, <3>2 DEF Payouts
    <3>3. CASE o \notin carried
      BY <1>1, <1>6, <1>7, <3>1, <3>3 DEF Payouts
    <3> QED BY <3>2, <3>3
  <2>2. CASE e[2] \in {"node", "destination_node", "platform"}
    <3>1. \E n \in Nat : new[e] = Entry(n, "pending")
      BY <1>1, <1>2, <1>4, <1>5, <2>2
    <3>2. e[2] \in OwnParties
      BY <1>8, <2>2
    <3> QED BY <1>7, <3>1, <3>2 DEF Payouts
  <2> QED BY <1>4, <2>1, <2>2
<1>10. new[<<o, Carrier(o)>>].amount + new[<<o, "node">>].amount
       + new[<<o, "destination_node">>].amount + new[<<o, "platform">>].amount = Amount
  <2>1. /\ new[<<o, Carrier(o)>>].amount = share.rider /\ new[<<o, "node">>].amount = share.node
        /\ new[<<o, "destination_node">>].amount = DestinationFee
        /\ new[<<o, "platform">>].amount = share.platform
    BY <1>1, <1>2, <1>5, <1>6, <1>7 DEF Payouts
  <2> QED BY <1>1, <1>2, <2>1
<1> QED BY <1>3, <1>9, <1>10 DEF new, Divides

LEMMA SharesRecorded ==
  ASSUME SplitInv, CodeInv', NEW o \in Orders, status[o] = "ready_for_collection",
         status' = [status EXCEPT ![o] = "completed"], keys' = keys \cup {o},
         UNCHANGED <<carried, rules, paying>>, NEW new, Divides(o, new),
         entries' = [e \in DOMAIN entries \cup DOMAIN new |->
                       IF e \in DOMAIN new THEN new[e] ELSE entries[e]]
  PROVE  SplitInv'
<1>1. /\ status[o] = "ready_for_collection" /\ carried \subseteq Orders
      /\ status' = [status EXCEPT ![o] = "completed"] /\ keys' = keys \cup {o}
      /\ UNCHANGED <<carried, rules, paying>>
      /\ entries' = [e \in DOMAIN entries \cup DOMAIN new |->
                       IF e \in DOMAIN new THEN new[e] ELSE entries[e]]
  BY DEF SplitInv, SplitTyped
<1>2. /\ DOMAIN new = {o} \X {Carrier(o), "node", "destination_node", "platform"}
      /\ \A e \in DOMAIN new :
           /\ new[e] \in [amount : Nat, payout : Payouts, paidBy : Admins \cup {Nobody}]
           /\ new[e].payout = "not_payable" <=> e[1] \in carried /\ e[2] \notin OwnParties
      /\ new[<<o, Carrier(o)>>].amount + new[<<o, "node">>].amount
         + new[<<o, "destination_node">>].amount + new[<<o, "platform">>].amount = Amount
  BY DEF Divides
<1>3. /\ DOMAIN entries' = DOMAIN entries \cup DOMAIN new
      /\ entries' = [e \in DOMAIN entries' |-> entries'[e]]
      /\ \A e \in DOMAIN new : entries'[e] = new[e]
      /\ \A e \in DOMAIN entries \ DOMAIN new : entries'[e] = entries[e]
  BY <1>1
<1>4. Carrier(o) \in Parties /\ \A p \in Parties : <<o, p>> \notin DOMAIN entries
  BY <1>1 DEF SplitInv, NoneBeforeCompletion, Carrier, Parties
<1>5. DOMAIN new \subseteq Orders \X Parties
  BY <1>1, <1>2, <1>4 DEF Parties
<1>6. \A e \in DOMAIN entries : e \notin DOMAIN new /\ e[1] # o /\ e[1] \in Orders
  <2> SUFFICES ASSUME NEW e \in DOMAIN entries PROVE e \notin DOMAIN new /\ e[1] # o /\ e[1] \in Orders
    OBVIOUS
  <2>1. e[1] \in Orders /\ e[2] \in Parties /\ e = <<e[1], e[2]>>
    BY DEF SplitInv, SplitTyped, EntriesTyped
  <2>2. e[1] # o
    BY <1>4, <2>1
  <2> QED BY <1>2, <2>1, <2>2
<1>7. EntriesTyped'
  BY <1>2, <1>3, <1>5 DEF SplitInv, SplitTyped, EntriesTyped
<1>8. SplitTyped'
  <2>1. paying' \in [Admins -> DOMAIN entries' \cup {NoEntry}]
    BY <1>1, <1>3 DEF SplitInv, SplitTyped
  <2>2. status' \in [Orders -> {"ready_for_collection", "completed"}]
    BY <1>1 DEF SplitInv, SplitTyped
  <2> QED BY <1>1, <1>7, <2>1, <2>2 DEF SplitInv, SplitTyped
<1>9. NoneBeforeCompletion'
  <2>1. \A p \in Orders : status'[p] = "ready_for_collection" => p # o /\ status[p] = "ready_for_collection"
    BY <1>1 DEF SplitInv, SplitTyped
  <2> QED BY <1>2, <1>3, <2>1 DEF SplitInv, NoneBeforeCompletion
<1>10. CourierIsNotPaidOut'
  BY <1>1, <1>2, <1>3 DEF SplitInv, CourierIsNotPaidOut
<1>11. PayableFound'
  BY <1>1 DEF SplitInv, PayableFound
<1>12. Balanced'
  <2> SUFFICES ASSUME NEW p \in Orders
               PROVE  Recorded(p)' = (IF status'[p] = "completed" THEN Amount ELSE 0)
    BY DEF Balanced
  <2>1. CASE p # o
    <3>1. \A party : <<p, party>> \notin DOMAIN new
      BY <1>2, <2>1
    <3>2. \A party : AmountOf(p, party)' = AmountOf(p, party)
      BY <1>3, <3>1 DEF AmountOf
    <3>3. status'[p] = status[p]
      BY <1>1, <2>1 DEF SplitInv, SplitTyped
    <3> QED BY <3>2, <3>3 DEF SplitInv, Balanced, Recorded
  <2>2. CASE p = o
    <3>1. status'[o] = "completed"
      BY <1>1 DEF SplitInv, SplitTyped
    <3>2. \A party \in {Carrier(o), "node", "destination_node", "platform"} :
            AmountOf(o, party)' = new[<<o, party>>].amount /\ new[<<o, party>>].amount \in Nat
      BY <1>2, <1>3 DEF AmountOf
    <3>3. \A party : party = OtherCarrier(o) => AmountOf(o, party)' = 0
      <4> SUFFICES ASSUME NEW party, party = OtherCarrier(o) PROVE AmountOf(o, party)' = 0
        OBVIOUS
      <4>1. party \in Parties /\ party \notin {Carrier(o), "node", "destination_node", "platform"}
        BY DEF OtherCarrier, Carrier, Parties
      <4>2. <<o, party>> \notin DOMAIN entries'
        BY <1>2, <1>3, <1>4, <4>1
      <4> QED BY <4>2 DEF AmountOf
    <3>4. Recorded(o)' = Amount
      <4>1. CASE o \in carried
        <5>1. Carrier(o) = "courier_allocation" /\ OtherCarrier(o) = "rider"
          BY <4>1 DEF Carrier, OtherCarrier
        <5>2. /\ AmountOf(o, "rider")' = 0
              /\ AmountOf(o, "courier_allocation")' = new[<<o, "courier_allocation">>].amount
          BY <3>2, <3>3, <5>1
        <5> QED BY <1>2, <3>2, <5>1, <5>2 DEF Recorded
      <4>2. CASE o \notin carried
        <5>1. Carrier(o) = "rider" /\ OtherCarrier(o) = "courier_allocation"
          BY <4>2 DEF Carrier, OtherCarrier
        <5>2. /\ AmountOf(o, "courier_allocation")' = 0
              /\ AmountOf(o, "rider")' = new[<<o, "rider">>].amount
          BY <3>2, <3>3, <5>1
        <5> QED BY <1>2, <3>2, <5>1, <5>2 DEF Recorded
      <4> QED BY <4>1, <4>2
    <3> QED BY <2>2, <3>1, <3>4
  <2> QED BY <2>1, <2>2
<1> QED BY <1>8, <1>9, <1>10, <1>11, <1>12 DEF SplitInv

LEMMA CompletionSplit ==
  ASSUME SplitInv, CodeInv', NEW d \in Desks, Complete(d)
  PROVE  SplitInv'
<1> PICK o \in Orders : o = desk[d].order
  BY DEF Complete, SplitInv, CodeInv, CodesTyped
<1> PICK rule \in Rules : rule = rules[Len(rules)]
  BY DEF Complete, SplitInv, SplitTyped
<1> PICK new : new = Shares(o, rule)
  OBVIOUS
<1>1. Divides(o, new)
  BY FourShares DEF SplitInv, SplitTyped
<1>2. /\ status[o] = "ready_for_collection" /\ status' = [status EXCEPT ![o] = "completed"]
      /\ keys' = keys \cup {o} /\ UNCHANGED <<carried, rules, paying>>
      /\ entries' = [e \in DOMAIN entries \cup DOMAIN new |->
                       IF e \in DOMAIN new THEN new[e] ELSE entries[e]]
  BY DEF Complete
<1> QED BY <1>1, <1>2, SharesRecorded

LEMMA SplitStep == SplitInv /\ [Next]_vars => SplitInv'
<1> SUFFICES ASSUME SplitInv, [Next]_vars PROVE SplitInv'
  OBVIOUS
<1>1. CodeInv'
  BY CodeStep DEF SplitInv
<1>2. ASSUME UNCHANGED <<status, carried, keys, rules, entries, paying>> PROVE SplitInv'
  <2>1. rules' \in Seq(Rules) /\ Len(rules') <= MaxRules
    BY <1>2 DEF SplitInv, SplitTyped
  <2> QED BY <1>1, <1>2, <2>1, SplitKept
<1>3. ASSUME NEW o \in Orders,
             \/ \E r \in Resends : BeginResend(r, o)
             \/ \E c \in DOMAIN codes[o] : Expire(o, c)
             \/ \E d \in Desks, c \in 0 .. Len(codes[o]) : Present(d, o, c)
      PROVE  SplitInv'
  BY <1>2, <1>3 DEF BeginResend, Expire, Present
<1>4. ASSUME NEW r \in Resends, Issue(r) PROVE SplitInv'
  BY <1>2, <1>4 DEF Issue
<1>5. ASSUME NEW d \in Desks, TakeKey(d) \/ Validate(d) \/ Refuse(d) \/ Abandon(d) PROVE SplitInv'
  BY <1>2, <1>5 DEF TakeKey, Validate, Refuse, Abandon
<1>6. ASSUME NEW d \in Desks, Complete(d) PROVE SplitInv'
  BY <1>1, <1>6, CompletionSplit
<1>7. ASSUME NEW rule \in Rules, CreateRule(rule) PROVE SplitInv'
  <2>1. rules' \in Seq(Rules) /\ Len(rules') <= MaxRules
    <3>1. rules \in Seq(Rules) /\ Len(rules) \in Nat /\ Len(rules) < MaxRules
      BY <1>7 DEF CreateRule, SplitInv, SplitTyped
    <3>2. rules' = Append(rules, rule)
      BY <1>7 DEF CreateRule
    <3> QED BY <3>1, <3>2, CollectionAssumption
  <2> QED BY <1>1, <1>7, <2>1, SplitKept DEF CreateRule
<1>8. ASSUME NEW a \in Admins, NEW e \in DOMAIN entries, ReadEntry(a, e) PROVE SplitInv'
  BY <1>1, <1>8, ReadEntryStep
<1>9. ASSUME NEW a \in Admins, SavePaid(a) PROVE SplitInv'
  BY <1>1, <1>9, SavePaidStep
<1>10. CASE UNCHANGED vars
  BY <1>2, <1>10 DEF vars
<1> QED BY <1>3, <1>4, <1>5, <1>6, <1>7, <1>8, <1>9, <1>10 DEF Next

LEMMA SplitMeansShared == SplitInv => CompletedMeansShared
<1> SUFFICES ASSUME SplitInv PROVE CompletedMeansShared
  OBVIOUS
<1>1. \A r \in Resends : resend[r].order \in Orders \cup {NoOrder}
  BY DEF SplitInv, CodeInv, CodesTyped
<1>2. \A d \in Desks : /\ desk[d].order \in Orders \cup {NoOrder}
                       /\ desk[d].at \in {"idle", "begun", "keyed", "accepted", "refused"}
  BY DEF SplitInv, CodeInv, CodesTyped, DeskStates
<1>3. \A o \in Orders : codes[o] \in Seq(CodeRows) /\ Len(codes[o]) \in 1 .. MaxCodes
  BY DEF SplitInv, CodeInv, CodesTyped
<1>4. \A a \in Admins : paying[a] \in DOMAIN entries \cup {NoEntry}
  BY DEF SplitInv, SplitTyped
<1>5. TypeOK
  BY <1>1, <1>2, <1>3, <1>4 DEF SplitInv, SplitTyped, EntriesTyped, TypeOK
<1> QED BY <1>5 DEF SplitInv, Balanced, CompletedMeansShared

(* "An order can't reach COMPLETED without its revenue split being         *)
(* recorded atomically alongside it" (confirm-collection.service.ts): for  *)
(* every price, every destination fee within it and every ruleset, what is *)
(* recorded is exactly the price.                                          *)
THEOREM AmountIsShared == Spec => []CompletedMeansShared
<1> QED BY SplitInit, SplitStep, SplitMeansShared, PTL DEF Spec

(* MarkRevenueSplitPaidService saves the whole entry it read; still, what  *)
(* an external courier's order leaves of the rider's share is never marked *)
(* as paid, however many Admins pay.                                       *)
THEOREM CouriersAreNotPaidOut == Spec => []CourierIsNotPaidOut
<1>1. SplitInv => CourierIsNotPaidOut
  BY DEF SplitInv
<1> QED BY <1>1, SplitInit, SplitStep, PTL DEF Spec

-----------------------------------------------------------------------------
(* Waiting for keys and connections. *)

(* A request that has left holds nothing. *)
Left == \A d \in Desks : desk[d].at = "idle" => desk[d] = IdleDesk

LEMMA LeftStep == CodesTyped /\ Left /\ [Next]_vars => Left'
<1> SUFFICES ASSUME CodesTyped, Left, [Next]_vars PROVE Left'
  OBVIOUS
<1>1. ASSUME NEW d \in Desks, NEW s, desk' = [desk EXCEPT ![d] = s], s.at = "idle" => s = IdleDesk
      PROVE  Left'
  BY <1>1 DEF CodesTyped, Left
<1>2. ASSUME desk' = desk PROVE Left'
  BY <1>2 DEF Left
<1>3. ASSUME NEW d \in Desks, Leave(d) PROVE Left'
  BY <1>1, <1>3 DEF Leave
<1>4. ASSUME NEW o \in Orders,
             \/ \E r \in Resends : BeginResend(r, o)
             \/ \E c \in DOMAIN codes[o] : Expire(o, c)
      PROVE  Left'
  BY <1>2, <1>4 DEF BeginResend, Expire
<1>5. ASSUME NEW o \in Orders, NEW d \in Desks, NEW c, Present(d, o, c) PROVE Left'
  <2> DEFINE s == [order |-> o, typed |-> c, row |-> 0, at |-> "begun"]
  <2>1. desk' = [desk EXCEPT ![d] = s] /\ s.at # "idle"
    BY <1>5 DEF Present
  <2> HIDE DEF s
  <2> QED BY <1>1, <2>1
<1>6. ASSUME NEW r \in Resends, Issue(r) PROVE Left'
  BY <1>2, <1>6 DEF Issue
<1>7. ASSUME NEW d \in Desks, TakeKey(d) PROVE Left'
  <2> DEFINE s == IF desk[d].order \in keys THEN IdleDesk ELSE [desk[d] EXCEPT !.at = "keyed"]
  <2>1. desk' = [desk EXCEPT ![d] = s]
    BY <1>7 DEF TakeKey, CodesTyped
  <2>2. s.at = "idle" => s = IdleDesk
    <3>1. desk[d] \in DeskStates
      BY DEF CodesTyped
    <3> QED BY <3>1 DEF DeskStates
  <2> HIDE DEF s
  <2> QED BY <1>1, <2>1, <2>2
<1>8. ASSUME NEW d \in Desks, Validate(d) PROVE Left'
  <2> DEFINE o == desk[d].order
             latest == IF Unused(o) = {} THEN 0 ELSE Max(Unused(o))
             valid == /\ latest # 0 /\ desk[d].typed = latest
                      /\ ~codes[o][latest].expired
                      /\ codes[o][latest].failedAttempts < MaxAttempts
             at == IF valid THEN "accepted" ELSE "refused"
             s == [order |-> o, typed |-> 0, row |-> latest, at |-> at]
  <2>1. desk' = [desk EXCEPT ![d] = s]
    BY <1>8 DEF Validate
  <2>2. at # "idle"
    OBVIOUS
  <2> HIDE DEF o, latest, at
  <2>3. s.at # "idle"
    BY <2>2
  <2> HIDE DEF s
  <2> QED BY <1>1, <2>1, <2>3
<1>9. ASSUME NEW d \in Desks, Refuse(d) \/ Complete(d) \/ Abandon(d) PROVE Left'
  BY <1>3, <1>9 DEF Refuse, Complete, Abandon
<1>10. ASSUME \/ \E rule \in Rules : CreateRule(rule)
              \/ \E a \in Admins, e \in DOMAIN entries : ReadEntry(a, e)
              \/ \E a \in Admins : SavePaid(a)
       PROVE  Left'
  BY <1>2, <1>10 DEF CreateRule, ReadEntry, SavePaid
<1>11. CASE UNCHANGED vars
  BY <1>2, <1>11 DEF vars
<1> QED BY <1>4, <1>5, <1>6, <1>7, <1>8, <1>9, <1>10, <1>11 DEF Next

(* A request waits for the key of its order only while another holds it,   *)
(* and one that holds it has judged its code or may do so.                 *)
LEMMA DesksGoOn ==
  ASSUME CodesTyped, Left, ConnectionFree, Confirming # {}
  PROVE  \E d \in Desks : GoesOn(d)
<1>1. ASSUME NEW d \in Desks, desk[d].at \in Keyed PROVE GoesOn(d)
  BY <1>1 DEF Keyed, GoesOn, MayRefuse
<1>2. PICK d \in Desks : desk[d] # IdleDesk
  BY DEF Confirming
<1>3. desk[d].at = "begun" \/ desk[d].at \in Keyed
  BY <1>2 DEF CodesTyped, DeskStates, Left, Keyed
<1>4. CASE desk[d].at \in Keyed
  BY <1>1, <1>4
<1>5. CASE desk[d].at = "begun" /\ Holders(desk[d].order) = {}
  BY <1>5 DEF GoesOn, MayTakeKey
<1>6. CASE desk[d].at = "begun" /\ Holders(desk[d].order) # {}
  <2>1. PICK e \in Desks : desk[e].order = desk[d].order /\ desk[e].at # "begun"
    BY <1>6 DEF Holders
  <2>2. desk[d].order \in Orders
    BY <1>6 DEF CodesTyped
  <2>3. desk[e] # IdleDesk
    BY <2>1, <2>2, CollectionAssumption DEF IdleDesk
  <2>4. desk[e].at \in Keyed
    BY <2>1, <2>3 DEF CodesTyped, DeskStates, Left, Keyed
  <2> QED BY <1>1, <2>4
<1> QED BY <1>3, <1>4, <1>5, <1>6

(* A refused confirmation needs a second connection to count the attempt   *)
(* (HandoffCodeValidatorService): still, as long as the confirmations in   *)
(* flight leave one of the pool, some request goes on, for any number of   *)
(* orders, of counters and of resends, and any size of the pool.           *)
THEOREM CountersNeverStandStill == Spec => []NoStandstill
<1>1. CodesTyped /\ Left => NoStandstill
  <2> SUFFICES ASSUME CodesTyped, Left, Cardinality(Confirming) < PoolSize, Busy # {},
                      \A r \in Resends : ~ MayIssue(r)
               PROVE  \E d \in Desks : GoesOn(d)
    BY DEF NoStandstill
  <2>1. Busy = Confirming
    BY DEF Busy, MayIssue
  <2> QED BY <2>1, DesksGoOn DEF ConnectionFree
<1>2. Init => Left
  BY DEF Init, Left
<1>3. CodeInv => CodesTyped
  BY DEF CodeInv
<1> QED BY <1>1, <1>2, <1>3, CodeInit, CodeStep, LeftStep, PTL DEF Spec

-----------------------------------------------------------------------------
(* What is to be shared out: the price. *)

(* Math.round is within half a unit, for every amount and every unit. *)
LEMMA RoundIsNearest ==
  ASSUME NEW n \in Nat, NEW d \in Nat \ {0}
  PROVE  /\ Round(n, d) \in Nat
         /\ 2 * (Round(n, d) * d - n) \in (1 - d) .. d
<1> DEFINE e == 2 * d
           m == 2 * n + d
           q == m \div e
<1>1. m \in Nat /\ e \in Nat \ {0}
  OBVIOUS
<1>2. q \in Nat /\ e * q <= m /\ m < e * q + e
  <2> HIDE DEF m, e
  <2> QED BY <1>1
<1>3. e * q = 2 * (q * d)
  BY <1>2
<1>4. q * d \in Nat
  BY <1>2
<1>5. Round(n, d) = q
  BY DEF Round
<1> HIDE DEF q
<1> QED BY <1>2, <1>3, <1>4, <1>5

LEMMA RoundGrows ==
  ASSUME NEW m \in Nat, NEW n \in Nat, m <= n, NEW d \in Nat \ {0}
  PROVE  Round(m, d) <= Round(n, d)
<1>1. /\ Round(m, d) \in Nat /\ 2 * (Round(m, d) * d - m) \in (1 - d) .. d
      /\ Round(n, d) \in Nat /\ 2 * (Round(n, d) * d - n) \in (1 - d) .. d
  BY RoundIsNearest
<1> QED BY DEF Round

(* What calculateFee is asked about. *)
Vehicles == DOMAIN Multiplier
Roads == Nat \cup {NotMeasured}

LEMMA RatesAreWhole ==
  ASSUME NEW rule, IsPricingRule(rule), NEW vehicle \in Vehicles
  PROVE  RateFor(rule, vehicle) \in VehicleRates
<1>1. rule.base \in Nat /\ rule.perKm \in Nat
  BY DEF IsPricingRule
<1>2. CASE vehicle \in DOMAIN rule.rates
  BY <1>2 DEF RateFor, IsPricingRule
<1>3. CASE vehicle \notin DOMAIN rule.rates
  <2>1. PICK tenths \in Nat : tenths = Multiplier[vehicle]
    BY DEF Vehicles, Multiplier
  <2>2. rule.base * tenths \in Nat /\ rule.perKm * tenths \in Nat
    BY <1>1
  <2>3. \A n \in Nat : Round(n, 10) \in Nat
    BY RoundIsNearest
  <2>4. Round(rule.base * tenths, 10) \in Nat /\ Round(rule.perKm * tenths, 10) \in Nat
    BY <2>2, <2>3
  <2> QED BY <1>3, <2>1, <2>4 DEF RateFor, VehicleRates
<1> QED BY <1>2, <1>3

LEMMA FeeGrows ==
  ASSUME NEW rate \in VehicleRates, NEW a \in Nat, NEW b \in Nat, a <= b
  PROVE  /\ DeliveryFee(rate, a) \in Nat
         /\ rate.base <= DeliveryFee(rate, a)
         /\ DeliveryFee(rate, a) <= DeliveryFee(rate, b)
<1>1. rate.base \in Nat /\ rate.perKm \in Nat
  BY DEF VehicleRates
<1>2. rate.perKm * a \in Nat /\ rate.perKm * b \in Nat /\ rate.perKm * a <= rate.perKm * b
  BY <1>1
<1>3. /\ Round(rate.perKm * a, 100000) \in Nat /\ Round(rate.perKm * b, 100000) \in Nat
      /\ Round(rate.perKm * a, 100000) <= Round(rate.perKm * b, 100000)
  BY <1>2, RoundIsNearest, RoundGrows
<1> QED BY <1>1, <1>3 DEF DeliveryFee

LEMMA DistancesAreWhole ==
  ASSUME NEW rule, IsPricingRule(rule), NEW straight \in Nat, NEW road \in Roads
  PROVE  Distance(rule, straight, road) \in Nat
<1>1. rule.factor \in Nat
  BY DEF IsPricingRule
<1> QED BY <1>1 DEF Distance, Roads, NotMeasured

(* A quote is in whole kobo and covers the rate's base and what the        *)
(* destination's Node is owed (calculateFee of pricing.service.ts); its    *)
(* estimate goes in steps of five minutes and is at least 15 and the ride  *)
(* at 18 km/h, and less than five more (vehicle-pricing.ts).               *)
THEOREM QuotesAreSound ==
  ASSUME NEW rule, IsPricingRule(rule), NEW vehicle \in Vehicles,
         NEW straight \in Nat, NEW road \in Roads
  PROVE  LET quote == FeeBreakdown(rule, vehicle, straight, road)
             minutes == DeliveryMinutes(quote.shownDistance)
         IN  /\ {quote.deliveryFee, quote.destinationFee, quote.total, quote.shownDistance} \subseteq Nat
             /\ quote.total >= RateFor(rule, vehicle).base + quote.destinationFee
             /\ minutes % 5 = 0
             /\ 30 * (minutes - 15) \in quote.shownDistance .. quote.shownDistance + 149
<1> DEFINE rate == RateFor(rule, vehicle)
           distance == Distance(rule, straight, road)
<1>1. rate \in VehicleRates /\ rate.base \in Nat /\ rule.destinationFee \in Nat
  BY RatesAreWhole DEF VehicleRates, IsPricingRule
<1>2. distance \in Nat
  BY DistancesAreWhole
<1>3. DeliveryFee(rate, distance) \in Nat /\ rate.base <= DeliveryFee(rate, distance)
  <2> HIDE DEF rate, distance
  <2> QED BY <1>1, <1>2, FeeGrows
<1>4. Round(distance, 1000) \in Nat
  BY <1>2, RoundIsNearest
<1>5. ASSUME NEW shown \in Nat
      PROVE  /\ DeliveryMinutes(shown) % 5 = 0
             /\ 30 * (DeliveryMinutes(shown) - 15) \in shown .. shown + 149
  BY DEF DeliveryMinutes
<1>6. FeeBreakdown(rule, vehicle, straight, road) =
        [vehicle        |-> vehicle,
         shownDistance  |-> Round(distance, 1000),
         deliveryFee    |-> DeliveryFee(rate, distance),
         destinationFee |-> rule.destinationFee,
         total          |-> DeliveryFee(rate, distance) + rule.destinationFee]
  BY DEF FeeBreakdown
<1> HIDE DEF rate, distance
<1> QED BY <1>1, <1>3, <1>4, <1>5, <1>6 DEF rate

(* A longer way never costs less, whether both were measured or both go by *)
(* the straight line; nor does a measured road that is longer than the     *)
(* estimate it replaces (calculateFee: roundings do not turn prices round).*)
THEOREM LongerIsNeverCheaper ==
  ASSUME NEW rule, IsPricingRule(rule), NEW vehicle \in Vehicles,
         NEW straight \in Nat, NEW road \in Roads, NEW longStraight \in Nat, NEW longRoad \in Roads,
         Distance(rule, straight, road) <= Distance(rule, longStraight, longRoad)
  PROVE  FeeBreakdown(rule, vehicle, straight, road).total
           <= FeeBreakdown(rule, vehicle, longStraight, longRoad).total
<1>1. RateFor(rule, vehicle) \in VehicleRates /\ rule.destinationFee \in Nat
  BY RatesAreWhole DEF IsPricingRule
<1>2. Distance(rule, straight, road) \in Nat /\ Distance(rule, longStraight, longRoad) \in Nat
  BY DistancesAreWhole
<1>3. /\ DeliveryFee(RateFor(rule, vehicle), Distance(rule, straight, road)) \in Nat
      /\ DeliveryFee(RateFor(rule, vehicle), Distance(rule, longStraight, longRoad)) \in Nat
      /\ DeliveryFee(RateFor(rule, vehicle), Distance(rule, straight, road))
           <= DeliveryFee(RateFor(rule, vehicle), Distance(rule, longStraight, longRoad))
  BY <1>1, <1>2, FeeGrows
<1> QED BY <1>1, <1>3 DEF FeeBreakdown
==============================================================================
