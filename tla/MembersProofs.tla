----------------------------- MODULE MembersProofs -----------------------------
(***************************************************************************)
(* Accounts and the rows that hang on them, for any people, Nodes, limits  *)
(* and requests in flight: nobody uses an account before its owner has     *)
(* accepted the terms, a portal Node keeps its one owner, staff work at    *)
(* the one reviewed Node that invited them, and a membership only ends.    *)
(***************************************************************************)
EXTENDS Members, TLAPS

(* Rows that are in use were consented to, and so were reset links. *)
HasConsent(u) ==
  /\ account[u].consent => Exists(u)
  /\ u \in signedIn \/ account[u].credential # "none" \/ u \in reset => account[u].consent

StaffOK(u, n) ==
  /\ account[u].role = "node_staff" /\ n \in reviewed /\ invite[u] # "none"
  /\ \A m \in Nodes \ {n} : membership[u][m] = NoRow
OwnerOK(u, n) ==
  /\ account[u].role = "node_operator" /\ u \in signedIn /\ membership[u][n].status = "active"
  /\ \A v \in Users \ {u} : membership[v][n] # NoRow => membership[v][n].role = "staff"
MemberOK(u, n) ==
  membership[u][n] # NoRow =>
    /\ node[n] # NoRow /\ Exists(u)
    /\ membership[u][n].role = "staff" => StaffOK(u, n)
    /\ membership[u][n].role = "owner" => OwnerOK(u, n)
NodeOK(n) ==
  node[n] # NoRow =>
    /\ node[n].status = "active" => n \in reviewed
    /\ node[n].portal => \E o \in Users : IsMember(o, n, "owner")

(* What the requests hold.  A copy may be old, but what it says of the     *)
(* role, of consent, of the portal and of an owner does not change.        *)
HoldsAccount(s) ==
  At(s, "login") \/ At(s, "updateMine") =>
    /\ req[s].user \in Users /\ req[s].row \in Accounts
    /\ req[s].row.consent /\ req[s].row.status # "none"
    /\ req[s].row.role = account[req[s].user].role
    /\ Exists(req[s].user) /\ account[req[s].user].consent
HoldsRider(s) ==
  /\ At(s, "onboardRider") => req[s].user \in Users
  /\ At(s, "riderPayout") => req[s].user \in Users /\ req[s].row \in Profiles
HoldsOperator(s) ==
  At(s, "onboardNode") =>
    /\ req[s].user \in Users /\ req[s].user \in signedIn /\ Exists(req[s].user)
    /\ account[req[s].user].role = "node_operator"
HoldsNode(s) ==
  /\ At(s, "approveNode") \/ At(s, "updateNode") =>
       /\ req[s].node \in Nodes /\ req[s].row \in NodeRows
       /\ node[req[s].node] # NoRow /\ req[s].row.portal = node[req[s].node].portal
  /\ At(s, "approveNode") => req[s].user \in Users
HoldsMember(s) ==
  At(s, "nodePayout") =>
    /\ req[s].user \in Users /\ req[s].node \in Nodes /\ req[s].row \in Memberships
    /\ req[s].row.role = "owner" /\ req[s].row.status = "active"
    /\ IsMember(req[s].user, req[s].node, "owner")
HoldsInvite(s) ==
  At(s, "inviteStaff") =>
    req[s].node \in Nodes /\ req[s].node \in reviewed /\ node[req[s].node] # NoRow
Held(s) ==
  /\ HoldsAccount(s) /\ HoldsRider(s) /\ HoldsOperator(s)
  /\ HoldsNode(s) /\ HoldsMember(s) /\ HoldsInvite(s)

(* Only a rider carries and only a Node holds. *)
InHand ==
  /\ \A u \in Users : carrying[u] > 0 => profile[u] # NoRow
  /\ \A n \in Nodes : held[n] > 0 => node[n] # NoRow

MembersInv ==
  /\ TypeOK /\ InHand /\ req = [s \in Slots |-> req[s]]
  /\ \A u \in Users : HasConsent(u)
  /\ \A u \in Users, n \in Nodes : MemberOK(u, n)
  /\ \A n \in Nodes : NodeOK(n)
  /\ \A s \in Slots : Held(s)

-----------------------------------------------------------------------------
(* What goes on through every step.                                        *)

AccountsGoOn ==
  /\ AccountsTypeOK' /\ \A u \in Users : HasConsent(u)'
  /\ \A u \in Users :
       /\ Exists(u) => Exists(u)' /\ account'[u].role = account[u].role
       /\ account[u].consent => account'[u].consent
       /\ u \in signedIn => u \in signedIn'
       /\ invite[u] # "none" => invite'[u] # "none"

NodesGoOn ==
  /\ node' \in [Nodes -> NodeRows \cup {NoRow}] /\ reviewed \subseteq reviewed'
  /\ reviewed' \subseteq Nodes
  /\ \A n \in Nodes : node[n] # NoRow => node'[n] # NoRow /\ node'[n].portal = node[n].portal
  /\ \A n \in Nodes : node'[n] # NoRow /\ node'[n].status = "active" => n \in reviewed'

MembersGoOn ==
  /\ membership' \in [Users -> [Nodes -> Memberships \cup {NoRow}]]
  /\ \A u \in Users, n \in Nodes : membership[u][n] # NoRow =>
       /\ membership'[u][n] # NoRow /\ membership'[u][n].role = membership[u][n].role
       /\ membership[u][n].status = "removed" => membership'[u][n].status = "removed"
       /\ membership[u][n].role = "owner" => membership'[u][n].status = membership[u][n].status

GoOn == AccountsGoOn /\ NodesGoOn /\ MembersGoOn

LEMMA OwnersStay ==
  ASSUME MembersGoOn, NEW u \in Users, NEW n \in Nodes, IsMember(u, n, "owner")
  PROVE  IsMember(u, n, "owner")'
BY DEF MembersGoOn, IsMember

(* A request that is left alone holds what it held. *)
LEMMA HeldOn ==
  ASSUME MembersInv, GoOn, NEW s \in Slots, req'[s] = req[s] \/ req'[s] = Idle
  PROVE  Held(s)'
<1>1. CASE req'[s] = Idle
  BY <1>1 DEF Held, HoldsAccount, HoldsRider, HoldsOperator, HoldsNode, HoldsMember, HoldsInvite, At
<1>2. CASE req'[s] = req[s]
  <2>1. Held(s)
    BY DEF MembersInv
  <2>2. \A op : At(s, op)' <=> At(s, op)
    BY <1>2 DEF At
  <2>3. HoldsAccount(s)' /\ HoldsOperator(s)'
    BY <1>2, <2>1, <2>2 DEF Held, HoldsAccount, HoldsOperator, GoOn, AccountsGoOn
  <2>4. HoldsRider(s)'
    BY <1>2, <2>1, <2>2 DEF Held, HoldsRider
  <2>5. HoldsNode(s)' /\ HoldsInvite(s)'
    BY <1>2, <2>1, <2>2 DEF Held, HoldsNode, HoldsInvite, GoOn, NodesGoOn
  <2>6. HoldsMember(s)'
    <3> SUFFICES ASSUME At(s, "nodePayout")
                 PROVE  HoldsMember(s)'
      BY <2>2 DEF HoldsMember
    <3>1. PICK u \in Users, n \in Nodes :
            u = req[s].user /\ n = req[s].node /\ IsMember(u, n, "owner")
      BY <2>1 DEF Held, HoldsMember
    <3>2. IsMember(u, n, "owner")'
      BY <3>1, OwnersStay DEF GoOn
    <3> QED BY <1>2, <2>1, <3>1, <3>2 DEF Held, HoldsMember, IsMember
  <2> QED BY <2>3, <2>4, <2>5, <2>6 DEF Held
<1> QED BY <1>1, <1>2

(* Memberships are right if those there were go on and new ones are.       *)
LEMMA MembersOn ==
  ASSUME MembersInv, GoOn, NEW u \in Users, NEW n \in Nodes,
         membership[u][n] # NoRow,
         \A m \in Nodes : membership[u][m] = NoRow /\ membership'[u][m] # NoRow =>
           membership'[u][m].role = "owner" /\ account[u].role = "node_operator",
         \A v \in Users : membership[v][n] = NoRow /\ membership'[v][n] # NoRow =>
           membership'[v][n].role = "staff"
  PROVE  MemberOK(u, n)'
<1>1. /\ MemberOK(u, n) /\ node'[n] # NoRow /\ Exists(u)'
      /\ account'[u].role = account[u].role
  BY DEF MembersInv, MemberOK, GoOn, AccountsGoOn, NodesGoOn
<1>2. membership'[u][n].role = membership[u][n].role
  BY DEF GoOn, MembersGoOn
<1>3. CASE membership[u][n].role = "staff"
  <2>1. StaffOK(u, n)
    BY <1>1, <1>3 DEF MemberOK
  <2>2. \A m \in Nodes \ {n} : membership'[u][m] = NoRow
    BY <2>1 DEF StaffOK
  <2>3. StaffOK(u, n)'
    BY <1>1, <2>1, <2>2 DEF StaffOK, GoOn, AccountsGoOn, NodesGoOn
  <2> QED BY <1>1, <1>2, <1>3, <2>3 DEF MemberOK
<1>4. CASE membership[u][n].role = "owner"
  <2>1. OwnerOK(u, n)
    BY <1>1, <1>4 DEF MemberOK
  <2>2. membership'[u][n].status = "active"
    BY <1>4, <2>1 DEF OwnerOK, GoOn, MembersGoOn
  <2>3. \A v \in Users \ {u} : membership'[v][n] # NoRow => membership'[v][n].role = "staff"
    BY <2>1 DEF OwnerOK, GoOn, MembersGoOn
  <2>4. OwnerOK(u, n)'
    BY <1>1, <2>1, <2>2, <2>3 DEF OwnerOK, GoOn, AccountsGoOn
  <2> QED BY <1>1, <1>2, <1>4, <2>4 DEF MemberOK
<1>5. membership[u][n].role \in {"owner", "staff"}
  BY DEF MembersInv, TypeOK, Memberships
<1> QED BY <1>3, <1>4, <1>5

(* No membership is new. *)
NoNewMember == \A u \in Users, n \in Nodes : membership[u][n] = NoRow => membership'[u][n] = NoRow

LEMMA NobodyNew ==
  ASSUME MembersInv, GoOn, NoNewMember
  PROVE  \A u \in Users, n \in Nodes : MemberOK(u, n)'
<1> SUFFICES ASSUME NEW u \in Users, NEW n \in Nodes PROVE MemberOK(u, n)'
  OBVIOUS
<1>1. CASE membership[u][n] # NoRow
  BY <1>1, MembersOn DEF NoNewMember
<1>2. CASE membership[u][n] = NoRow
  BY <1>2 DEF NoNewMember, MemberOK
<1> QED BY <1>1, <1>2

(* A Node that was there keeps its owner. *)
LEMMA NodeOn ==
  ASSUME MembersInv, GoOn, NEW n \in Nodes, node[n] # NoRow
  PROVE  NodeOK(n)'
<1>1. NodeOK(n) /\ node'[n].portal = node[n].portal
  BY DEF MembersInv, GoOn, NodesGoOn
<1>2. node[n].portal => \E o \in Users : IsMember(o, n, "owner")'
  BY <1>1, OwnersStay DEF NodeOK, GoOn
<1>3. node'[n].status = "active" => n \in reviewed'
  BY DEF GoOn, NodesGoOn
<1> QED BY <1>1, <1>2, <1>3 DEF NodeOK

NoNewNode == \A n \in Nodes : node[n] = NoRow => node'[n] = NoRow

Counters ==
  /\ profile' \in [Users -> Profiles \cup {NoRow}]
  /\ carrying' \in [Users -> 0 .. MaxActiveOrders] /\ held' \in [Nodes -> 0 .. Capacity]
  /\ InHand'

RequestsGoOn ==
  /\ req' = [t \in Slots |-> req'[t]]
  /\ \A t \in Slots : req'[t] = req[t] \/ req'[t] = Idle \/ Held(t)'

(* A handler that adds no Node and no membership.                          *)
LEMMA QuietHandler ==
  ASSUME MembersInv, GoOn, Counters, NoNewMember, NoNewNode, RequestsGoOn
  PROVE  MembersInv'
<1>1. \A t \in Slots : Held(t)'
  BY HeldOn DEF RequestsGoOn
<1>2. TypeOK'
  BY DEF GoOn, AccountsGoOn, NodesGoOn, MembersGoOn, Counters, TypeOK
<1>3. \A n \in Nodes : NodeOK(n)'
  BY NodeOn DEF NoNewNode, NodeOK
<1>4. \A u \in Users : HasConsent(u)'
  BY DEF GoOn, AccountsGoOn
<1> QED BY <1>1, <1>2, <1>3, <1>4, NobodyNew DEF MembersInv, RequestsGoOn, Counters

LEMMA OneSlot ==
  ASSUME MembersInv, NEW s \in Slots, NEW r, req' = [req EXCEPT ![s] = r],
         r = Idle \/ Held(s)'
  PROVE  RequestsGoOn
BY DEF MembersInv, RequestsGoOn

LEMMA SlotSet ==
  ASSUME MembersInv, NEW s \in Slots, NEW r, req' = [req EXCEPT ![s] = r]
  PROVE  req'[s] = r
BY DEF MembersInv

LEMMA NoRequest ==
  ASSUME MembersInv, UNCHANGED req
  PROVE  RequestsGoOn
BY DEF MembersInv, RequestsGoOn

LEMMA SameMembers ==
  ASSUME MembersInv, UNCHANGED <<node, membership, reviewed>>
  PROVE  NodesGoOn /\ MembersGoOn /\ NoNewMember /\ NoNewNode
<1>1. \A n \in Nodes : node[n] # NoRow /\ node[n].status = "active" => n \in reviewed
  BY DEF MembersInv, NodeOK
<1> QED BY <1>1 DEF MembersInv, TypeOK, NodesGoOn, MembersGoOn, NoNewMember, NoNewNode

LEMMA SameCounters ==
  ASSUME MembersInv, NodesGoOn, UNCHANGED <<profile, carrying, held>>
  PROVE  Counters
BY DEF MembersInv, TypeOK, Counters, InHand, NodesGoOn

(* The row of an account that is written. *)
GoodRow(u, r) ==
  /\ r \in Accounts
  /\ r.consent => r.status # "none"
  /\ Exists(u) => r.status # "none" /\ r.role = account[u].role
  /\ account[u].consent => r.consent
  /\ r.credential # "none" => r.consent

LEMMA OldRowGood ==
  ASSUME MembersInv, NEW u \in Users
  PROVE  GoodRow(u, account[u])
BY DEF MembersInv, TypeOK, AccountsTypeOK, HasConsent, Exists, Free, GoodRow

LEMMA AccountStep ==
  ASSUME MembersInv, account' \in [Users -> Accounts], \A u \in Users : GoodRow(u, account'[u]),
         invite' \in [Users -> {"none", "live", "spent"}],
         \A u \in Users : invite[u] # "none" => invite'[u] # "none",
         signedIn \subseteq signedIn', signedIn' \subseteq Users, reset' \subseteq Users,
         \A u \in signedIn' : u \in signedIn \/ account'[u].consent,
         \A u \in reset' : u \in reset \/ account'[u].consent
  PROVE  AccountsGoOn
<1>1. AccountsTypeOK'
  BY DEF AccountsTypeOK
<1>2. ASSUME NEW u \in Users PROVE HasConsent(u)'
  <2>1. HasConsent(u) /\ GoodRow(u, account'[u])
    BY DEF MembersInv
  <2>2. u \in signedIn' \/ u \in reset' => account'[u].consent
    BY <2>1 DEF HasConsent, GoodRow
  <2> QED BY <2>1, <2>2 DEF HasConsent, GoodRow, Exists, Free
<1>3. \A u \in Users : Exists(u) => Exists(u)' /\ account'[u].role = account[u].role
  BY DEF GoodRow, Exists, Free
<1>4. \A u \in Users : account[u].consent => account'[u].consent
  BY DEF GoodRow
<1> QED BY <1>1, <1>2, <1>3, <1>4 DEF AccountsGoOn

(* One row is written, or none. *)
LEMMA OneAccount ==
  ASSUME MembersInv, NEW u \in Users, NEW r, account' = [account EXCEPT ![u] = r], GoodRow(u, r)
  PROVE  account' \in [Users -> Accounts] /\ (\A v \in Users : GoodRow(v, account'[v]))
         /\ account'[u] = r
<1>1. account \in [Users -> Accounts] /\ r \in Accounts
  BY DEF MembersInv, TypeOK, AccountsTypeOK, GoodRow
<1>2. \A v \in Users : account'[v] = IF v = u THEN r ELSE account[v]
  BY <1>1
<1> QED BY <1>1, <1>2, OldRowGood

LEMMA SameAccounts ==
  ASSUME MembersInv, UNCHANGED account
  PROVE  account' \in [Users -> Accounts] /\ \A v \in Users : GoodRow(v, account'[v])
BY OldRowGood DEF MembersInv, TypeOK, AccountsTypeOK

LEMMA QuietAccounts ==
  ASSUME MembersInv, UNCHANGED accountVars
  PROVE  AccountsGoOn
<1>1. AccountsTypeOK /\ UNCHANGED <<account, invite, reset, signedIn>>
  BY DEF MembersInv, TypeOK, accountVars
<1> QED BY <1>1, SameAccounts, AccountStep DEF AccountsTypeOK

-----------------------------------------------------------------------------
(* Accounts.                                                               *)

LEMMA SignUpStep ==
  ASSUME MembersInv, NEW u \in Users, NEW role, NEW accepted,
         Register(u, role) \/ GoogleSignUp(u, role, accepted)
  PROVE  AccountsGoOn
<1>1. PICK credential \in {"password", "google"} :
        account' = [account EXCEPT ![u] = SignedUp(role, credential)]
  BY DEF Register, GoogleSignUp
<1>2. Free(u) /\ role \in SelfRegisterable /\ UNCHANGED <<invite, reset>>
      /\ (signedIn' = signedIn \/ signedIn' = signedIn \cup {u})
  BY DEF Register, GoogleSignUp, IssueSession
<1> DEFINE r == SignedUp(role, credential)
<1>3. r \in Accounts /\ r.consent /\ r.status # "none"
  BY <1>2 DEF SignedUp, Accounts, Statuses, Roles, SelfRegisterable
<1> HIDE DEF r
<1>4. GoodRow(u, r)
  BY <1>2, <1>3 DEF GoodRow, Exists
<1>5. account' \in [Users -> Accounts] /\ (\A v \in Users : GoodRow(v, account'[v]))
      /\ account'[u] = r
  BY <1>1, <1>4, OneAccount DEF r
<1>6. AccountsTypeOK
  BY DEF MembersInv, TypeOK
<1> QED BY <1>2, <1>3, <1>5, <1>6, AccountStep DEF AccountsTypeOK

LEMMA CreateInviteStep ==
  ASSUME MembersInv, NEW u \in Users, NEW role \in Roles, CreateInvite(u, role),
         UNCHANGED <<reset, signedIn>>
  PROVE  AccountsGoOn
<1> DEFINE r == Invited(role)
<1>1. r \in Accounts /\ ~r.consent /\ r.credential = "none"
  BY DEF Invited, Accounts, Statuses
<1> HIDE DEF r
<1>2. Free(u) /\ ~account[u].consent
  BY DEF CreateInvite, MembersInv, HasConsent, Exists
<1>3. GoodRow(u, r)
  BY <1>1, <1>2 DEF GoodRow, Exists
<1>4. account' \in [Users -> Accounts] /\ (\A v \in Users : GoodRow(v, account'[v]))
  BY <1>3, OneAccount DEF CreateInvite, r
<1>5. AccountsTypeOK
  BY DEF MembersInv, TypeOK
<1>6. /\ invite' \in [Users -> {"none", "live", "spent"}]
      /\ \A v \in Users : invite[v] # "none" => invite'[v] # "none"
  BY <1>5 DEF CreateInvite, AccountsTypeOK
<1> QED BY <1>4, <1>5, <1>6, AccountStep DEF AccountsTypeOK

LEMMA ConfirmInviteStep ==
  ASSUME MembersInv, NEW u \in Users, ConfirmInvite(u)
  PROVE  AccountsGoOn
<1> DEFINE r == [account[u] EXCEPT !.credential = "password", !.status = "active", !.consent = TRUE]
<1>1. account[u] \in Accounts
  BY DEF MembersInv, TypeOK, AccountsTypeOK
<1>2. /\ r \in Accounts /\ r.consent /\ r.status = "active"
      /\ r.role = account[u].role
  BY <1>1 DEF Accounts, Statuses
<1>3. account' = [account EXCEPT ![u] = r]
  BY DEF ConfirmInvite
<1> HIDE DEF r
<1>4. GoodRow(u, r)
  BY <1>2 DEF GoodRow
<1>5. account' \in [Users -> Accounts] /\ (\A v \in Users : GoodRow(v, account'[v]))
  BY <1>3, <1>4, OneAccount
<1>6. AccountsTypeOK
  BY DEF MembersInv, TypeOK
<1>7. /\ invite' \in [Users -> {"none", "live", "spent"}]
      /\ \A v \in Users : invite[v] # "none" => invite'[v] # "none"
      /\ UNCHANGED <<reset, signedIn>>
  BY <1>6 DEF ConfirmInvite, AccountsTypeOK
<1> QED BY <1>5, <1>6, <1>7, AccountStep DEF AccountsTypeOK

(* A reset link exists only for an account that was consented to. *)
LEMMA ResetStep ==
  ASSUME MembersInv, NEW u \in Users, ConfirmReset(u)
  PROVE  AccountsGoOn
<1> DEFINE r == [account[u] EXCEPT !.credential = "password"]
<1>1. account[u] \in Accounts /\ account[u].consent /\ GoodRow(u, account[u])
  BY OldRowGood DEF MembersInv, TypeOK, AccountsTypeOK, HasConsent, ConfirmReset
<1>2. /\ r \in Accounts /\ r.consent /\ r.status = account[u].status
      /\ r.role = account[u].role
  BY <1>1 DEF Accounts
<1>3. account' = [account EXCEPT ![u] = r]
  BY DEF ConfirmReset
<1> HIDE DEF r
<1>4. GoodRow(u, r)
  BY <1>1, <1>2 DEF GoodRow
<1>5. account' \in [Users -> Accounts] /\ (\A v \in Users : GoodRow(v, account'[v]))
  BY <1>3, <1>4, OneAccount
<1>6. AccountsTypeOK
  BY DEF MembersInv, TypeOK
<1>7. UNCHANGED <<invite, signedIn>> /\ reset' \subseteq reset
  BY DEF ConfirmReset
<1> QED BY <1>5, <1>6, <1>7, AccountStep DEF AccountsTypeOK

(* Links that lapse, links that are asked for and logins with Google. *)
LEMMA NoRowStep ==
  ASSUME MembersInv, NEW u \in Users,
         InviteLapses(u) \/ RequestReset(u) \/ ResetLapses(u) \/ GoogleLogin(u)
  PROVE  AccountsGoOn
<1>1. AccountsTypeOK /\ HasConsent(u) /\ UNCHANGED account
  BY DEF MembersInv, TypeOK, InviteLapses, RequestReset, ResetLapses, GoogleLogin
<1>2. /\ invite' \in [Users -> {"none", "live", "spent"}]
      /\ \A v \in Users : invite[v] # "none" => invite'[v] # "none"
  BY <1>1 DEF InviteLapses, RequestReset, ResetLapses, GoogleLogin, AccountsTypeOK
<1>3. /\ signedIn' = signedIn \/ (signedIn' = signedIn \cup {u} /\ account[u].consent)
      /\ reset' \subseteq reset \/ (reset' = reset \cup {u} /\ account[u].consent)
  BY <1>1 DEF InviteLapses, RequestReset, ResetLapses, GoogleLogin, IssueSession, HasConsent
<1> QED BY <1>1, <1>2, <1>3, SameAccounts, AccountStep DEF AccountsTypeOK

(* The copy says what cannot have changed. *)
LEMMA SaveCopyStep ==
  ASSUME MembersInv, NEW s \in Slots,
         LoginFails(s) \/ (\E clears \in BOOLEAN : LoginSucceeds(s, clears)) \/ UpdateMineSave(s)
  PROVE  AccountsGoOn
<1> DEFINE u == req[s].user
           row == req[s].row
<1>1. /\ u \in Users /\ row \in Accounts /\ row.consent /\ row.status # "none"
      /\ row.role = account[u].role /\ account[u].consent
  BY DEF LoginFails, LoginSucceeds, UpdateMineSave, MembersInv, Held, HoldsAccount
<1>2. /\ UNCHANGED <<invite, reset>>
      /\ signedIn' = signedIn \/ signedIn' = signedIn \cup {u}
  BY DEF LoginFails, LoginSucceeds, UpdateMineSave, IssueSession
<1>3. /\ [row EXCEPT !.phone = TRUE] \in Accounts
      /\ [row EXCEPT !.phone = TRUE].consent = row.consent
      /\ [row EXCEPT !.phone = TRUE].status = row.status
      /\ [row EXCEPT !.phone = TRUE].role = row.role
  BY <1>1 DEF Accounts
<1>4. UNCHANGED account \/ \E r : GoodRow(u, r) /\ account' = [account EXCEPT ![u] = r]
  <2>1. GoodRow(u, row)
    BY <1>1 DEF GoodRow
  <2>2. GoodRow(u, [row EXCEPT !.phone = TRUE])
    BY <1>1, <1>3 DEF GoodRow
  <2> QED BY <2>1, <2>2 DEF LoginFails, LoginSucceeds, UpdateMineSave
<1>5. account' \in [Users -> Accounts] /\ (\A v \in Users : GoodRow(v, account'[v]))
  <2>1. CASE UNCHANGED account
    BY <2>1, SameAccounts
  <2>2. CASE \E r : GoodRow(u, r) /\ account' = [account EXCEPT ![u] = r]
    BY <1>1, <2>2, OneAccount
  <2> QED BY <1>4, <2>1, <2>2
<1>6. account'[u].consent
  BY <1>1, <1>5 DEF GoodRow
<1>7. AccountsTypeOK
  BY DEF MembersInv, TypeOK
<1> HIDE DEF u, row
<1> QED BY <1>1, <1>2, <1>5, <1>6, <1>7, AccountStep DEF AccountsTypeOK

LEMMA ActivateStep ==
  ASSUME MembersInv, NEW u \in Users, account' = Activated(u), UNCHANGED <<invite, reset, signedIn>>
  PROVE  AccountsGoOn
<1> DEFINE r == [account[u] EXCEPT !.status = "active"]
<1>1. account[u] \in Accounts /\ GoodRow(u, account[u]) /\ AccountsTypeOK
  BY OldRowGood DEF MembersInv, TypeOK, AccountsTypeOK
<1>2. /\ r \in Accounts /\ r.consent = account[u].consent /\ r.status = "active"
      /\ r.role = account[u].role /\ r.credential = account[u].credential
  BY <1>1 DEF Accounts, Statuses
<1>3. account' = [account EXCEPT ![u] = r]
  BY DEF Activated
<1> HIDE DEF r
<1>4. GoodRow(u, r)
  BY <1>1, <1>2 DEF GoodRow
<1> QED BY <1>1, <1>3, <1>4, OneAccount, AccountStep DEF AccountsTypeOK

-----------------------------------------------------------------------------
(* Requests that are sent: what they read holds.                           *)

LEMMA NewHeld ==
  ASSUME NEW s \in Slots, NEW op, At(s, op)',
         op \in {"login", "updateMine"} => HoldsAccount(s)',
         op \in {"onboardRider", "riderPayout"} => HoldsRider(s)',
         op = "onboardNode" => HoldsOperator(s)',
         op \in {"approveNode", "updateNode"} => HoldsNode(s)',
         op = "nodePayout" => HoldsMember(s)',
         op = "inviteStaff" => HoldsInvite(s)',
         op \in {"login", "updateMine", "onboardRider", "riderPayout", "onboardNode",
                 "approveNode", "updateNode", "nodePayout", "inviteStaff"}
  PROVE  Held(s)'
<1>1. req'[s].op = op
  BY DEF At
<1>2. op \notin {"login", "updateMine"} => HoldsAccount(s)'
  BY <1>1 DEF At, HoldsAccount
<1>3. op \notin {"onboardRider", "riderPayout"} => HoldsRider(s)'
  BY <1>1 DEF At, HoldsRider
<1>4. op # "onboardNode" => HoldsOperator(s)'
  BY <1>1 DEF At, HoldsOperator
<1>5. op \notin {"approveNode", "updateNode"} => HoldsNode(s)'
  BY <1>1 DEF At, HoldsNode
<1>6. op # "nodePayout" => HoldsMember(s)'
  BY <1>1 DEF At, HoldsMember
<1>7. op # "inviteStaff" => HoldsInvite(s)'
  BY <1>1 DEF At, HoldsInvite
<1> QED BY <1>2, <1>3, <1>4, <1>5, <1>6, <1>7 DEF Held

AllSame == UNCHANGED <<accountVars, memberVars>>

(* Reading changes nothing else. *)
LEMMA ReadStep ==
  ASSUME MembersInv, AllSame, RequestsGoOn
  PROVE  MembersInv' /\ GoOn
<1>1. UNCHANGED accountVars /\ UNCHANGED <<node, membership, reviewed>>
      /\ UNCHANGED <<profile, carrying, held>>
  BY DEF AllSame, memberVars
<1> QED BY <1>1, QuietAccounts, SameMembers, SameCounters, QuietHandler DEF GoOn

LEMMA AccountReads ==
  ASSUME MembersInv, NEW s \in Slots, NEW u \in Users, UNCHANGED accountVars,
         NEW op \in {"login", "updateMine"},
         req' = [req EXCEPT ![s] = [op |-> op, user |-> u, row |-> account[u]]],
         account[u].credential # "none" \/ u \in signedIn
  PROVE  RequestsGoOn
<1> DEFINE r == [op |-> op, user |-> u, row |-> account[u]]
<1>1. req'[s] = r
  BY SlotSet
<1>2. CASE r = Idle
  BY <1>2, OneSlot
<1>3. CASE r # Idle
  <2>1. /\ account[u] \in Accounts /\ account[u].consent /\ Exists(u)
        /\ UNCHANGED account
    BY DEF MembersInv, TypeOK, AccountsTypeOK, HasConsent, accountVars
  <2>2. At(s, op)'
    BY <1>1, <1>3 DEF At
  <2>3. HoldsAccount(s)'
    BY <1>1, <2>1 DEF HoldsAccount, Exists, Free
  <2>4. Held(s)'
    BY <2>2, <2>3, NewHeld
  <2> QED BY <2>4, OneSlot
<1> QED BY <1>2, <1>3

LEMMA RiderReads ==
  ASSUME MembersInv, NEW s \in Slots, NEW u \in Users,
         OnboardRiderRead(s, u) \/ RiderPayoutRead(s, u)
  PROVE  RequestsGoOn
<1>1. CASE OnboardRiderRead(s, u)
  <2> DEFINE r == [op |-> "onboardRider", user |-> u]
  <2>1. req' = [req EXCEPT ![s] = r]
    BY <1>1 DEF OnboardRiderRead, Take
  <2>2. req'[s] = r
    BY <2>1, SlotSet
  <2>3. r = Idle \/ At(s, "onboardRider")'
    BY <2>2 DEF At
  <2>4. HoldsRider(s)'
    BY <2>2 DEF HoldsRider, At
  <2>5. r = Idle \/ Held(s)'
    BY <2>3, <2>4, NewHeld
  <2> QED BY <2>1, <2>5, OneSlot
<1>2. CASE RiderPayoutRead(s, u)
  <2> DEFINE r == [op |-> "riderPayout", user |-> u, row |-> profile[u]]
  <2>1. req' = [req EXCEPT ![s] = r] /\ profile[u] \in Profiles
    BY <1>2 DEF RiderPayoutRead, Take, MembersInv, TypeOK
  <2>2. req'[s] = r
    BY <2>1, SlotSet
  <2>3. r = Idle \/ At(s, "riderPayout")'
    BY <2>2 DEF At
  <2>4. HoldsRider(s)'
    BY <2>1, <2>2 DEF HoldsRider, At
  <2>5. r = Idle \/ Held(s)'
    BY <2>3, <2>4, NewHeld
  <2> QED BY <2>1, <2>5, OneSlot
<1> QED BY <1>1, <1>2

LEMMA OperatorReads ==
  ASSUME MembersInv, NEW s \in Slots, NEW u \in Users, NEW first, OnboardNodeRead(s, u, first)
  PROVE  RequestsGoOn
<1> DEFINE r == [op |-> "onboardNode", user |-> u]
<1>1. req' = [req EXCEPT ![s] = r] /\ u \in signedIn /\ account[u].role = "node_operator"
      /\ UNCHANGED accountVars
  BY DEF OnboardNodeRead, Take, Caller
<1>2. req'[s] = r
  BY <1>1, SlotSet
<1>3. r = Idle \/ At(s, "onboardNode")'
  BY <1>2 DEF At
<1>4. Exists(u) /\ UNCHANGED <<account, signedIn>>
  BY <1>1 DEF MembersInv, HasConsent, accountVars
<1>5. HoldsOperator(s)'
  BY <1>1, <1>2, <1>4 DEF HoldsOperator, Exists, Free
<1>6. r = Idle \/ Held(s)'
  BY <1>3, <1>5, NewHeld
<1> QED BY <1>1, <1>6, OneSlot

LEMMA NodeReads ==
  ASSUME MembersInv, NEW s \in Slots, NEW n \in Nodes,
         (\E u \in Users : ApproveNodeRead(s, u, n)) \/ UpdateNodeRead(s, n)
  PROVE  RequestsGoOn
<1>1. UNCHANGED node /\ node[n] # NoRow /\ node[n] \in NodeRows
  <2>1. UNCHANGED node /\ node[n] # NoRow
    BY DEF ApproveNodeRead, UpdateNodeRead, memberVars, MembersInv, MemberOK
  <2> QED BY <2>1 DEF MembersInv, TypeOK
<1>2. CASE UpdateNodeRead(s, n)
  <2> DEFINE r == [op |-> "updateNode", node |-> n, row |-> node[n]]
  <2>1. req' = [req EXCEPT ![s] = r]
    BY <1>2 DEF UpdateNodeRead, Take
  <2>2. req'[s] = r
    BY <2>1, SlotSet
  <2>3. r = Idle \/ At(s, "updateNode")'
    BY <2>2 DEF At
  <2>4. HoldsNode(s)'
    BY <1>1, <2>2 DEF HoldsNode, At
  <2>5. r = Idle \/ Held(s)'
    BY <2>3, <2>4, NewHeld
  <2> QED BY <2>1, <2>5, OneSlot
<1>3. ASSUME NEW u \in Users, ApproveNodeRead(s, u, n) PROVE RequestsGoOn
  <2> DEFINE r == [op |-> "approveNode", user |-> u, node |-> n, row |-> node[n]]
  <2>1. req' = [req EXCEPT ![s] = r]
    BY <1>3 DEF ApproveNodeRead, Take
  <2>2. req'[s] = r
    BY <2>1, SlotSet
  <2>3. r = Idle \/ At(s, "approveNode")'
    BY <2>2 DEF At
  <2>4. HoldsNode(s)'
    BY <1>1, <2>2 DEF HoldsNode, At
  <2>5. r = Idle \/ Held(s)'
    BY <2>3, <2>4, NewHeld
  <2> QED BY <2>1, <2>5, OneSlot
<1> QED BY <1>2, <1>3

LEMMA MemberReads ==
  ASSUME MembersInv, NEW s \in Slots, NEW u \in Users, NEW n \in Nodes,
         NodePayoutRead(s, u, n) \/ InviteStaffRead(s, u, n)
  PROVE  RequestsGoOn
<1>1. IsMember(u, n, "owner") /\ UNCHANGED <<membership, node, reviewed>>
  BY DEF NodePayoutRead, InviteStaffRead, AssertOwner, memberVars
<1>2. CASE NodePayoutRead(s, u, n)
  <2> DEFINE r == [op |-> "nodePayout", user |-> u, node |-> n, row |-> membership[u][n]]
  <2>1. req' = [req EXCEPT ![s] = r]
    BY <1>2 DEF NodePayoutRead, Take
  <2>2. membership[u][n] \in Memberships
    BY <1>1 DEF MembersInv, TypeOK, IsMember
  <2>3. req'[s] = r
    BY <2>1, SlotSet
  <2>4. r = Idle \/ At(s, "nodePayout")'
    BY <2>3 DEF At
  <2>5. HoldsMember(s)'
    BY <1>1, <2>2, <2>3 DEF HoldsMember, At, IsMember
  <2>6. r = Idle \/ Held(s)'
    BY <2>4, <2>5, NewHeld
  <2> QED BY <2>1, <2>6, OneSlot
<1>3. CASE InviteStaffRead(s, u, n)
  <2> DEFINE r == [op |-> "inviteStaff", node |-> n]
  <2>1. req' = [req EXCEPT ![s] = r] /\ node[n].status = "active"
    BY <1>3 DEF InviteStaffRead, Take
  <2>2. node[n] # NoRow /\ n \in reviewed
    BY <1>1, <2>1 DEF MembersInv, MemberOK, NodeOK, IsMember
  <2>3. req'[s] = r
    BY <2>1, SlotSet
  <2>4. r = Idle \/ At(s, "inviteStaff")'
    BY <2>3 DEF At
  <2>5. HoldsInvite(s)'
    BY <1>1, <2>2, <2>3 DEF HoldsInvite, At
  <2>6. r = Idle \/ Held(s)'
    BY <2>4, <2>5, NewHeld
  <2> QED BY <2>1, <2>6, OneSlot
<1> QED BY <1>2, <1>3

-----------------------------------------------------------------------------
(* Steps.                                                                  *)

LEMMA Dropped ==
  ASSUME MembersInv, NEW s \in Slots, Drop(s)
  PROVE  RequestsGoOn
BY OneSlot DEF Drop

(* The rows of riders and counters aside, only accounts and requests move. *)
LEMMA AccountHandler ==
  ASSUME MembersInv, AccountsGoOn, RequestsGoOn, Counters, UNCHANGED <<node, membership, reviewed>>
  PROVE  MembersInv' /\ GoOn
BY SameMembers, QuietHandler DEF GoOn

LEMMA AccountsStep ==
  ASSUME MembersInv, AccountsNext, UNCHANGED memberVars
  PROVE  MembersInv' /\ GoOn
<1>1. UNCHANGED <<node, membership, reviewed>> /\ Counters
  BY SameCounters, SameMembers DEF memberVars
<1>2. AccountsGoOn /\ RequestsGoOn => MembersInv' /\ GoOn
  BY <1>1, AccountHandler
<1>3. ASSUME NEW u \in Users, NEW role, NEW accepted,
             Register(u, role) \/ GoogleSignUp(u, role, accepted)
      PROVE  MembersInv' /\ GoOn
  <2>1. UNCHANGED req
    BY <1>3 DEF Register, GoogleSignUp
  <2> QED BY <1>2, <1>3, <2>1, SignUpStep, NoRequest
<1>4. ASSUME NEW u \in Users, NEW role, Invite(u, role) PROVE MembersInv' /\ GoOn
  <2>1. role \in Roles /\ CreateInvite(u, role) /\ UNCHANGED <<reset, signedIn, req>>
    BY <1>4 DEF Invite, Roles
  <2> QED BY <1>2, <2>1, CreateInviteStep, NoRequest
<1>5. ASSUME NEW u \in Users, ConfirmInvite(u) PROVE MembersInv' /\ GoOn
  BY <1>2, <1>5, ConfirmInviteStep, NoRequest DEF ConfirmInvite
<1>6. ASSUME NEW u \in Users, ConfirmReset(u) PROVE MembersInv' /\ GoOn
  BY <1>2, <1>6, ResetStep, NoRequest DEF ConfirmReset
<1>7. ASSUME NEW u \in Users,
             InviteLapses(u) \/ RequestReset(u) \/ ResetLapses(u) \/ GoogleLogin(u)
      PROVE  MembersInv' /\ GoOn
  BY <1>2, <1>7, NoRowStep, NoRequest DEF InviteLapses, RequestReset, ResetLapses, GoogleLogin
<1>8. ASSUME NEW u \in Users, NEW s \in Clients, LoginRead(s, u) \/ UpdateMineRead(s, u)
      PROVE  MembersInv' /\ GoOn
  <2>1. s \in Slots /\ UNCHANGED accountVars
    BY <1>8 DEF Slots, LoginRead, UpdateMineRead
  <2>2. CASE LoginRead(s, u)
    <3>1. /\ req' = [req EXCEPT ![s] = [op |-> "login", user |-> u, row |-> account[u]]]
          /\ account[u].credential # "none"
      BY <2>2 DEF LoginRead, Take
    <3> QED BY <1>2, <2>1, <3>1, AccountReads, QuietAccounts
  <2>3. CASE UpdateMineRead(s, u)
    <3>1. /\ req' = [req EXCEPT ![s] = [op |-> "updateMine", user |-> u, row |-> account[u]]]
          /\ u \in signedIn
      BY <2>3 DEF UpdateMineRead, Take
    <3> QED BY <1>2, <2>1, <3>1, AccountReads, QuietAccounts
  <2> QED BY <1>8, <2>2, <2>3
<1>9. ASSUME NEW s \in Clients,
             LoginFails(s) \/ UpdateMineSave(s) \/ \E clears \in BOOLEAN : LoginSucceeds(s, clears)
      PROVE  MembersInv' /\ GoOn
  <2>1. s \in Slots /\ Drop(s)
    BY <1>9 DEF Slots, LoginFails, UpdateMineSave, LoginSucceeds
  <2> QED BY <1>2, <1>9, <2>1, SaveCopyStep, Dropped
<1> QED BY <1>3, <1>4, <1>5, <1>6, <1>7, <1>8, <1>9 DEF AccountsNext

LEMMA RidersStep ==
  ASSUME MembersInv, RidersNext
  PROVE  MembersInv' /\ GoOn
<1>0. /\ profile \in [Users -> Profiles \cup {NoRow}] /\ carrying \in [Users -> 0 .. MaxActiveOrders]
      /\ held \in [Nodes -> 0 .. Capacity] /\ InHand
      /\ MaxActiveOrders \in Nat /\ NoRow \notin Profiles
  BY MembersAssumption DEF MembersInv, TypeOK
<1>1. ASSUME NEW u \in Users, ApproveRider(u) PROVE MembersInv' /\ GoOn
  <2>1. UNCHANGED <<node, membership, reviewed, req, carrying, held>> /\ AccountsGoOn
    BY <1>1, ActivateStep DEF ApproveRider
  <2> DEFINE r == [profile[u] EXCEPT !.status = "active"]
  <2>2. r \in Profiles
    BY <1>0, <1>1 DEF ApproveRider, Profiles
  <2>3. profile' = [profile EXCEPT ![u] = r]
    BY <1>1 DEF ApproveRider
  <2> HIDE DEF r
  <2>4. Counters
    BY <1>0, <2>1, <2>2, <2>3 DEF Counters, InHand
  <2> QED BY <2>1, <2>4, NoRequest, AccountHandler
<1>2. ASSUME NEW u \in Users, ReserveDeliverySlot(u) PROVE MembersInv' /\ GoOn
  <2> DEFINE r == [profile[u] EXCEPT !.activeOrders = @ + 1]
  <2>1. UNCHANGED <<node, membership, reviewed, req, held>> /\ AccountsGoOn
    BY <1>2, QuietAccounts DEF ReserveDeliverySlot
  <2>2. profile[u] \in Profiles /\ profile[u].activeOrders < MaxActiveOrders
        /\ carrying[u] < MaxActiveOrders
    BY <1>0, <1>2 DEF ReserveDeliverySlot
  <2>3. profile[u].activeOrders + 1 \in 0 .. MaxActiveOrders
        /\ carrying[u] + 1 \in 0 .. MaxActiveOrders
    BY <1>0, <2>2 DEF Profiles
  <2>4. r \in Profiles
    BY <2>2, <2>3 DEF Profiles
  <2>5. profile' = [profile EXCEPT ![u] = r] /\ carrying' = [carrying EXCEPT ![u] = carrying[u] + 1]
    BY <1>2 DEF ReserveDeliverySlot
  <2> HIDE DEF r
  <2>6. Counters
    BY <1>0, <2>1, <2>3, <2>4, <2>5 DEF Counters, InHand
  <2> QED BY <2>1, <2>6, NoRequest, AccountHandler
<1>3. ASSUME NEW u \in Users, ReleaseDeliverySlot(u) PROVE MembersInv' /\ GoOn
  <2> DEFINE k == IF profile[u].activeOrders > 0 THEN profile[u].activeOrders - 1 ELSE 0
             r == [profile[u] EXCEPT !.activeOrders = k]
  <2>1. UNCHANGED <<node, membership, reviewed, req, held>> /\ AccountsGoOn
    BY <1>3, QuietAccounts DEF ReleaseDeliverySlot
  <2>2. profile[u] \in Profiles /\ carrying[u] > 0
    BY <1>0, <1>3 DEF ReleaseDeliverySlot, InHand
  <2>3. k \in 0 .. MaxActiveOrders /\ carrying[u] - 1 \in 0 .. MaxActiveOrders
    BY <1>0, <2>2 DEF Profiles
  <2>4. profile' = [profile EXCEPT ![u] = r] /\ carrying' = [carrying EXCEPT ![u] = carrying[u] - 1]
    BY <1>3 DEF ReleaseDeliverySlot
  <2> HIDE DEF k
  <2>5. r \in Profiles
    BY <2>2, <2>3 DEF Profiles
  <2> HIDE DEF r
  <2>6. Counters
    BY <1>0, <2>1, <2>2, <2>3, <2>4, <2>5 DEF Counters, InHand
  <2> QED BY <2>1, <2>6, NoRequest, AccountHandler
<1>4. ASSUME NEW s \in Clients, NEW u \in Users, OnboardRiderRead(s, u) \/ RiderPayoutRead(s, u)
      PROVE  MembersInv' /\ GoOn
  BY <1>4, RiderReads, ReadStep DEF OnboardRiderRead, RiderPayoutRead, AllSame, Slots
<1>5. ASSUME NEW s \in Clients, OnboardRiderInsert(s) \/ RiderPayoutSave(s)
      PROVE  MembersInv' /\ GoOn
  <2>1. /\ s \in Slots /\ Drop(s) /\ UNCHANGED <<node, membership, reviewed, carrying, held>>
        /\ UNCHANGED accountVars
    BY <1>5 DEF OnboardRiderInsert, RiderPayoutSave, Slots
  <2>2. HoldsRider(s)
    BY <2>1 DEF MembersInv, Held
  <2>3. NewProfile \in Profiles
    BY <1>0 DEF NewProfile, Profiles
  <2>4. PICK r \in Profiles, v \in Users : UNCHANGED profile \/ profile' = [profile EXCEPT ![v] = r]
    <3>1. CASE OnboardRiderInsert(s)
      BY <2>2, <2>3, <3>1 DEF OnboardRiderInsert, HoldsRider
    <3>2. CASE RiderPayoutSave(s)
      <4> DEFINE r == [req[s].row EXCEPT !.payout = TRUE]
      <4>1. r \in Profiles
        BY <2>2, <3>2 DEF RiderPayoutSave, HoldsRider, Profiles
      <4>2. profile' = [profile EXCEPT ![req[s].user] = r] /\ req[s].user \in Users
        BY <2>2, <3>2 DEF RiderPayoutSave, HoldsRider
      <4> QED BY <4>1, <4>2
    <3> QED BY <1>5, <3>1, <3>2
  <2>5. Counters
    BY <1>0, <2>1, <2>4 DEF Counters, InHand
  <2> QED BY <2>1, <2>5, Dropped, QuietAccounts, AccountHandler
<1> QED BY <1>1, <1>2, <1>3, <1>4, <1>5 DEF RidersNext

(* A Node's row is written, or a counter moves with it. *)
LEMMA SaveNodeGoesOn ==
  ASSUME MembersInv, NEW n \in Nodes, NEW r \in NodeRows, SaveNode(n, r),
         node[n] # NoRow => r.portal = node[n].portal
  PROVE  NodesGoOn
<1>1. /\ node \in [Nodes -> NodeRows \cup {NoRow}] /\ reviewed \subseteq Nodes
      /\ r # NoRow /\ \A m \in Nodes : NodeOK(m)
  BY MembersAssumption DEF MembersInv, TypeOK
<1>2. /\ node' = [node EXCEPT ![n] = r]
      /\ reviewed' = reviewed \cup (IF r.status = "active" THEN {n} ELSE {})
  BY DEF SaveNode
<1> QED BY <1>1, <1>2 DEF NodesGoOn, NodeOK

LEMMA MembershipsSame ==
  ASSUME MembersInv, UNCHANGED membership
  PROVE  MembersGoOn /\ NoNewMember
BY DEF MembersInv, TypeOK, MembersGoOn, NoNewMember

(* A Node that was there is saved. *)
LEMMA OldNodeSaved ==
  ASSUME MembersInv, NEW n \in Nodes, NEW r \in NodeRows, SaveNode(n, r),
         node[n] # NoRow, r.portal = node[n].portal,
         AccountsGoOn, UNCHANGED membership, RequestsGoOn, UNCHANGED <<profile, carrying, held>>
  PROVE  MembersInv' /\ GoOn
<1>1. NodesGoOn
  BY SaveNodeGoesOn
<1>2. NoNewNode
  BY DEF SaveNode, NoNewNode, MembersInv, TypeOK
<1> QED BY <1>1, <1>2, MembershipsSame, SameCounters, QuietHandler DEF GoOn

(* Nothing is known of a Node that was not there: nobody is a member of it. *)
LEMMA NobodyThere ==
  ASSUME MembersInv, NEW n \in Nodes, node[n] = NoRow
  PROVE  \A u \in Users : membership[u][n] = NoRow
BY DEF MembersInv, MemberOK

(* Steps that add a row show that it is right. *)
LEMMA NewRow ==
  ASSUME MembersInv, GoOn, Counters, RequestsGoOn,
         \A u \in Users, n \in Nodes : MemberOK(u, n)',
         \A n \in Nodes : node[n] = NoRow => NodeOK(n)'
  PROVE  MembersInv'
<1>1. \A t \in Slots : Held(t)'
  BY HeldOn DEF RequestsGoOn
<1>2. TypeOK'
  BY DEF GoOn, AccountsGoOn, NodesGoOn, MembersGoOn, Counters, TypeOK
<1>3. \A n \in Nodes : NodeOK(n)'
  BY NodeOn
<1>4. \A u \in Users : HasConsent(u)'
  BY DEF GoOn, AccountsGoOn
<1> QED BY <1>1, <1>2, <1>3, <1>4 DEF MembersInv, RequestsGoOn, Counters

LEMMA FreshRows ==
  /\ NewNode("pending", TRUE) \in NodeRows /\ NewNode("active", FALSE) \in NodeRows
  /\ \A role \in {"owner", "staff"} : NewMember(role) \in Memberships
  /\ NoRow \notin NodeRows /\ NoRow \notin Memberships
<1>1. Capacity \in Nat /\ NoRow \notin NodeRows /\ NoRow \notin Memberships
  BY MembersAssumption
<1>2. 0 \in 0 .. Capacity
  BY <1>1
<1>3. NewNode("pending", TRUE) \in NodeRows /\ NewNode("active", FALSE) \in NodeRows
  BY <1>2 DEF NewNode, NodeRows, NodeStatuses
<1>4. \A role \in {"owner", "staff"} : NewMember(role) \in Memberships
  BY DEF NewMember, Memberships
<1> QED BY <1>1, <1>3, <1>4

(* One transaction inserts the Node and its owner. *)
LEMMA OnboardNodeStep ==
  ASSUME MembersInv, NEW s \in Slots, NEW n \in Nodes, OnboardNodeInsert(s, n)
  PROVE  MembersInv' /\ GoOn
<1>1. /\ HoldsOperator(s) /\ At(s, "onboardNode") /\ node[n] = NoRow
      /\ SaveNode(n, NewNode("pending", TRUE)) /\ Drop(s)
      /\ membership' = [membership EXCEPT ![req[s].user][n] = NewMember("owner")]
      /\ UNCHANGED accountVars /\ UNCHANGED <<profile, carrying, held>>
  BY DEF OnboardNodeInsert, MembersInv, Held
<1>2. PICK u \in Users : u = req[s].user /\ u \in signedIn /\ Exists(u)
                         /\ account[u].role = "node_operator"
  BY <1>1 DEF HoldsOperator
<1> DEFINE row == NewNode("pending", TRUE)
           m == NewMember("owner")
<1>3. /\ row \in NodeRows /\ row.status = "pending" /\ row.portal = TRUE
      /\ row # NoRow
  BY FreshRows DEF NewNode
<1>4. m \in Memberships /\ m.role = "owner" /\ m.status = "active" /\ m # NoRow
  BY FreshRows DEF NewMember
<1>5. SaveNode(n, row) /\ membership' = [membership EXCEPT ![u][n] = m]
  BY <1>1, <1>2
<1> HIDE DEF row, m
<1>6. membership \in [Users -> [Nodes -> Memberships \cup {NoRow}]]
      /\ node \in [Nodes -> NodeRows \cup {NoRow}]
  BY DEF MembersInv, TypeOK
<1>7. /\ membership' \in [Users -> [Nodes -> Memberships \cup {NoRow}]]
      /\ membership'[u][n] = m
      /\ \A v \in Users, k \in Nodes : v # u \/ k # n => membership'[v][k] = membership[v][k]
  BY <1>4, <1>5, <1>6
<1>8. \A v \in Users : membership[v][n] = NoRow
  BY <1>1, NobodyThere
<1>9. AccountsGoOn /\ NodesGoOn
  BY <1>1, <1>3, <1>5, QuietAccounts, SaveNodeGoesOn
<1>10. MembersGoOn
  BY <1>7, <1>8 DEF MembersGoOn
<1>11. GoOn /\ Counters /\ RequestsGoOn
  BY <1>1, <1>9, <1>10, SameCounters, Dropped DEF GoOn
<1>12. node'[n] = row /\ UNCHANGED <<account, signedIn>>
  BY <1>1, <1>5, <1>6 DEF SaveNode, accountVars
<1>13. NodeOK(n)'
  <2>1. IsMember(u, n, "owner")'
    BY <1>4, <1>7 DEF IsMember
  <2> QED BY <1>3, <1>12, <2>1 DEF NodeOK
<1>14. ASSUME NEW v \in Users, NEW k \in Nodes PROVE MemberOK(v, k)'
  <2>1. CASE k = n
    <3>1. CASE v = u
      <4>1. OwnerOK(u, n)'
        BY <1>2, <1>4, <1>7, <1>8, <1>12 DEF OwnerOK
      <4> QED BY <1>2, <1>3, <1>4, <1>7, <1>12, <2>1, <3>1, <4>1 DEF MemberOK, Exists, Free
    <3>2. CASE v # u
      BY <1>7, <1>8, <2>1, <3>2 DEF MemberOK
    <3> QED BY <3>1, <3>2
  <2>2. CASE k # n
    <3>1. CASE membership[v][k] = NoRow
      BY <1>7, <2>2, <3>1 DEF MemberOK
    <3>2. CASE membership[v][k] # NoRow
      <4>1. \A j \in Nodes : membership[v][j] = NoRow /\ membership'[v][j] # NoRow =>
              membership'[v][j].role = "owner" /\ account[v].role = "node_operator"
        BY <1>2, <1>4, <1>7
      <4>2. \A w \in Users : membership[w][k] = NoRow /\ membership'[w][k] # NoRow =>
              membership'[w][k].role = "staff"
        BY <1>7, <2>2
      <4> QED BY <1>11, <3>2, <4>1, <4>2, MembersOn
    <3> QED BY <3>1, <3>2
  <2> QED BY <2>1, <2>2
<1>15. \A k \in Nodes : node[k] = NoRow => NodeOK(k)'
  <2> SUFFICES ASSUME NEW k \in Nodes, node[k] = NoRow, k # n PROVE NodeOK(k)'
    BY <1>13
  <2>1. node'[k] = NoRow
    BY <1>5, <1>6 DEF SaveNode
  <2> QED BY <2>1 DEF NodeOK
<1> QED BY <1>11, <1>14, <1>15, NewRow

(* The invited account is new: it is a member of no Node yet. *)
LEMMA InviteStaffStep ==
  ASSUME MembersInv, NEW s \in Slots, NEW u \in Users, InviteStaffInsert(s, u)
  PROVE  MembersInv' /\ GoOn
<1>1. /\ HoldsInvite(s) /\ At(s, "inviteStaff") /\ CreateInvite(u, "node_staff") /\ Drop(s)
      /\ membership' = [membership EXCEPT ![u][req[s].node] = NewMember("staff")]
      /\ UNCHANGED <<reset, signedIn, profile, node, reviewed, carrying, held>>
  BY DEF InviteStaffInsert, MembersInv, Held
<1>2. PICK n \in Nodes : n = req[s].node /\ n \in reviewed /\ node[n] # NoRow
  BY <1>1 DEF HoldsInvite
<1> DEFINE m == NewMember("staff")
<1>3. m \in Memberships /\ m.role = "staff" /\ m.status = "active" /\ m # NoRow
  BY FreshRows DEF NewMember
<1>4. membership' = [membership EXCEPT ![u][n] = m]
  BY <1>1, <1>2
<1> HIDE DEF m
<1>5. /\ membership \in [Users -> [Nodes -> Memberships \cup {NoRow}]]
      /\ node \in [Nodes -> NodeRows \cup {NoRow}]
      /\ account \in [Users -> Accounts] /\ invite \in [Users -> {"none", "live", "spent"}]
  BY DEF MembersInv, TypeOK, AccountsTypeOK
<1>6. /\ membership' \in [Users -> [Nodes -> Memberships \cup {NoRow}]]
      /\ membership'[u][n] = m
      /\ \A v \in Users, k \in Nodes : v # u \/ k # n => membership'[v][k] = membership[v][k]
  BY <1>3, <1>4, <1>5
<1>7. \A k \in Nodes : membership[u][k] = NoRow
  BY <1>1 DEF MembersInv, MemberOK, CreateInvite, Exists
<1>8. AccountsGoOn
  BY <1>1, CreateInviteStep DEF Roles
<1>9. NodesGoOn
  BY <1>1 DEF NodesGoOn, MembersInv, TypeOK, NodeOK
<1>10. MembersGoOn
  BY <1>6, <1>7 DEF MembersGoOn
<1>11. GoOn /\ Counters /\ RequestsGoOn
  BY <1>1, <1>8, <1>9, <1>10, SameCounters, Dropped DEF GoOn
<1>12. account'[u].role = "node_staff" /\ Exists(u)' /\ invite'[u] # "none"
  <2>1. account'[u] = Invited("node_staff") /\ invite'[u] = "live"
    BY <1>1, <1>5 DEF CreateInvite
  <2> QED BY <2>1 DEF Invited, Exists, Free
<1>13. ASSUME NEW v \in Users, NEW k \in Nodes PROVE MemberOK(v, k)'
  <2>1. CASE v = u /\ k = n
    <3>1. \A j \in Nodes \ {n} : membership'[u][j] = NoRow
      BY <1>6, <1>7
    <3>2. StaffOK(u, n)'
      BY <1>1, <1>2, <1>12, <3>1 DEF StaffOK
    <3> QED BY <1>1, <1>2, <1>3, <1>6, <1>12, <2>1, <3>2 DEF MemberOK
  <2>2. CASE ~(v = u /\ k = n)
    <3>1. CASE membership[v][k] = NoRow
      BY <1>6, <2>2, <3>1 DEF MemberOK
    <3>2. CASE membership[v][k] # NoRow
      <4>1. \A j \in Nodes : membership[v][j] = NoRow /\ membership'[v][j] # NoRow =>
              membership'[v][j].role = "owner" /\ account[v].role = "node_operator"
        BY <1>6, <1>7, <3>2
      <4>2. \A w \in Users : membership[w][k] = NoRow /\ membership'[w][k] # NoRow =>
              membership'[w][k].role = "staff"
        BY <1>3, <1>6
      <4> QED BY <1>11, <3>2, <4>1, <4>2, MembersOn
    <3> QED BY <3>1, <3>2
  <2> QED BY <2>1, <2>2
<1>14. \A k \in Nodes : node[k] = NoRow => NodeOK(k)'
  BY <1>1 DEF NodeOK
<1> QED BY <1>11, <1>13, <1>14, NewRow

(* A membership is saved with the role it had: an owner's stays active. *)
LEMMA MemberSaved ==
  ASSUME MembersInv, NEW u \in Users, NEW n \in Nodes, NEW r \in Memberships,
         membership' = [membership EXCEPT ![u][n] = r], membership[u][n] # NoRow,
         r.role = membership[u][n].role,
         r.status = membership[u][n].status \/ (r.role = "staff" /\ r.status = "removed"),
         UNCHANGED accountVars, UNCHANGED <<profile, node, reviewed, carrying, held>>, RequestsGoOn
  PROVE  MembersInv' /\ GoOn
<1>1. membership \in [Users -> [Nodes -> Memberships \cup {NoRow}]] /\ r # NoRow
  BY FreshRows DEF MembersInv, TypeOK
<1>2. /\ membership' \in [Users -> [Nodes -> Memberships \cup {NoRow}]]
      /\ membership'[u][n] = r
      /\ \A v \in Users, k \in Nodes : v # u \/ k # n => membership'[v][k] = membership[v][k]
  BY <1>1
<1>3. MembersGoOn /\ NoNewMember
  <2>1. ASSUME NEW v \in Users, NEW k \in Nodes, membership[v][k] # NoRow
        PROVE  /\ membership'[v][k] # NoRow /\ membership'[v][k].role = membership[v][k].role
               /\ membership[v][k].status = "removed" => membership'[v][k].status = "removed"
               /\ membership[v][k].role = "owner" => membership'[v][k].status = membership[v][k].status
    BY <1>1, <1>2, <2>1
  <2> QED BY <1>2, <2>1 DEF MembersGoOn, NoNewMember
<1>4. NodesGoOn /\ NoNewNode
  BY DEF NodesGoOn, NoNewNode, MembersInv, TypeOK, NodeOK
<1> QED BY <1>3, <1>4, QuietAccounts, SameCounters, QuietHandler DEF GoOn

LEMMA PayoutStep ==
  ASSUME MembersInv, NEW s \in Slots, NodePayoutSave(s)
  PROVE  MembersInv' /\ GoOn
<1>1. /\ HoldsMember(s) /\ At(s, "nodePayout") /\ RequestsGoOn
      /\ UNCHANGED accountVars /\ UNCHANGED <<profile, node, reviewed, carrying, held>>
      /\ membership' = [membership EXCEPT ![req[s].user][req[s].node] = [req[s].row EXCEPT !.payout = TRUE]]
  BY Dropped DEF NodePayoutSave, MembersInv, Held
<1>2. PICK u \in Users, n \in Nodes, c \in Memberships :
        /\ u = req[s].user /\ n = req[s].node /\ c = req[s].row
        /\ c.role = "owner" /\ c.status = "active" /\ IsMember(u, n, "owner")
  BY <1>1 DEF HoldsMember
<1> DEFINE r == [c EXCEPT !.payout = TRUE]
<1>3. r \in Memberships /\ r.role = "owner" /\ r.status = "active"
  BY <1>2 DEF Memberships
<1>4. membership' = [membership EXCEPT ![u][n] = r]
  BY <1>1, <1>2
<1> HIDE DEF r
<1>5. /\ membership[u][n] # NoRow /\ r.role = membership[u][n].role
      /\ r.status = membership[u][n].status
  BY <1>2, <1>3 DEF IsMember
<1> QED BY <1>1, <1>3, <1>4, <1>5, MemberSaved

LEMMA RemoveStaffStep ==
  ASSUME MembersInv, NEW owner, NEW u \in Users, NEW n \in Nodes, RemoveStaff(owner, n, u)
  PROVE  MembersInv' /\ GoOn
<1>1. /\ membership[u][n] # NoRow /\ membership[u][n].role = "staff"
      /\ UNCHANGED accountVars /\ UNCHANGED <<profile, node, reviewed, carrying, held>>
      /\ RequestsGoOn
  BY NoRequest DEF RemoveStaff, IsMember
<1> DEFINE r == [membership[u][n] EXCEPT !.status = "removed"]
<1>2. membership[u][n] \in Memberships
  BY <1>1 DEF MembersInv, TypeOK
<1>3. r \in Memberships /\ r.role = "staff" /\ r.status = "removed"
  BY <1>1, <1>2 DEF Memberships
<1>4. membership' = [membership EXCEPT ![u][n] = r]
  BY DEF RemoveStaff
<1> HIDE DEF r
<1> QED BY <1>1, <1>3, <1>4, MemberSaved

(* What an Admin's edit, an approval, a switch or a counter writes. *)
LEMMA NodeSaves ==
  ASSUME MembersInv, NEW s \in Slots,
         ApproveNodeSave(s) \/ \E status \in NodeStatuses : UpdateNodeSave(s, status)
  PROVE  MembersInv' /\ GoOn
<1>2. HoldsNode(s) /\ RequestsGoOn
  BY Dropped DEF ApproveNodeSave, UpdateNodeSave, MembersInv, Held
<1>3. PICK n \in Nodes, c \in NodeRows :
        n = req[s].node /\ c = req[s].row /\ node[n] # NoRow /\ c.portal = node[n].portal
  BY <1>2 DEF HoldsNode, ApproveNodeSave, UpdateNodeSave
<1>4. PICK status \in NodeStatuses : SaveNode(n, [c EXCEPT !.status = status])
  BY <1>3 DEF ApproveNodeSave, UpdateNodeSave, NodeStatuses
<1> DEFINE r == [c EXCEPT !.status = status]
<1>5. r \in NodeRows /\ r.portal = c.portal
  BY DEF NodeRows
<1>6. AccountsGoOn
  <2>1. CASE ApproveNodeSave(s)
    BY <1>2, <2>1, ActivateStep DEF ApproveNodeSave, HoldsNode
  <2>2. CASE \E st \in NodeStatuses : UpdateNodeSave(s, st)
    BY <2>2, QuietAccounts DEF UpdateNodeSave
  <2> QED BY <2>1, <2>2
<1>7. UNCHANGED membership /\ UNCHANGED <<profile, carrying, held>>
  BY DEF ApproveNodeSave, UpdateNodeSave
<1>8. SaveNode(n, r)
  BY <1>4
<1> HIDE DEF r
<1> QED BY <1>2, <1>3, <1>5, <1>6, <1>7, <1>8, OldNodeSaved

(* A row whose status and portal stay. *)
LEMMA SameStanding ==
  ASSUME MembersInv, NEW n \in Nodes, NEW r \in NodeRows, node' = [node EXCEPT ![n] = r],
         node[n] # NoRow, r.portal = node[n].portal, r.status = node[n].status, reviewed' = reviewed,
         AccountsGoOn, UNCHANGED membership, RequestsGoOn, NodesGoOn => Counters
  PROVE  MembersInv' /\ GoOn
<1>1. /\ node \in [Nodes -> NodeRows \cup {NoRow}] /\ reviewed \subseteq Nodes
      /\ r # NoRow /\ \A m \in Nodes : NodeOK(m)
  BY FreshRows DEF MembersInv, TypeOK
<1>2. NodesGoOn /\ NoNewNode
  BY <1>1 DEF NodesGoOn, NoNewNode, NodeOK
<1> QED BY <1>2, MembershipsSame, QuietHandler DEF GoOn

LEMMA SetVisibilityStep ==
  ASSUME MembersInv, NEW owner \in Users, NEW n \in Nodes, NEW visible \in BOOLEAN,
         SetVisibility(owner, n, visible)
  PROVE  MembersInv' /\ GoOn
<1>1. node[n] # NoRow /\ node[n] \in NodeRows
  <2>1. node[n] # NoRow
    BY DEF SetVisibility, AssertOwner, IsMember, MembersInv, MemberOK
  <2> QED BY <2>1 DEF MembersInv, TypeOK
<1> DEFINE r == [node[n] EXCEPT !.visible = visible]
<1>2. r \in NodeRows /\ r.status = node[n].status /\ r.portal = node[n].portal
  BY <1>1 DEF NodeRows
<1>3. /\ node' = [node EXCEPT ![n] = r] /\ UNCHANGED <<membership, req, reviewed>>
      /\ UNCHANGED <<profile, carrying, held>> /\ UNCHANGED accountVars
  BY DEF SetVisibility
<1> HIDE DEF r
<1> QED BY <1>1, <1>2, <1>3, SameCounters, SameStanding, QuietAccounts, NoRequest

LEMMA SlotSteps ==
  ASSUME MembersInv, NEW n \in Nodes, ReserveCapacitySlot(n) \/ ReleaseCapacitySlot(n)
  PROVE  MembersInv' /\ GoOn
<1>1. /\ profile \in [Users -> Profiles \cup {NoRow}] /\ carrying \in [Users -> 0 .. MaxActiveOrders]
      /\ held \in [Nodes -> 0 .. Capacity] /\ InHand /\ Capacity \in Nat
  BY MembersAssumption DEF MembersInv, TypeOK
<1>2. /\ UNCHANGED <<membership, req, reviewed, profile, carrying>> /\ UNCHANGED accountVars
      /\ node[n] # NoRow
  BY <1>1 DEF ReserveCapacitySlot, ReleaseCapacitySlot, InHand
<1>3. node[n] \in NodeRows
  BY <1>2 DEF MembersInv, TypeOK
<1>4. PICK k \in 0 .. Capacity, h \in 0 .. Capacity :
        /\ node' = [node EXCEPT ![n] = [node[n] EXCEPT !.count = k]]
        /\ held' = [held EXCEPT ![n] = h]
  <2>1. CASE ReserveCapacitySlot(n)
    <3>1. node[n].count < Capacity /\ held[n] < Capacity
      BY <2>1 DEF ReserveCapacitySlot
    <3>2. node[n].count + 1 \in 0 .. Capacity /\ held[n] + 1 \in 0 .. Capacity
      BY <1>1, <1>3, <3>1 DEF NodeRows
    <3> QED BY <2>1, <3>2 DEF ReserveCapacitySlot
  <2>2. CASE ReleaseCapacitySlot(n)
    <3> DEFINE k == IF node[n].count > 0 THEN node[n].count - 1 ELSE 0
    <3>1. held[n] > 0 /\ node' = [node EXCEPT ![n] = [node[n] EXCEPT !.count = k]]
      BY <2>2 DEF ReleaseCapacitySlot
    <3>2. k \in 0 .. Capacity /\ held[n] - 1 \in 0 .. Capacity
      BY <1>1, <1>3, <3>1 DEF NodeRows
    <3> HIDE DEF k
    <3> QED BY <2>2, <3>1, <3>2 DEF ReleaseCapacitySlot
  <2> QED BY <2>1, <2>2
<1> DEFINE r == [node[n] EXCEPT !.count = k]
<1>5. r \in NodeRows /\ r.status = node[n].status /\ r.portal = node[n].portal
  BY <1>3 DEF NodeRows
<1>6. node' = [node EXCEPT ![n] = r]
  BY <1>4
<1> HIDE DEF r
<1>7. NodesGoOn => Counters
  <2>1. \A m \in Nodes : held'[m] > 0 => node[m] # NoRow
    BY <1>1, <1>2, <1>4 DEF InHand
  <2> QED BY <1>1, <1>2, <1>4, <2>1 DEF Counters, InHand, NodesGoOn
<1> QED BY <1>2, <1>5, <1>6, <1>7, SameStanding, QuietAccounts, NoRequest

LEMMA CreateNodeStep ==
  ASSUME MembersInv, NEW n \in Nodes, CreateNode(n)
  PROVE  MembersInv' /\ GoOn
<1> DEFINE r == NewNode("active", FALSE)
<1>1. r \in NodeRows /\ r.status = "active" /\ ~r.portal /\ r # NoRow
  BY FreshRows DEF NewNode
<1>2. /\ SaveNode(n, r) /\ node[n] = NoRow /\ UNCHANGED <<membership, req>>
      /\ UNCHANGED <<profile, carrying, held>> /\ UNCHANGED accountVars
  BY DEF CreateNode
<1> HIDE DEF r
<1>3. GoOn /\ NoNewMember /\ Counters
  BY <1>1, <1>2, QuietAccounts, SaveNodeGoesOn, MembershipsSame, SameCounters DEF GoOn
<1>4. \A k \in Nodes : node[k] = NoRow => NodeOK(k)'
  BY <1>1, <1>2 DEF SaveNode, NodeOK, MembersInv, TypeOK
<1> QED BY <1>2, <1>3, <1>4, NobodyNew, NewRow, NoRequest

LEMMA OperatorsStep ==
  ASSUME MembersInv, OperatorsNext
  PROVE  MembersInv' /\ GoOn
<1>1. ASSUME NEW s \in Clients, NEW u \in Users, NEW first, OnboardNodeRead(s, u, first)
      PROVE  MembersInv' /\ GoOn
  BY <1>1, OperatorReads, ReadStep DEF OnboardNodeRead, AllSame, Slots
<1>2. ASSUME NEW s \in Admins, NEW u \in Users, NEW n \in Nodes, ApproveNodeRead(s, u, n)
      PROVE  MembersInv' /\ GoOn
  BY <1>2, NodeReads, ReadStep DEF ApproveNodeRead, AllSame, Slots
<1>3. ASSUME NEW s \in Clients, NEW u \in Users, NEW n \in Nodes,
             NodePayoutRead(s, u, n) \/ InviteStaffRead(s, u, n)
      PROVE  MembersInv' /\ GoOn
  BY <1>3, MemberReads, ReadStep DEF NodePayoutRead, InviteStaffRead, AllSame, Slots
<1>4. ASSUME NEW s \in Clients, NEW u \in Users, OnboardNodeRefused(s) \/ InviteStaffRefused(s, u)
      PROVE  MembersInv' /\ GoOn
  BY <1>4, Dropped, ReadStep DEF OnboardNodeRefused, InviteStaffRefused, AllSame, Slots
<1>5. ASSUME NEW s \in Clients, OnboardNodeRefused(s) PROVE MembersInv' /\ GoOn
  BY <1>5, Dropped, ReadStep DEF OnboardNodeRefused, AllSame, Slots
<1>6. ASSUME NEW s \in Clients, NEW n \in Nodes, OnboardNodeInsert(s, n) PROVE MembersInv' /\ GoOn
  BY <1>6, OnboardNodeStep DEF Slots
<1>7. ASSUME NEW s \in Clients, NEW u \in Users, InviteStaffInsert(s, u) PROVE MembersInv' /\ GoOn
  BY <1>7, InviteStaffStep DEF Slots
<1>8. ASSUME NEW s \in Clients, NodePayoutSave(s) PROVE MembersInv' /\ GoOn
  BY <1>8, PayoutStep DEF Slots
<1>9. ASSUME NEW s \in Admins, ApproveNodeSave(s) PROVE MembersInv' /\ GoOn
  BY <1>9, NodeSaves DEF Slots
<1> QED BY <1>1, <1>2, <1>3, <1>4, <1>5, <1>6, <1>7, <1>8, <1>9, RemoveStaffStep, SetVisibilityStep
        DEF OperatorsNext

LEMMA NodesStep ==
  ASSUME MembersInv, NodesNext
  PROVE  MembersInv' /\ GoOn
<1>1. ASSUME NEW s \in Admins, NEW n \in Nodes, UpdateNodeRead(s, n) PROVE MembersInv' /\ GoOn
  BY <1>1, NodeReads, ReadStep DEF UpdateNodeRead, AllSame, Slots
<1>2. ASSUME NEW s \in Admins, UpdateNodeRefused(s) PROVE MembersInv' /\ GoOn
  BY <1>2, Dropped, ReadStep DEF UpdateNodeRefused, AllSame, Slots
<1>3. ASSUME NEW s \in Admins, NEW status \in NodeStatuses, UpdateNodeSave(s, status)
      PROVE  MembersInv' /\ GoOn
  BY <1>3, NodeSaves DEF Slots
<1> QED BY <1>1, <1>2, <1>3, CreateNodeStep, SlotSteps DEF NodesNext

-----------------------------------------------------------------------------
(* The theorems.                                                           *)

LEMMA MembersInit ==
  ASSUME Init
  PROVE  MembersInv
<1>1. /\ account = [u \in Users |-> NoAccount] /\ invite = [u \in Users |-> "none"]
      /\ reset = {} /\ signedIn = {} /\ req = [s \in Slots |-> Idle]
      /\ profile = [u \in Users |-> NoRow] /\ node = [n \in Nodes |-> NoRow]
      /\ membership = [u \in Users |-> [n \in Nodes |-> NoRow]] /\ reviewed = {}
      /\ carrying = [u \in Users |-> 0] /\ held = [n \in Nodes |-> 0]
  BY DEF Init, AccountsInit
<1>2. NoAccount \in Accounts /\ NoAccount.credential = "none" /\ ~NoAccount.consent
  BY DEF NoAccount, Accounts, Statuses
<1>3. 0 \in 0 .. Capacity /\ 0 \in 0 .. MaxActiveOrders
  BY MembersAssumption
<1>4. AccountsTypeOK
  BY <1>1, <1>2 DEF AccountsTypeOK
<1>5. TypeOK
  BY <1>1, <1>3, <1>4 DEF TypeOK
<1>6. InHand /\ req = [s \in Slots |-> req[s]]
  BY <1>1 DEF InHand
<1>7. \A u \in Users : HasConsent(u)
  BY <1>1, <1>2 DEF HasConsent
<1>8. (\A u \in Users, n \in Nodes : MemberOK(u, n)) /\ \A n \in Nodes : NodeOK(n)
  BY <1>1 DEF MemberOK, NodeOK
<1>9. \A s \in Slots : Held(s)
  BY <1>1 DEF Held, HoldsAccount, HoldsRider, HoldsOperator, HoldsNode, HoldsMember, HoldsInvite, At
<1> QED BY <1>5, <1>6, <1>7, <1>8, <1>9 DEF MembersInv

LEMMA MembersStep ==
  ASSUME MembersInv, Next
  PROVE  MembersInv' /\ GoOn
<1>1. CASE AccountsNext /\ UNCHANGED memberVars
  BY <1>1, AccountsStep
<1> QED BY <1>1, RidersStep, OperatorsStep, NodesStep DEF Next

LEMMA MembersStutter ==
  ASSUME MembersInv, UNCHANGED vars
  PROVE  MembersInv'
<1>1. AllSame /\ UNCHANGED req
  BY DEF vars, AllSame, accountVars, memberVars
<1> QED BY <1>1, NoRequest, ReadStep

LEMMA MembersAlways == Spec => []MembersInv
<1>1. Init => MembersInv
  BY MembersInit
<1>2. MembersInv /\ [Next]_vars => MembersInv'
  BY MembersStep, MembersStutter
<1> QED BY <1>1, <1>2, PTL DEF Spec

(* Whoever is signed in, or has a password or a Google identity to sign in *)
(* with, has accepted the terms: ConfirmInviteService and the sign-ups are *)
(* the only handlers that record it, and no save of an old row undoes it.  *)
THEOREM ConsentAlwaysFirst == Spec => []ConsentBeforeUse
<1>1. MembersInv => ConsentBeforeUse
  BY DEF MembersInv, HasConsent, ConsentBeforeUse
<1> QED BY <1>1, MembersAlways, PTL

(* Every Node that came in through the portal has exactly one owner, an    *)
(* operator who is signed in, whatever copies of its row, of its owner's   *)
(* membership and of the account the other handlers save meanwhile         *)
(* (OnboardNodeService, SetNodePayoutAccountService, MyProfileService).     *)
THEOREM PortalNodesHaveOneOwner == Spec => []OwnedByOne
<1>1. ASSUME MembersInv, NEW n \in Nodes, node[n] # NoRow, node[n].portal
      PROVE  \E o \in Users :
               /\ IsMember(o, n, "owner") /\ account[o].role = "node_operator" /\ o \in signedIn
               /\ \A u \in Users \ {o} : ~IsMember(u, n, "owner")
  <2>1. PICK o \in Users : IsMember(o, n, "owner")
    BY <1>1 DEF MembersInv, NodeOK
  <2>2. OwnerOK(o, n)
    BY <1>1, <2>1 DEF MembersInv, MemberOK, IsMember
  <2>3. \A u \in Users \ {o} : ~IsMember(u, n, "owner")
    BY <2>2 DEF OwnerOK, IsMember
  <2> QED BY <2>1, <2>2, <2>3 DEF OwnerOK
<1>2. MembersInv => OwnedByOne
  BY <1>1 DEF MembersInv, OwnedByOne
<1> QED BY <1>2, MembersAlways, PTL

(* A staff member was invited, to a Node an Admin had made active, and is  *)
(* a member of no other (InviteNodeStaffService: the address must be new). *)
THEOREM StaffAlwaysAtOneReviewedNode == Spec => []StaffWorkAtOneReviewedNode
<1>1. MembersInv => StaffWorkAtOneReviewedNode
  BY DEF MembersInv, MemberOK, StaffOK, StaffWorkAtOneReviewedNode
<1> QED BY <1>1, MembersAlways, PTL

(* No step deletes a membership, changes its role or revives a removed     *)
(* one: the payout handler's copy, the one row that is saved whole, is an  *)
(* owner's, and an owner is never removed.                                 *)
THEOREM MembershipsOnlyEnd == Spec => MembershipOnlyEnds
<1> DEFINE Ends ==
      \A u \in Users, n \in Nodes : membership[u][n] # NoRow =>
        /\ membership'[u][n] # NoRow /\ membership'[u][n].role = membership[u][n].role
        /\ membership[u][n].status = "removed" => membership'[u][n].status = "removed"
<1>1. MembersInv /\ [Next]_vars => [Ends]_vars
  <2>1. MembersInv /\ Next => Ends
    BY MembersStep DEF GoOn, MembersGoOn
  <2> QED BY <2>1
<1> QED BY <1>1, MembersAlways, PTL DEF Spec, MembershipOnlyEnds
================================================================================
