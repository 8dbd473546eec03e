-------------------------------- MODULE Members --------------------------------
(***************************************************************************)
(* Who may carry and who may run a counter: rider profiles, Nodes and the  *)
(* memberships that tie users to Nodes (riders, node-operators, nodes),    *)
(* on top of the accounts they belong to.                                  *)
(*                                                                         *)
(* The payout and Node edit handlers save the whole row they read, the     *)
(* counters of deliveries and parcels included; those counters otherwise   *)
(* change by one statement under the row's lock (Fulfilment has the        *)
(* handlers that call it).  carrying and held are what the counters count. *)
(***************************************************************************)
EXTENDS Accounts

CONSTANTS
  Nodes,
  Capacity,          \* nodes.capacity
  MaxActiveOrders,   \* MAX_ACTIVE_ORDERS_PER_RIDER
  NoRow

VARIABLES
  profile,     \* rider_profiles, by user
  node,        \* nodes
  membership,  \* node_memberships, by user and Node
  reviewed,    \* the Nodes an Admin has at some time made active
  carrying,    \* deliveries a rider has accepted and not handed over
  held         \* parcels and reservations a Node has in hand

memberVars == <<profile, node, membership, reviewed, carrying, held>>
vars == <<account, invite, reset, signedIn, req, profile, node, membership, reviewed, carrying, held>>

NodeStatuses == {"pending", "active", "inactive", "suspended"}
Profiles == [status : {"pending", "active"}, activeOrders : 0 .. MaxActiveOrders, payout : BOOLEAN]
NodeRows == [status : NodeStatuses, count : 0 .. Capacity, visible : BOOLEAN, portal : BOOLEAN]
Memberships == [role : {"owner", "staff"}, status : {"active", "removed"}, payout : BOOLEAN]

ASSUME MembersAssumption ==
  /\ Capacity \in Nat /\ MaxActiveOrders \in Nat
  /\ NoRow \notin Profiles \cup NodeRows \cup Memberships

NewProfile == [status |-> "pending", activeOrders |-> 0, payout |-> FALSE]
NewNode(status, portal) == [status |-> status, count |-> 0, visible |-> TRUE, portal |-> portal]
NewMember(role) == [role |-> role, status |-> "active", payout |-> FALSE]

Init ==
  /\ AccountsInit
  /\ profile = [u \in Users |-> NoRow]
  /\ node = [n \in Nodes |-> NoRow]
  /\ membership = [u \in Users |-> [n \in Nodes |-> NoRow]]
  /\ reviewed = {}
  /\ carrying = [u \in Users |-> 0]
  /\ held = [n \in Nodes |-> 0]

IsMember(u, n, role) == membership[u][n] # NoRow /\ membership[u][n].role = role /\ membership[u][n].status = "active"
OwnsSomeNode(u) == \E n \in Nodes : IsMember(u, n, "owner")

(* RolesGuard: the session's role is the account's. *)
Caller(u, role) == u \in signedIn /\ account[u].role = role

AssertOwner(u, n) == Caller(u, "node_operator") /\ IsMember(u, n, "owner")

(* repo.save of a Node row, or its INSERT. *)
SaveNode(n, row) ==
  /\ node' = [node EXCEPT ![n] = row]
  /\ reviewed' = IF row.status = "active" THEN reviewed \cup {n} ELSE reviewed

(***************************************************************************)
(* Riders.                                                                 *)
(***************************************************************************)
OnboardRiderRead(s, u) ==
  /\ Caller(u, "rider")
  /\ profile[u] = NoRow
  /\ account[u].phone
  /\ Take(s, [op |-> "onboardRider", user |-> u])
  /\ UNCHANGED <<accountVars, memberVars>>

(* After the document store has answered; the unique index refuses a second profile. *)
OnboardRiderInsert(s) ==
  /\ At(s, "onboardRider")
  /\ profile' = IF profile[req[s].user] = NoRow
                THEN [profile EXCEPT ![req[s].user] = NewProfile] ELSE profile
  /\ Drop(s)
  /\ UNCHANGED <<accountVars, node, membership, reviewed, carrying, held>>

ApproveRider(u) ==
  /\ profile[u] # NoRow
  /\ account' = Activated(u)
  /\ profile' = [profile EXCEPT ![u].status = "active"]
  /\ UNCHANGED <<invite, reset, signedIn, req, node, membership, reviewed, carrying, held>>

RiderPayoutRead(s, u) ==
  /\ Caller(u, "rider")
  /\ profile[u] # NoRow
  /\ Take(s, [op |-> "riderPayout", user |-> u, row |-> profile[u]])
  /\ UNCHANGED <<accountVars, memberVars>>

RiderPayoutSave(s) ==
  /\ At(s, "riderPayout")
  /\ profile' = [profile EXCEPT ![req[s].user] = [req[s].row EXCEPT !.payout = TRUE]]
  /\ Drop(s)
  /\ UNCHANGED <<accountVars, node, membership, reviewed, carrying, held>>

ReserveDeliverySlot(u) ==
  /\ Caller(u, "rider")
  /\ profile[u] # NoRow /\ profile[u].status = "active"
  /\ profile[u].activeOrders < MaxActiveOrders
  /\ carrying[u] < MaxActiveOrders
  /\ profile' = [profile EXCEPT ![u].activeOrders = @ + 1]
  /\ carrying' = [carrying EXCEPT ![u] = @ + 1]
  /\ UNCHANGED <<accountVars, req, node, membership, reviewed, held>>

ReleaseDeliverySlot(u) ==
  /\ carrying[u] > 0
  /\ profile' = [profile EXCEPT ![u].activeOrders = IF @ > 0 THEN @ - 1 ELSE 0]
  /\ carrying' = [carrying EXCEPT ![u] = @ - 1]
  /\ UNCHANGED <<accountVars, req, node, membership, reviewed, held>>

(***************************************************************************)
(* Node operators.                                                         *)
(***************************************************************************)
(* onboard (the first Node) and addNode (a further one), up to the geocoder's answer. *)
OnboardNodeRead(s, u, first) ==
  /\ Caller(u, "node_operator")
  /\ OwnsSomeNode(u) # first
  /\ account[u].phone
  /\ Take(s, [op |-> "onboardNode", user |-> u])
  /\ UNCHANGED <<accountVars, memberVars>>

(* Mutant: the Node is committed before its membership, which fails. *)
OnboardNodeInsertAlone(s, n) ==
  /\ At(s, "onboardNode")
  /\ node[n] = NoRow
  /\ SaveNode(n, NewNode("pending", TRUE))
  /\ Drop(s)
  /\ UNCHANGED <<accountVars, membership, profile, carrying, held>>

(* One transaction inserts the pending Node and its owner. *)
OnboardNodeInsert(s, n) ==
  /\ At(s, "onboardNode")
  /\ node[n] = NoRow
  /\ SaveNode(n, NewNode("pending", TRUE))
  /\ membership' = [membership EXCEPT ![req[s].user][n] = NewMember("owner")]
  /\ Drop(s)
  /\ UNCHANGED <<accountVars, profile, carrying, held>>

(* The geocoder places the address elsewhere: NodeLocationMismatchException. *)
OnboardNodeRefused(s) ==
  /\ At(s, "onboardNode")
  /\ Drop(s)
  /\ UNCHANGED <<accountVars, memberVars>>

(* approve names a membership; the transaction reads the Node and saves it. *)
ApproveNodeRead(s, u, n) ==
  /\ membership[u][n] # NoRow /\ membership[u][n].status = "active"
  /\ Take(s, [op |-> "approveNode", user |-> u, node |-> n, row |-> node[n]])
  /\ UNCHANGED <<accountVars, memberVars>>

ApproveNodeSave(s) ==
  /\ At(s, "approveNode")
  /\ account' = Activated(req[s].user)
  /\ SaveNode(req[s].node, [req[s].row EXCEPT !.status = "active"])
  /\ Drop(s)
  /\ UNCHANGED <<invite, reset, signedIn, profile, membership, carrying, held>>

NodePayoutRead(s, u, n) ==
  /\ AssertOwner(u, n)
  /\ Take(s, [op |-> "nodePayout", user |-> u, node |-> n, row |-> membership[u][n]])
  /\ UNCHANGED <<accountVars, memberVars>>

NodePayoutSave(s) ==
  /\ At(s, "nodePayout")
  /\ membership' = [membership EXCEPT ![req[s].user][req[s].node] = [req[s].row EXCEPT !.payout = TRUE]]
  /\ Drop(s)
  /\ UNCHANGED <<accountVars, profile, node, reviewed, carrying, held>>

(* Mutant: a pending Node may invite too. *)
InviteStaffReadPending(s, owner, n) ==
  /\ AssertOwner(owner, n)
  /\ Take(s, [op |-> "inviteStaff", node |-> n])
  /\ UNCHANGED <<accountVars, memberVars>>

(* invite checks the owner and the Node, then opens its transaction. *)
InviteStaffRead(s, owner, n) ==
  /\ AssertOwner(owner, n)
  /\ node[n].status = "active"
  /\ Take(s, [op |-> "inviteStaff", node |-> n])
  /\ UNCHANGED <<accountVars, memberVars>>

(* The invited address is new; the account and its membership commit together. *)
InviteStaffInsert(s, u) ==
  /\ At(s, "inviteStaff")
  /\ CreateInvite(u, "node_staff")
  /\ membership' = [membership EXCEPT ![u][req[s].node] = NewMember("staff")]
  /\ Drop(s)
  /\ UNCHANGED <<reset, signedIn, profile, node, reviewed, carrying, held>>

InviteStaffRefused(s, u) ==
  /\ At(s, "inviteStaff")
  /\ Exists(u)
  /\ Drop(s)
  /\ UNCHANGED <<accountVars, memberVars>>

(* Mutant: the target may be an owner. *)
RemoveMember(owner, n, u) ==
  /\ AssertOwner(owner, n)
  /\ membership[u][n] # NoRow /\ membership[u][n].status = "active"
  /\ membership' = [membership EXCEPT ![u][n].status = "removed"]
  /\ UNCHANGED <<accountVars, req, profile, node, reviewed, carrying, held>>

(* What remove and setVisibility check first no other request can undo, but for *)
(* the Node's status, which an Admin's edit may change: one action each.        *)
RemoveStaff(owner, n, u) ==
  /\ AssertOwner(owner, n)
  /\ IsMember(u, n, "staff")
  /\ membership' = [membership EXCEPT ![u][n].status = "removed"]
  /\ UNCHANGED <<accountVars, req, profile, node, reviewed, carrying, held>>

SetVisibility(owner, n, visible) ==
  /\ AssertOwner(owner, n)
  /\ node[n].status = "active"
  /\ node' = [node EXCEPT ![n].visible = visible]
  /\ UNCHANGED <<accountVars, req, profile, membership, reviewed, carrying, held>>

(***************************************************************************)
(* Nodes.                                                                  *)
(***************************************************************************)
CreateNode(n) ==
  /\ node[n] = NoRow
  /\ SaveNode(n, NewNode("active", FALSE))
  /\ UNCHANGED <<accountVars, req, profile, membership, carrying, held>>

UpdateNodeRead(s, n) ==
  /\ node[n] # NoRow
  /\ Take(s, [op |-> "updateNode", node |-> n, row |-> node[n]])
  /\ UNCHANGED <<accountVars, memberVars>>

(* status is the Admin's, or the copy's when the edit does not name it. *)
UpdateNodeSave(s, status) ==
  /\ At(s, "updateNode")
  /\ SaveNode(req[s].node, [req[s].row EXCEPT !.status = status])
  /\ Drop(s)
  /\ UNCHANGED <<accountVars, profile, membership, carrying, held>>

UpdateNodeRefused(s) ==
  /\ At(s, "updateNode")
  /\ Drop(s)
  /\ UNCHANGED <<accountVars, memberVars>>

ReserveCapacitySlot(n) ==
  /\ node[n] # NoRow /\ node[n].status = "active"
  /\ node[n].count < Capacity
  /\ held[n] < Capacity
  /\ node' = [node EXCEPT ![n].count = @ + 1]
  /\ held' = [held EXCEPT ![n] = @ + 1]
  /\ UNCHANGED <<accountVars, req, profile, membership, reviewed, carrying>>

ReleaseCapacitySlot(n) ==
  /\ held[n] > 0
  /\ node' = [node EXCEPT ![n].count = IF @ > 0 THEN @ - 1 ELSE 0]
  /\ held' = [held EXCEPT ![n] = @ - 1]
  /\ UNCHANGED <<accountVars, req, profile, membership, reviewed, carrying>>

RidersNext ==
  \/ \E u \in Users : ApproveRider(u) \/ ReserveDeliverySlot(u) \/ ReleaseDeliverySlot(u)
  \/ \E s \in Clients, u \in Users : OnboardRiderRead(s, u) \/ RiderPayoutRead(s, u)
  \/ \E s \in Clients : OnboardRiderInsert(s) \/ RiderPayoutSave(s)

OperatorsNext ==
  \/ \E s \in Clients, u \in Users, first \in BOOLEAN : OnboardNodeRead(s, u, first)
  \/ \E s \in Admins, u \in Users, n \in Nodes : ApproveNodeRead(s, u, n)
  \/ \E s \in Clients, u \in Users, n \in Nodes : NodePayoutRead(s, u, n) \/ InviteStaffRead(s, u, n)
  \/ \E s \in Clients, n \in Nodes : OnboardNodeInsert(s, n)
  \/ \E s \in Clients : OnboardNodeRefused(s) \/ NodePayoutSave(s)
  \/ \E s \in Admins : ApproveNodeSave(s)
  \/ \E s \in Clients, u \in Users : InviteStaffInsert(s, u) \/ InviteStaffRefused(s, u)
  \/ \E owner, u \in Users, n \in Nodes : RemoveStaff(owner, n, u)
  \/ \E owner \in Users, n \in Nodes, visible \in BOOLEAN : SetVisibility(owner, n, visible)

NodesNext ==
  \/ \E n \in Nodes : CreateNode(n) \/ ReserveCapacitySlot(n) \/ ReleaseCapacitySlot(n)
  \/ \E s \in Admins, n \in Nodes : UpdateNodeRead(s, n)
  \/ \E s \in Admins, status \in NodeStatuses : UpdateNodeSave(s, status)
  \/ \E s \in Admins : UpdateNodeRefused(s)

Next == (AccountsNext /\ UNCHANGED memberVars) \/ RidersNext \/ OperatorsNext \/ NodesNext

Spec == Init /\ [][Next]_vars

(***************************************************************************)
(* Properties.                                                             *)
(***************************************************************************)
(* Rows hold what the code can write; a counter never passes its limit,    *)
(* whatever copy is saved over it.                                         *)
TypeOK ==
  /\ AccountsTypeOK
  /\ profile \in [Users -> Profiles \cup {NoRow}]
  /\ node \in [Nodes -> NodeRows \cup {NoRow}]
  /\ membership \in [Users -> [Nodes -> Memberships \cup {NoRow}]]
  /\ reviewed \subseteq Nodes
  /\ carrying \in [Users -> 0 .. MaxActiveOrders] /\ held \in [Nodes -> 0 .. Capacity]

(* A Node that came in through the portal has one owner from its first to  *)
(* its last day, an operator with a phone-checked account: the review      *)
(* queue, the payout account and every owner-only operation find that row. *)
OwnedByOne ==
  TypeOK /\ \A n \in Nodes : node[n] # NoRow /\ node[n].portal =>
    \E o \in Users : /\ IsMember(o, n, "owner") /\ account[o].role = "node_operator" /\ o \in signedIn
                     /\ \A u \in Users \ {o} : ~IsMember(u, n, "owner")

(* Someone who works at a Node was invited by its owner after an Admin had *)
(* reviewed it, as staff of that Node only (InviteNodeStaffService).       *)
StaffWorkAtOneReviewedNode ==
  \A u \in Users, n \in Nodes : membership[u][n] # NoRow /\ membership[u][n].role = "staff" =>
    /\ n \in reviewed /\ Exists(u) /\ invite[u] # "none"
    /\ \A m \in Nodes \ {n} : membership[u][m] = NoRow

(* "A removed row must stay inert everywhere" (node-membership.entity.ts): *)
(* no request brings a removed member back, nor takes an owner away.       *)
MembershipOnlyEnds ==
  [][\A u \in Users, n \in Nodes : membership[u][n] # NoRow =>
       /\ membership'[u][n] # NoRow /\ membership'[u][n].role = membership[u][n].role
       /\ membership[u][n].status = "removed" => membership'[u][n].status = "removed"]_vars

(* "Only ever touched via those two methods, never a plain repo.save"      *)
(* (node.entity.ts): a Node's counter says how many slots it has in hand.  *)
CountIsHeld == \A n \in Nodes : node[n] # NoRow => node[n].count = held[n]
================================================================================
