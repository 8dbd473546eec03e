SPECIFICATION Spec
CONSTANTS
  Users = {u1, u2}
  Signable = {"rider", "node_operator"}
  Clients = {c1}
  Admins = {a1}
  Nodes = {n1}
  Idle = Idle
  NoRow = NoRow
  Capacity = 1
  MaxActiveOrders = 1
CONSTRAINT Apart
SYMMETRY Symmetry
INVARIANTS
  ConsentBeforeUse
  OwnedByOne
  StaffWorkAtOneReviewedNode
PROPERTY MembershipOnlyEnds
CHECK_DEADLOCK FALSE
