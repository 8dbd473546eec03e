SPECIFICATION HistorySpec
CONSTANTS
  o1 = o1
  o2 = o2
  o3 = o3
  n1 = n1
  n2 = n2
  r1 = r1
  r2 = r2
  pool = pool
  sendii = sendii
  Orders = {o1, o2, o3}
  Nodes = {n1, n2}
  Riders = {r1, r2}
  Providers = {pool, sendii}
  InHouse = pool
  TimedProviders = {sendii}
  MaxAttempts <- MCMaxAttempts
  Capacity <- MCCapacity
  MaxActiveOrders = 1
  Origin <- MCOrigin
  Destination <- MCDestination
  NoRider = NoRider
  NoNode = NoNode
  NoProvider = NoProvider
INVARIANTS
  LegAndOrderAgree
  
  RiderAuditClean
  
  ShelvesConsistent
  RiderIsTheCourier
  NextActionIsPossible
  PoolListsTheClaimable
  ViewsFollowParcel
  HistoryIsTrue
PROPERTIES
  NoSecondCourier
  ImplementsCustody
SYMMETRY Symmetric
CHECK_DEADLOCK FALSE
