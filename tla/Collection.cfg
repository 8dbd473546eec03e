SPECIFICATION Spec
CONSTANTS
  o1 = o1
  d1 = d1
  d2 = d2
  r1 = r1
  r2 = r2
  a1 = a1
  Orders = {o1}
  Resends = {r1, r2}
  Desks = {d1, d2}
  Admins = {a1}
  Rules <- MCRules
  Amount <- MCAmount
  DestinationFee <- MCDestinationFee
  PoolSize = 3
  MaxAttempts = 2
  MaxCodes = 3
  MaxRefusals = 2
  MaxRules = 1
  NoOrder = NoOrder
  Nobody = Nobody
  NoEntry = NoEntry
SYMMETRY MCSymmetry
CHECK_DEADLOCK FALSE
INVARIANTS NoCodePastItsAttempts NoStandstill CompletedMeansShared 
