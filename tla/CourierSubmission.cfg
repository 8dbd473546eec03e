SPECIFICATION Spec
CONSTANTS
  w1 = w1
  p1 = p1
  p2 = p2
  Workers = {w1}
  Pollers = {p1, p2}
  RemoteAttempts = 2
  MaxLegs = 3
  MaxSequence = 4
  Duplicates = FALSE
SYMMETRY Symmetry
CHECK_DEADLOCK FALSE
INVARIANTS LegAndOrderAgree OneActiveLeg
PROPERTIES LegIsWhereCourierIs MovesAsCustodyAllows
