SPECIFICATION RefreshSpec
CONSTANTS
  Nodes = {1, 2, 3}
  Km <- MCKm
  Limits = {6, 10}
  Admins = {"a1"}
  Workers = {"w1"}
  PairsPerRun = 2
  MaxTries = 2
  MaxChanges = 1
  MaxStarts = 1
  MaxDeaths = 1
INVARIANTS
  NothingSkipped
PROPERTIES
  RefreshEnds
CHECK_DEADLOCK FALSE
