SPECIFICATION Spec
CONSTANTS
  Events = {e1, e2, e3}
  Pollers = {p1, p2}
  BatchSize = 2
  MaxAttempts = 2
  MaxCrashes = 1
  LeasesHold = TRUE
CHECK_DEADLOCK FALSE
INVARIANTS OnePollerPerRow
PROPERTIES EveryRowSettles
