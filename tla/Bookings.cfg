SPECIFICATION WalletSpec
CONSTANTS
  Legs = {"l1", "l2"}
  Fee <- MCFee
  Funds = {30, 32}
  AlertBelow = 10
  BatchSize = 1
  MaxVictims = 1
INVARIANTS
  HeadroomKept
  NoBookingLeftBehind

  
CHECK_DEADLOCK FALSE
