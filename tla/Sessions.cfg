SPECIFICATION Spec
CONSTANTS
  left = left
  right = right
  phone = phone
  Tabs = {left, right, phone}
  Browser <- MCBrowser
  User <- MCUser
  MaxLogins = 2
  MaxTokens = 3
  MaxResets = 1
  MaxMishaps = 1
SYMMETRY Alike
INVARIANTS
  KeepsItsSession
  ForkNeedsOverlap
  
PROPERTIES
  SignedOutStaysOut
CHECK_DEADLOCK FALSE
