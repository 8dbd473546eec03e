SPECIFICATION Spec
CONSTANTS
  Intents = {i1, i2, i3}
  Capacity = 2
  NoIntent = NoIntent
CHECK_DEADLOCK FALSE
INVARIANTS  OrderOnlyForPayment
 
