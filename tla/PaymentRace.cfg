SPECIFICATION Spec
CONSTANTS
  Intents = {i1}
  Capacity = 2
  NoIntent = NoIntent
CHECK_DEADLOCK FALSE
PROPERTIES PaidStaysPaid
