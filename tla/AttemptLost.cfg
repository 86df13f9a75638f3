SPECIFICATION Spec
CONSTANTS
  Gates = {TRUE}
  Conflicts = FALSE
  DeliveryAttemptLimit = 3
  MaximumRepairAttempts = 1
  NoEntry = NoEntry
  MaxMailbox = 1
PROPERTIES AttemptSettles
CHECK_DEADLOCK FALSE
