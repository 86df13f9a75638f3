SPECIFICATION Spec
CONSTANTS
  Gates = {TRUE, FALSE}
  Conflicts = TRUE
  DeliveryAttemptLimit = 3
  MaximumRepairAttempts = 1
  NoEntry = NoEntry
  MaxMailbox = 3
INVARIANTS HeldIsQuiet ArmedIsBacked
PROPERTIES PublicationFinishes ArmedComesDue UnpausedAttemptSettles HoldEndsWithPause
CHECK_DEADLOCK FALSE
