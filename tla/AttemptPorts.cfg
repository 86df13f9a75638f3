SPECIFICATION Spec
CONSTANTS
  Runs = {1, 2}
  MaxGeneration = 2
  None = None
INVARIANTS AttemptKeepsPorts
CHECK_DEADLOCK FALSE
