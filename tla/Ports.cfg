SPECIFICATION FairSpec
CONSTANTS
  Runs = {1, 2}
  MaxGeneration = 2
  None = None
INVARIANTS InUseIsOpen NothingLeaks
PROPERTIES ReplacedIsClosed
CHECK_DEADLOCK FALSE
