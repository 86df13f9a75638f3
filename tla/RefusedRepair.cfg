CONSTANTS
  None = None
  MaxHead = 2
  Disturbances = 3
SPECIFICATION FairSpec
PROPERTIES RefusedRepairIsNobodys
CHECK_DEADLOCK FALSE
