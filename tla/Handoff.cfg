CONSTANTS
  None = None
  MaxHead = 3
  Disturbances = 2
SPECIFICATION FairSpec
PROPERTIES MergeIsEarned NoStaleStart PublishedIsSettled
CHECK_DEADLOCK FALSE
