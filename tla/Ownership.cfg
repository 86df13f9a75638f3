SPECIFICATION FairSpec
CONSTANTS
  Issues = {1, 2}
  MaxConcurrent = 1
  ActiveStates = {"todo"}
  StateLimit <- Limits
  MaxCoding <- Codings
  MaxAttempt = 2
  Disturbed = {1}
  Budgets <- Situations
  None = None
INVARIANTS LiveWorkerIsOwned SlotOverrunIsBorrowed RetryIsArmed PausedIsQuiet
PROPERTIES EndedRunLeaves RetryResumes
CHECK_DEADLOCK FALSE
