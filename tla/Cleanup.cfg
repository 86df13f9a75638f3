SPECIFICATION Spec
CONSTANTS
  Keyed = Keyed
  Recoveries = {r1, r2}
  NoCleanup = NoCleanup
  MaximumCleanupAttempts = 2
  MaxWorkspaces = 2
  MaxRetirements = 3
  MaxClaims = 4
INVARIANTS CompletedIsRemoved
PROPERTIES SettledIsFinal CleanupSettles
CHECK_DEADLOCK FALSE
