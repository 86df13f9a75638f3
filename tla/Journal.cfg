SPECIFICATION Spec
CONSTANTS
  c0 = c0  c1 = c1  c2 = c2
  t0 = t0  t1 = t1  t2 = t2
  Commits = {c0, c1, c2}
  Trees = {t0, t1, t2}
  Tree <- MCTree
  Base = c0
  NoCommit = NoCommit
  NoTree = NoTree
  NoArtifact = NoArtifact
  NoRecord = NoRecord
  Normal = Normal
  NoOwner = NoOwner
  Unreadable = Unreadable
  MaximumCodingAttempts = 2
  MaximumRepairAttempts = 1
  MaxRevision = 4
INVARIANTS RetryLeavesNoWork OrphanExcluded
PROPERTIES ReviewIsEarned RowAdvances CompletedIsFinal
CHECK_DEADLOCK FALSE
