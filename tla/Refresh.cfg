CONSTANTS
  c1 = c1
  c2 = c2
  c3 = c3
  watcher = watcher
  Callers <- MCCallers
  Watcher = watcher
SPECIFICATION FairSpec
INVARIANTS SingleTick AnsweredFresh IdleOwesNothing OneScheduler
PROPERTIES RefreshReturns PollsRecur
\* The event loop may die, and then nothing is left to happen.
CHECK_DEADLOCK FALSE
