SPECIFICATION SchedulerSpec

CONSTANTS
  p1 = p1
  p2 = p2
  None = None
  Player = {p1, p2}
  Token = {1, 2}
  Cli = {2}
  BatchLimit <- Batches
  Concurrency = 2
  MatchesPerPlayer = 2
  MaxMatchIds = 2
  MaxEnqueue = 2
  MaxStreak = 1
  MaxEvents = 1

SYMMETRY PlayerSymmetry
CHECK_DEADLOCK FALSE
INVARIANT TypeOK
INVARIANT NobodyIsStuck
INVARIANT EndedRunsHoldNoLease
INVARIANT RunsCountTruly
PROPERTY ClaimsSettledOnce
PROPERTY StaleTicksChangeNothing
PROPERTY RunsMakeProgress
