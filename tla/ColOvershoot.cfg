SPECIFICATION SchedulerSpec

CONSTANTS
  p1 = p1
  p2 = p2
  None = None
  Player = {p1, p2}
  Token = {1, 2}
  Cli = {2}
  BatchLimit <- Batches
  Concurrency = 1
  MatchesPerPlayer = 1
  MaxMatchIds = 1
  MaxEnqueue = 1
  MaxStreak = 1
  MaxEvents = 0

CHECK_DEADLOCK FALSE
INVARIANT RunBudgetNotOvershot
