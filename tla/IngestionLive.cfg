SPECIFICATION Spec

CONSTANTS
  s1 = s1
  s2 = s2
  p = p
  q = q
  x = x
  w1 = w1
  w2 = w2
  None = None
  Slot = {s1, s2}
  Puuid = {p, q, x}
  Roster <- TwoPlayers
  Searcher = {p, q}
  StaleRows <- OtherRows
  Worker = {w1}
  Command = {}
  CommandsAtOnce = 0
  MaxAttempts = 2
  MaxStalls = 1
  TimelineRequired = TRUE
  FaultKinds = {"lostLock", "crash", "throttled", "unavailable", "refused", "database", "redis"}
  MaxFaults = 2

PROPERTY SearchersGetTheirMatch
