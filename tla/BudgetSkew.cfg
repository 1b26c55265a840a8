SPECIFICATION Spec

CONSTANTS
  p1 = p1
  p2 = p2
  a = a
  b = b
  Process = {p1, p2}
  Caller = {a, b}
  Home <- Apart
  Workload = {"match"}
  Skew = 1
  ShortWindow = 3
  LongWindow = 4
  ShortLimits = {2}
  LongLimits = {3}
  ConfiguredShort = 2
  ConfiguredLong = 3
  UtilizationPercent = 100
  EnrichmentPercent = 35
  ReservedPercent = 0
  MaxInline = 1
  Slack = 0
  ErrorWait = 1
  PressureCap = 1
  Grace = 1
  Cooldowns = {3}
  MaxRetries = 0
  MaxGrants = 3
  MaxFaults = 2
  MaxClock = 2

SYMMETRY Swap
CHECK_DEADLOCK FALSE
INVARIANT ShortWindowHolds
INVARIANT CooldownIsKept
