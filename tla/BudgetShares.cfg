SPECIFICATION Spec

CONSTANTS
  p1 = p1
  p2 = p2
  a = a
  b = b
  Process = {p1}
  Caller = {a}
  Home <- Alone
  Workload = {"product", "enrichment", "match"}
  Skew = 0
  ShortWindow = 2
  LongWindow = 3
  ShortLimits = {3, 4}
  LongLimits = {4}
  ConfiguredShort = 4
  ConfiguredLong = 4
  UtilizationPercent = 75
  EnrichmentPercent = 35
  ReservedPercent = 33
  MaxInline = 2
  Slack = 0
  ErrorWait = 1
  PressureCap = 2
  Grace = 1
  Cooldowns = {2}
  MaxRetries = 1
  MaxGrants = 4
  MaxFaults = 2
  MaxClock = 4

CHECK_DEADLOCK FALSE
INVARIANT TypeOK
INVARIANT LimitsAreKept
INVARIANT WaitIsExact
PROPERTY WaitsAreBounded
