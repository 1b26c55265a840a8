SPECIFICATION FairSpec

CONSTANTS
  m1 = m1
  m2 = m2
  p1 = p1
  p2 = p2
  w1 = w1
  w2 = w2
  None = None
  Match = {m1}
  Participant = {p1}
  MatchOf <- OneRow
  Slot = {"A"}
  Tier = {"GOLD"}
  Outcome = {"GOLD", "RESOLVED_UNRANKED"}
  Writer = {w1}
  Triggers = {"ingest", "reingest", "link", "enrich", "reconcile"}
  FaultKinds = {"beforeScope", "job", "marker", "stall", "generation"}
  MaxTriggers = 3
  MaxFaults = 1
  MaxAttempts = 2
  MaxStalls = 1
  Concurrency = 1

CHECK_DEADLOCK FALSE

INVARIANT TypeOK
PROPERTY ClearCoversRow
PROPERTY RemainingScopeIsFollowedUp
PROPERTY EventuallyQuiescent
