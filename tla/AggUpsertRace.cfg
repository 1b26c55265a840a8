SPECIFICATION Spec

CONSTANTS
  m1 = m1
  m2 = m2
  p1 = p1
  p2 = p2
  w1 = w1
  w2 = w2
  None = None
  Match = {m1}
  Participant = {p1, p2}
  MatchOf <- OneMatch
  Slot = {"A", "B"}
  Tier = {"GOLD"}
  Outcome = {"GOLD", "RESOLVED_UNRANKED"}
  Writer = {w1, w2}
  Triggers = {"ingest", "enrich"}
  FaultKinds = {}
  MaxTriggers = 3
  MaxFaults = 0
  MaxAttempts = 1
  MaxStalls = 1
  Concurrency = 1

CHECK_DEADLOCK FALSE
SYMMETRY WriterSymmetry
PROPERTY ScopeKeysNeverDiscarded
