SPECIFICATION FairSpec

CONSTANTS
  m1 = m1
  m2 = m2
  p1 = p1
  p2 = p2
  p3 = p3
  p4 = p4
  r1 = r1
  e1 = e1
  e2 = e2
  None = None
  Player = {p1, p2, p3, p4}
  Match = {m1, m2}
  Roster <- Chain
  Position <- Order
  Roots = {p1}
  Run = {r1}
  Exec = {e1, e2}
  TotalCap = 3
  LadderCap = 1
  PopulationCap = 2
  RunCap = 1
  SourceCap = 1
  MaxPerMatch = 2
  MaxDepth = 1
  MaxExecs = 3
  MaxAborts = 1
  MaxDrops = 1

CHECK_DEADLOCK FALSE
INVARIANT TypeOK
INVARIANT BudgetsMatchRows
INVARIANT GrowthIsBounded
INVARIANT RunCountsItsSources
PROPERTY WithinCaps
PROPERTY DepthOnlyShrinks
PROPERTY EnrollmentsEnd
