SPECIFICATION Spec

CONSTANTS
  m1 = m1
  m2 = m2
  p1 = p1
  p2 = p2
  p3 = p3
  p4 = p4
  r1 = r1
  e1 = e1
  e2 = e2
  None = None
  Player = {p1, p2, p3}
  Match = {m1}
  Roster <- OneMatch
  Position <- Order
  Roots = {p1, p3}
  Run = {r1}
  Exec = {e1, e2}
  TotalCap = 3
  LadderCap = 1
  PopulationCap = 1
  RunCap = 1
  SourceCap = 1
  MaxPerMatch = 1
  MaxDepth = 1
  MaxExecs = 2
  MaxAborts = 0
  MaxDrops = 0

CHECK_DEADLOCK FALSE
PROPERTY WindowNeverSlides
