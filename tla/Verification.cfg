SPECIFICATION ScenarioSpec
CONSTANTS
  f1 = f1
  f2 = f2
  f3 = f3
  o1 = o1
  o2 = o2
  c1 = c1
  c2 = c2
  Null = Null
  Fixtures = {f1, f2, f3}
  Opportunities = {o1, o2}
  Legs <- SharedLeg
  MaxVersion = 2
  Good = {0, 2}
  MaxBatches = 3
  MaxRequests = 0
  MaxFailures = 0
SYMMETRY Symmetric
INVARIANTS StaleIsRemoved  GapFree
CHECK_DEADLOCK FALSE
