SPECIFICATION ScenarioSpec
CONSTANTS
  f1 = f1
  f2 = f2
  Fixtures = {f1, f2}
  MaxPrice = 2
  MaxConnections = 2
  MaxFaults = 1
  Overlap = FALSE
  RefuseHello = FALSE
  MaxTime = 4
  MaxQueue = 2
  MaxWire = 1
INVARIANTS StoresAgree NoFalseFreshness
PROPERTIES SessionsAdvance QueueDrains
CHECK_DEADLOCK FALSE
