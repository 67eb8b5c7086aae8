SPECIFICATION MCSpec
CONSTANTS
  f1 = f1
  f2 = f2
  f3 = f3
  s1 = s1
  s2 = s2
  Null = Null
  Fixtures <- TwoFixtures
  Sockets <- TwoSockets
  BatchSize = 1
  MaxChanges = 1
  MaxCloses = 1
  MaxRefused = 1
  MaxLost = 1
  MaxMissed = 1
  MaxReloads = 1
  MaxRestarts = 1
  Swaps = TRUE
  Straggles = TRUE
INVARIANTS NothingForgotten BridgeKnows SubscribedToMetadata
PROPERTIES EveryFixtureDecoded
CHECK_DEADLOCK FALSE
