SPECIFICATION PagesSpec
CONSTANTS
  Book = "8xbet"
  Selections = {"s1", "s2"}
  Fixture <- OneFixture
  Odds = {1, 2}
  Commands <- Retries
  Lag = FALSE
  JournalSize = 2
  MaxSends = 3
  MaxMoves = 1
  MaxFaults = 1
  p1 = p1
  p2 = p2
  p3 = p3
  n1 = n1
  n2 = n2
  q1 = q1
  Landing = Landing
  Null = Null
SYMMETRY Symmetric
INVARIANTS CommitFollowsItsPrepare OneAnswerPerKey LobbyIsAuthenticated LoginIsSteady MarketsArePage
CHECK_DEADLOCK FALSE
