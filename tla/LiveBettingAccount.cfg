SPECIFICATION AccountSpec
CONSTANTS
  a1 = a1
  a2 = a2
  Actions <- TwoActions
  Roles <- Automatic
  MaxCommits = 2
  MaxReprices = 1
  MaxHedgeRounds = 1
  MaxOpenExposures = 1
  CommitEnabled = TRUE
  CommitResults = {"ticket_accepted", "odds_changed", "rejected"}
  Overtake = FALSE
  ReconcileExpires = FALSE
  Restarting = {}
  MaxInbox = 2
  MaxFaults = 1
SYMMETRY Symmetry
INVARIANTS AccountExclusive ExposureLimit
CHECK_DEADLOCK FALSE
