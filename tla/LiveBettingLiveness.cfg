SPECIFICATION QuietSpec
CONSTANTS
  a1 = a1
  a2 = a2
  Actions <- TwoActions
  Roles <- Alone
  MaxCommits = 2
  MaxReprices = 1
  MaxHedgeRounds = 1
  MaxOpenExposures = 1
  CommitEnabled = TRUE
  CommitResults = {"ticket_accepted", "odds_changed", "rejected", "submission_unknown"}
  Overtake = FALSE
  ReconcileExpires = FALSE
  Restarting = {}
  MaxInbox = 2
  MaxFaults = 0
PROPERTIES NoActionStranded
CHECK_DEADLOCK FALSE
