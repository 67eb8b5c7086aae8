SPECIFICATION Spec
CONSTANTS
  a1 = a1
  a2 = a2
  Actions <- OneAction
  Roles <- Recovering
  MaxCommits = 1
  MaxReprices = 0
  MaxHedgeRounds = 0
  MaxOpenExposures = 1
  CommitEnabled = TRUE
  CommitResults = {"ticket_accepted", "rejected"}
  Overtake = FALSE
  ReconcileExpires = FALSE
  Restarting = {}
  MaxInbox = 2
  MaxFaults = 0
INVARIANTS ActionPointsAtExposure
CHECK_DEADLOCK FALSE
