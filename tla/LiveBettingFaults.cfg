SPECIFICATION FaultSpec
CONSTANTS
  a1 = a1
  a2 = a2
  Actions <- OneAction
  Roles <- Everyone
  MaxCommits = 2
  MaxReprices = 1
  MaxHedgeRounds = 1
  MaxOpenExposures = 1
  CommitEnabled = TRUE
  CommitResults = {"ticket_accepted", "odds_changed", "rejected", "submission_unknown"}
  Overtake = FALSE
  ReconcileExpires = FALSE
  Restarting = {}
  MaxInbox = 2
  MaxFaults = 2
INVARIANTS SafetyInv PersistenceBarrier 
PROPERTIES VerdictIsFinal
CHECK_DEADLOCK FALSE
