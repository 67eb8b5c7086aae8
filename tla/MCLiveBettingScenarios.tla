------------------------ MODULE MCLiveBettingScenarios ------------------------
(***************************************************************************)
(* Instances of LiveBetting that ask the same question under several       *)
(* circumstances: a behaviour belongs to one scenario, which fixes the     *)
(* roles at work and the bounds, and never leaves it.                      *)
(***************************************************************************)
EXTENDS MCLiveBetting
VARIABLE scenario

-----------------------------------------------------------------------------
(* One action under faults.  The constants of the cfg are the largest of   *)
(* all scenarios.                                                          *)

(* Two crashes or failures while executor and pass are at work.            *)
Crash == INSTANCE LiveBetting WITH
  MaxReprices <- 0, MaxHedgeRounds <- 0,
  CommitResults <- {"ticket_accepted", "rejected", "submission_unknown"}

(* One fault while an operator works on the exposure.                      *)
Operator == INSTANCE LiveBetting WITH
  MaxReprices <- 0, MaxHedgeRounds <- 0, MaxFaults <- 1,
  CommitResults <- {"ticket_accepted", "submission_unknown"}

(* One fault while odds change and quotes start the matcher.               *)
Reprice == INSTANCE LiveBetting WITH MaxFaults <- 1

(* Two reconciliations of the same commit at once.                         *)
Race == INSTANCE LiveBetting WITH
  MaxReprices <- 0, MaxHedgeRounds <- 0, MaxFaults <- 0,
  CommitResults <- {"ticket_accepted", "submission_unknown"}

(* Both collectors may restart; the answers are those of today's workers.  *)
Restart == INSTANCE LiveBetting WITH
  MaxHedgeRounds <- 0, CommitResults <- {"odds_changed", "rejected"},
  ReconcileExpires <- TRUE, Restarting <- Bookmakers

(* The threads of the other roles stay idle.                               *)
Playing(roles) == \A t \in Threads : t[1] \notin roles => thr'[t] = Idle

FaultScenarios == {"crash", "operator", "reprice", "race", "restart"}

FaultInit == Init /\ scenario \in FaultScenarios

FaultNext ==
  /\ UNCHANGED scenario
  /\ \/ scenario = "crash" /\ Crash!Next /\ Playing(Recovering)
     \/ scenario = "operator" /\ Operator!Next /\ Playing(Attended)
     \/ scenario = "reprice" /\ Reprice!Next /\ Playing(Unattended)
     \/ scenario = "race" /\ Race!Next /\ Playing(Reconciled)
     \/ scenario = "restart" /\ Restart!Next /\ Playing(Recovering)

FaultSpec == FaultInit /\ [][FaultNext]_<<vars, scenario>>

-----------------------------------------------------------------------------
(* One action without faults.                                              *)

(* Quotes start the matcher while the pass resolves what was unknown.      *)
Rematch == INSTANCE LiveBetting WITH
  MaxReprices <- 0, MaxHedgeRounds <- 0,
  CommitResults <- {"ticket_accepted", "submission_unknown"}

(* Odds change at both bookmakers, or they refuse.                         *)
Changing == INSTANCE LiveBetting WITH
  CommitResults <- {"ticket_accepted", "odds_changed", "rejected"}

(* An operator resolves what the pass leaves open.                         *)
Resolved == INSTANCE LiveBetting WITH
  MaxReprices <- 0, MaxHedgeRounds <- 0,
  CommitResults <- {"ticket_accepted", "rejected", "submission_unknown"}

MatcherInit == Init /\ scenario \in {"rematch", "changing", "resolved"}

MatcherNext ==
  /\ UNCHANGED scenario
  /\ \/ scenario = "rematch" /\ Rematch!Next /\ Playing(Automatic)
     \/ scenario = "changing" /\ Changing!Next /\ Playing(Unattended)
     \/ scenario = "resolved" /\ Resolved!Next /\ Playing(Attended)

MatcherSpec == MatcherInit /\ [][MatcherNext]_<<vars, scenario>>

-----------------------------------------------------------------------------
(* Two actions of one account, and one fault.                              *)

(* A quote starts the matcher once on each exposure.                       *)
Exposing == INSTANCE LiveBetting WITH
  MaxReprices <- 0, CommitResults <- {"ticket_accepted", "rejected"}

(* An executor gives way between two prices.                               *)
GivingWay == INSTANCE LiveBetting WITH
  CommitResults <- {"ticket_accepted", "odds_changed", "rejected"}

(* A reconciliation may overtake the commit it asks about, and expire; the *)
(* bookmakers leave open whether there is a ticket.                        *)
Overtaking == INSTANCE LiveBetting WITH
  MaxReprices <- 0, MaxHedgeRounds <- 0, MaxFaults <- 0, MaxInbox <- 1,
  CommitResults <- {"submission_unknown"}, Overtake <- TRUE, ReconcileExpires <- TRUE

AccountInit == Init /\ scenario \in {"exposing", "giving way", "overtaking"}

AccountNext ==
  /\ UNCHANGED scenario
  /\ \/ scenario = "exposing" /\ Exposing!Next /\ Playing(Unattended)
     \/ scenario = "giving way" /\ GivingWay!Next /\ Playing(Alone)
     \/ scenario = "overtaking" /\ Overtaking!Next /\ Playing(Recovering)

AccountSpec == AccountInit /\ [][AccountNext]_<<vars, scenario>>

-----------------------------------------------------------------------------
(* Two actions with nobody but their executors, betting or in a dry run.   *)
DryRuns == INSTANCE LiveBetting WITH CommitEnabled <- FALSE

QuietInit == Init /\ scenario \in {"bet", "dry_run"}

QuietNext ==
  /\ UNCHANGED scenario
  /\ \/ scenario = "bet" /\ Next
     \/ scenario = "dry_run" /\ DryRuns!Next

QuietSpec ==
  /\ QuietInit /\ [][QuietNext]_<<vars, scenario>>
  /\ \A t \in Threads :
       /\ WF_vars(scenario = "bet" /\ ThreadStep(t))
       /\ WF_vars(scenario = "dry_run" /\ DryRuns!ThreadStep(t))
  /\ \A a \in Actions : WF_vars(LeaseExpires(a))
  /\ \A bm \in Bookmakers : WF_vars(CollectorStep(bm))
=============================================================================
