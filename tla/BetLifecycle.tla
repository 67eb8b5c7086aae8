---------------------------- MODULE BetLifecycle ----------------------------
(***************************************************************************)
(* The status vocabulary and the transition tables of the live betting     *)
(* domain (backend/internal/betaction/live_domain.go and service.go).      *)
(* A module without state: the workflow of LiveExecution consults it, as   *)
(* TransitionBetAction, TransitionBetExposure and TransitionBetAttempt do. *)
(***************************************************************************)

Bookmakers == {"jun88", "8xbet"}

(* Outcomes of a commit_bet or a reconcile_bet command (validLiveResult).  *)
Results == {"ticket_accepted", "odds_changed", "rejected", "submission_unknown"}

TerminalAction ==
  {"completed", "dry_run_completed", "aborted_no_exposure",
   "selection_rejected", "failed", "unhedged_closed"}

LiveAction ==
  {"selecting", "ready", "placing_jun88", "awaiting_odds_confirmation",
   "jun88_ticket_received", "placing_8xbet", "exposure_open", "submission_unknown"}

ActionStatus == LiveAction \cup TerminalAction

ExposureStatus ==
  {"exposure_open", "hedging", "submission_unknown", "manual_review",
   "completed", "unhedged_closed"}

(* The statuses validateLiveConfig counts as an open exposure.             *)
OpenExposure == {"exposure_open", "hedging", "submission_unknown", "manual_review"}

AttemptStatus == {"before_send", "submit_started", "response_received", "awaiting_reconcile"}

PendingAttempt == {"submit_started", "awaiting_reconcile"}

(* Statuses in which a reservation blocks the account after its lease.     *)
ReservationBlocking ==
  {"placing_jun88", "jun88_ticket_received", "placing_8xbet",
   "exposure_open", "submission_unknown"}

(* Statuses the reconciliation pass lists.                                 *)
Reconcilable == {"submission_unknown", "placing_jun88", "placing_8xbet"}

(* actionTransitionAllowed: the successors of each live status; a terminal *)
(* status has none.                                                        *)
ActionNext ==
  [selecting |-> {"ready", "selection_rejected", "failed", "aborted_no_exposure"},
   ready |-> {"placing_jun88", "dry_run_completed", "selection_rejected", "failed",
              "aborted_no_exposure"},
   placing_jun88 |-> {"jun88_ticket_received", "awaiting_odds_confirmation",
                      "submission_unknown", "failed", "aborted_no_exposure"},
   awaiting_odds_confirmation |-> {"ready", "placing_jun88", "aborted_no_exposure",
                                   "submission_unknown"},
   jun88_ticket_received |-> {"placing_8xbet", "exposure_open", "submission_unknown"},
   placing_8xbet |-> {"completed", "exposure_open", "submission_unknown"},
   exposure_open |-> {"placing_8xbet", "completed", "submission_unknown",
                      "unhedged_closed"},
   submission_unknown |-> {"jun88_ticket_received", "exposure_open", "completed",
                           "aborted_no_exposure", "failed", "unhedged_closed"}]

ActionMoves == UNION {{s} \X ActionNext[s] : s \in DOMAIN ActionNext}

(* exposureTransitionAllowed.                                              *)
ExposureNext ==
  [exposure_open |-> {"hedging", "submission_unknown", "unhedged_closed", "manual_review"},
   hedging |-> {"completed", "exposure_open", "submission_unknown", "manual_review"},
   submission_unknown |-> {"completed", "exposure_open", "unhedged_closed", "manual_review"},
   manual_review |-> {"exposure_open", "completed", "unhedged_closed"}]

ExposureMoves == UNION {{s} \X ExposureNext[s] : s \in DOMAIN ExposureNext}
=============================================================================
