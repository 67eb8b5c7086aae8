---------------------------- MODULE LiveExecution ----------------------------
(***************************************************************************)
(* LiveExecutionService: one goroutine per live action prepares both legs, *)
(* commits Jun88, and only with a persisted Jun88 ticket hedges it at      *)
(* 8xbet.  Each action of this module is the code between two durable      *)
(* writes or network steps; pc names the step that comes next.             *)
(*                                                                         *)
(* Steps named new, mark, send and wait are newCommitAttempt and           *)
(* executeAttempt, which both legs share.  Prepare and cancel commands     *)
(* leave no row that later steps read, so they are outcomes of a step.     *)
(***************************************************************************)
EXTENDS LiveCollector

(* validateLiveConfig refuses a limit of zero and counts open exposures;   *)
(* the answer is old by the time the action row is created.  Turnover and  *)
(* balance limits only refuse.                                             *)
OpenCount == Cardinality({a \in Actions : expo[a].st \in OpenExposure})

Gate(a) ==
  LET t == <<"exec", a>> IN
  /\ "exec" \in Roles
  /\ At(t, "idle") /\ action[a].st = "none"
  /\ MaxOpenExposures > 0
  /\ CommitEnabled => OpenCount < MaxOpenExposures
  /\ Advance(t, [Idle EXCEPT !.pc = "create"], {})
  /\ UNCHANGED <<rows, wire, faults>>

CreateAction(t) ==
  /\ At(t, "create")
  /\ action' = [action EXCEPT ![Subject(t)] = [NoAction EXCEPT !.st = "selecting"]]
  /\ Advance(t, Goto(t, "reserve"), {})
  /\ UNCHANGED <<attempt, expo, wire, faults>>

(* The first reservation; without it the action is aborted.                *)
ReserveAccount(t) ==
  /\ At(t, "reserve")
  /\ IF CanReserve(t) THEN Reserve(t, "prepare")
     ELSE TransitionAction(t, "aborted_no_exposure", "release")
  /\ UNCHANGED <<attempt, expo, wire, faults>>

(* prepareBoth, the balance, skew and profit checks on its answers.        *)
PrepareBoth(t) ==
  /\ At(t, "prepare")
  /\ \/ TransitionAction(t, "ready", IF CommitEnabled THEN "jun_start" ELSE "dry_run")
     \/ TransitionAction(t, "aborted_no_exposure", "release")
  /\ UNCHANGED <<attempt, expo, wire, faults>>

DryRun(t) ==
  /\ At(t, "dry_run")
  /\ TransitionAction(t, "dry_run_completed", "release")
  /\ UNCHANGED <<attempt, expo, wire, faults>>

-----------------------------------------------------------------------------
(* commitJunThenHedge                                                      *)

JunStart(t) ==
  /\ At(t, "jun_start")
  /\ TransitionAction(t, "placing_jun88", "jun_renew")
  /\ UNCHANGED <<attempt, expo, wire, faults>>

(* renewActionReservation; the number of the commit is the reprice round.  *)
JunRenew(t) ==
  LET self == [thr[t] EXCEPT !.pc = "new", !.key = <<"jun88", thr[t].round + 1>>] IN
  /\ At(t, "jun_renew")
  /\ \/ /\ CanReserve(t)
        /\ action' = Reserved(Subject(t))
        /\ Advance(t, self, {ActionRow})
     \/ ~CanReserve(t) /\ TransitionAction(t, "aborted_no_exposure", "release")
  /\ UNCHANGED <<attempt, expo, wire, faults>>

-----------------------------------------------------------------------------
(* newCommitAttempt and executeAttempt                                     *)

(* An idempotency key that is already there ends the thread.               *)
NewAttempt(t) ==
  LET a == Subject(t)
      free == attempt[a][KeyOf(t)].st = "none" IN
  /\ At(t, "new")
  /\ attempt' = IF free
                THEN [attempt EXCEPT ![a][KeyOf(t)] = [st |-> "before_send", res |-> "none"]]
                ELSE attempt
  /\ Advance(t, IF free THEN [Goto(t, "mark") EXCEPT !.attStale = FALSE] ELSE Returned(t), {})
  /\ UNCHANGED <<action, expo, wire, faults>>

(* Wrong: a Jun88 commit without an answer counts as rejected.             *)
UnresolvedIsRejected(t, awaiting) ==
  IF KeyOf(t)[1] = "jun88" THEN "abort"
  ELSE IF awaiting THEN "hedge_unknown" ELSE "hedge_unknown_attempt"

(* Wrong: it is tried again under the next number.                         *)
UnresolvedIsRetried(t, awaiting) ==
  IF KeyOf(t)[1] = "jun88"
  THEN IF thr[t].round < MaxReprices THEN "jun_changed" ELSE "jun_unknown"
  ELSE IF awaiting THEN "hedge_unknown" ELSE "hedge_unknown_attempt"

(* Where an unresolved submission is recorded.  An 8xbet attempt that is   *)
(* not yet awaiting_reconcile is first forced into it.                     *)
Unresolved(t, awaiting) ==
  IF KeyOf(t)[1] = "jun88" THEN "jun_unknown"
  ELSE IF awaiting THEN "hedge_unknown" ELSE "hedge_unknown_attempt"

(* The durable mark that precedes the write to the socket.                 *)
MarkStarted(t) ==
  /\ At(t, "mark")
  /\ SaveAttempt(t, "submit_started", "none", "send", Unresolved(t, FALSE))
  /\ UNCHANGED <<action, expo, wire, faults>>

MarkFails(t) ==
  /\ At(t, "mark") /\ faults < MaxFaults
  /\ faults' = faults + 1
  /\ Advance(t, Goto(t, Unresolved(t, FALSE)), {})
  /\ UNCHANGED <<rows, wire>>

SendCommit(t) ==
  /\ At(t, "send")
  /\ Write(t, "commit")
  /\ Advance(t, Goto(t, "wait"), {})
  /\ UNCHANGED <<rows, journal, tickets, faults>>

(* Nothing was written (no session, unauthenticated, expired): sent is     *)
(* false and the attempt is recorded as rejected, yet both callers treat   *)
(* the error as an unresolved submission.                                  *)
SendRefused(t) ==
  LET q == Unresolved(t, FALSE) IN
  /\ At(t, "send")
  /\ SaveAttempt(t, "response_received", "rejected", q, q)
  /\ UNCHANGED <<action, expo, wire, faults>>

(* A write error or no answer in time: sent is true.                       *)
CommitTimeout(t) ==
  LET q == Unresolved(t, TRUE) IN
  /\ At(t, "wait") /\ thr[t].rsp = "none"
  /\ SaveAttempt(t, "awaiting_reconcile", "submission_unknown", q, q)
  /\ inbox' = Forgotten({t})
  /\ UNCHANGED <<action, expo, journal, tickets, faults>>

CommitUnknown(t) ==
  LET q == Unresolved(t, TRUE) IN
  /\ At(t, "wait") /\ thr[t].rsp = "submission_unknown"
  /\ SaveAttempt(t, "awaiting_reconcile", "submission_unknown", q, q)
  /\ UNCHANGED <<action, expo, wire, faults>>

(* Wrong: any answer that is not a rejection opens the exposure.           *)
JunAcceptedUnlessRejected(t) ==
  /\ At(t, "wait") /\ KeyOf(t)[1] = "jun88"
  /\ thr[t].rsp \in {"ticket_accepted", "submission_unknown"}
  /\ Advance(t, Goto(t, "jun_ticket"), {})
  /\ UNCHANGED <<rows, wire, faults>>

(* An accepted Jun88 ticket is not saved here (deferAcceptedPersistence):  *)
(* it is saved with the exposure, or forced to awaiting_reconcile when     *)
(* validateAcceptedTicket refuses its terms.                               *)
JunAccepted(t) ==
  /\ At(t, "wait") /\ KeyOf(t)[1] = "jun88" /\ thr[t].rsp = "ticket_accepted"
  /\ \/ Advance(t, Goto(t, "jun_ticket"), {}) /\ UNCHANGED attempt
     \/ SaveAttempt(t, "awaiting_reconcile", "submission_unknown", "jun_unknown", "jun_unknown")
  /\ UNCHANGED <<action, expo, wire, faults>>

(* Wrong: the changed price is taken for a ticket.                         *)
JunOddsChangedAccepted(t) ==
  /\ At(t, "wait") /\ KeyOf(t)[1] = "jun88" /\ thr[t].rsp = "odds_changed"
  /\ Advance(t, Goto(t, "jun_ticket"), {})
  /\ UNCHANGED <<rows, wire, faults>>

JunOddsChanged(t) ==
  /\ At(t, "wait") /\ KeyOf(t)[1] = "jun88" /\ thr[t].rsp = "odds_changed"
  /\ \E p \in {"jun_unknown", IF thr[t].round >= MaxReprices THEN "abort" ELSE "jun_changed"} :
       SaveAttempt(t, "response_received", "odds_changed", p, "jun_unknown")
  /\ UNCHANGED <<action, expo, wire, faults>>

(* Wrong: a rejected commit is saved, the action is not.                   *)
JunRejectedForgets(t) ==
  /\ At(t, "wait") /\ KeyOf(t)[1] = "jun88" /\ thr[t].rsp = "rejected"
  /\ SaveAttempt(t, "response_received", "rejected", "return", "jun_unknown")
  /\ UNCHANGED <<action, expo, wire, faults>>

JunRejected(t) ==
  /\ At(t, "wait") /\ KeyOf(t)[1] = "jun88" /\ thr[t].rsp = "rejected"
  /\ SaveAttempt(t, "response_received", "rejected", "abort", "jun_unknown")
  /\ UNCHANGED <<action, expo, wire, faults>>

-----------------------------------------------------------------------------
(* After the Jun88 answer                                                  *)

JunChanged(t) ==
  /\ At(t, "jun_changed")
  /\ TransitionAction(t, "awaiting_odds_confirmation", "jun_reallocate")
  /\ UNCHANGED <<attempt, expo, wire, faults>>

(* AdvanceJunRepriceRevision and allocatePreparedPair on the new price.    *)
JunReallocate(t) ==
  /\ At(t, "jun_reallocate")
  /\ \/ TransitionAction(t, "aborted_no_exposure", "release")
     \/ /\ CanMoveAction(t, "ready")
        /\ action' = Moved(t, "ready")
        /\ Advance(t, [thr[t] EXCEPT !.pc = "jun_start", !.round = @ + 1,
                                     !.key = NoKey], {ActionRow})
  /\ UNCHANGED <<attempt, expo, wire, faults>>

(* failAction                                                              *)
Abort(t) ==
  /\ At(t, "abort")
  /\ TransitionAction(t, "aborted_no_exposure", "release")
  /\ UNCHANGED <<attempt, expo, wire, faults>>

(* markActionUnknown                                                       *)
JunUnknown(t) ==
  /\ At(t, "jun_unknown")
  /\ TransitionAction(t, "submission_unknown", "return")
  /\ UNCHANGED <<attempt, expo, wire, faults>>

(* openExposureAndHedge, up to the persistence barrier.                    *)
JunTicket(t) ==
  /\ At(t, "jun_ticket")
  /\ CommitJun88Ticket(t, [thr[t] EXCEPT !.pc = "evaluate", !.key = <<"8xbet", 1>>,
                             !.round = 0, !.expoStale = FALSE])
  /\ UNCHANGED <<wire, faults>>

-----------------------------------------------------------------------------
(* commitEightXBet                                                         *)

(* EvaluateExposureHedge records the quote whatever it finds.              *)
Evaluate(t) ==
  /\ At(t, "evaluate")
  /\ \E p \in {"open"} \cup
         (IF expo[Subject(t)].st = "exposure_open" THEN {"hedging"} ELSE {}) :
       SaveExposure(t, p)
  /\ UNCHANGED <<action, attempt, wire, faults>>

Hedging(t) ==
  /\ At(t, "hedging")
  /\ TransitionExposure(t, "hedging", "placing")
  /\ UNCHANGED <<action, attempt, wire, faults>>

Placing(t) ==
  /\ At(t, "placing")
  /\ TransitionAction(t, "placing_8xbet", "hedge_renew")
  /\ UNCHANGED <<attempt, expo, wire, faults>>

(* Without the reservation the exposure is reopened, when it can be saved. *)
HedgeRenew(t) ==
  LET a == Subject(t) IN
  /\ At(t, "hedge_renew")
  /\ \/ Reserve(t, "new") /\ UNCHANGED expo
     \/ /\ ~CanReserve(t)
        /\ expo' = IF thr[t].expoStale THEN expo
                   ELSE [expo EXCEPT ![a].st = "exposure_open"]
        /\ Advance(t, Goto(t, "open"), IF thr[t].expoStale THEN {} ELSE {ExposureRow})
        /\ UNCHANGED action
  /\ UNCHANGED <<attempt, wire, faults>>

(* The answer is saved; a ticket whose terms are refused is unresolved.    *)
HedgeAnswered(t) ==
  /\ At(t, "wait") /\ KeyOf(t)[1] = "8xbet"
  /\ \/ /\ thr[t].rsp = "ticket_accepted"
        /\ \E p \in {"hedge_done", "hedge_unknown_attempt"} :
             SaveAttempt(t, "response_received", thr[t].rsp, p, "hedge_unknown_attempt")
     \/ /\ thr[t].rsp = "odds_changed"
        /\ \E p \in {"hedge_changed", "hedge_unknown_attempt"} :
             SaveAttempt(t, "response_received", thr[t].rsp, p, "hedge_unknown_attempt")
     \/ /\ thr[t].rsp = "rejected"
        /\ SaveAttempt(t, "response_received", thr[t].rsp, "hedge_rejected",
                       "hedge_unknown_attempt")
  /\ UNCHANGED <<action, expo, wire, faults>>

(* Both tickets: the exposure first, then the action.                      *)
HedgeDone(t) ==
  LET a == Subject(t) IN
  /\ At(t, "hedge_done")
  /\ \/ /\ CanMoveExposure(t, "completed")
        /\ expo' = Completed(t)
        /\ Advance(t, Goto(t, "complete"), {ExposureRow})
     \/ /\ ~CanMoveExposure(t, "completed")
        /\ Advance(t, Returned(t), {})
        /\ UNCHANGED expo
  /\ UNCHANGED <<action, attempt, wire, faults>>

Complete(t) ==
  /\ At(t, "complete")
  /\ TransitionAction(t, "completed", "release")
  /\ UNCHANGED <<attempt, expo, wire, faults>>

HedgeChanged(t) ==
  /\ At(t, "hedge_changed")
  /\ TransitionExposure(t, "exposure_open", "hedge_reprice")
  /\ UNCHANGED <<action, attempt, wire, faults>>

(* The next round evaluates the offered price under the next number.       *)
HedgeReprice(t) ==
  LET k == KeyOf(t)
      more == thr[t].round < MaxHedgeRounds IN
  /\ At(t, "hedge_reprice")
  /\ \/ /\ CanMoveAction(t, "exposure_open")
        /\ action' = Moved(t, "exposure_open")
        /\ Advance(t, IF more
                      THEN [thr[t] EXCEPT !.pc = "evaluate", !.round = @ + 1,
                              !.key = <<k[1], k[2] + 1>>]
                      ELSE Goto(t, "open"), {ActionRow})
     \/ /\ ~CanMoveAction(t, "exposure_open")
        /\ Advance(t, Returned(t), {})
        /\ UNCHANGED action
  /\ UNCHANGED <<attempt, expo, wire, faults>>

HedgeRejected(t) ==
  /\ At(t, "hedge_rejected")
  /\ TransitionExposure(t, "exposure_open", "open")
  /\ UNCHANGED <<action, attempt, wire, faults>>

(* openExposure: record the failure, then the action's status.             *)
OpenExposureRow(t) ==
  /\ At(t, "open")
  /\ SaveExposure(t, "open_action")
  /\ UNCHANGED <<action, attempt, wire, faults>>

OpenAction(t) ==
  /\ At(t, "open_action")
  /\ \/ /\ action[Subject(t)].st # "exposure_open"
        /\ TransitionAction(t, "exposure_open", "return")
     \/ /\ action[Subject(t)].st = "exposure_open"
        /\ action' = IF thr[t].lag = 0 THEN Moved(t, "exposure_open") ELSE action
        /\ Advance(t, Returned(t), IF thr[t].lag = 0 THEN {ActionRow} ELSE {})
  /\ UNCHANGED <<attempt, expo, wire, faults>>

(* markHedgeUnknown: attempt, exposure, action, one after the other.       *)
HedgeUnknownAttempt(t) ==
  /\ At(t, "hedge_unknown_attempt")
  /\ SaveAttempt(t, "awaiting_reconcile", "submission_unknown", "hedge_unknown", "return")
  /\ UNCHANGED <<action, expo, wire, faults>>

HedgeUnknown(t) ==
  /\ At(t, "hedge_unknown")
  /\ TransitionExposure(t, "submission_unknown", "hedge_unknown_action")
  /\ UNCHANGED <<action, attempt, wire, faults>>

HedgeUnknownAction(t) ==
  /\ At(t, "hedge_unknown_action")
  /\ TransitionAction(t, "submission_unknown", "return")
  /\ UNCHANGED <<attempt, expo, wire, faults>>

-----------------------------------------------------------------------------
ExecutorStep(t) ==
  \/ CreateAction(t) \/ ReserveAccount(t) \/ PrepareBoth(t) \/ DryRun(t)
  \/ JunStart(t) \/ JunRenew(t) \/ JunAccepted(t) \/ JunOddsChanged(t)
  \/ JunRejected(t) \/ JunChanged(t) \/ JunReallocate(t) \/ JunUnknown(t)
  \/ JunTicket(t) \/ Abort(t) \/ Release(t)

AttemptStep(t) ==
  \/ NewAttempt(t) \/ MarkStarted(t) \/ SendCommit(t) \/ SendRefused(t)
  \/ CommitTimeout(t) \/ CommitUnknown(t)

HedgeStep(t) ==
  \/ Evaluate(t) \/ Hedging(t) \/ Placing(t) \/ HedgeRenew(t) \/ HedgeAnswered(t)
  \/ HedgeDone(t) \/ Complete(t) \/ HedgeChanged(t) \/ HedgeReprice(t)
  \/ HedgeRejected(t) \/ OpenExposureRow(t) \/ OpenAction(t)
  \/ HedgeUnknownAttempt(t) \/ HedgeUnknown(t) \/ HedgeUnknownAction(t)
=============================================================================
