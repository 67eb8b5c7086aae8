---------------------------- MODULE LiveRecovery ----------------------------
(***************************************************************************)
(* Everything else that works on a live action while its executor runs or  *)
(* after it is gone: the hedge matcher (ExposureHedgeNotifier), the        *)
(* reconciliation pass and its manual form (live_reconciliation.go,        *)
(* ReconcileAction), and the operator (ResolveExposure).                   *)
(***************************************************************************)
EXTENDS LiveExecution

CommitNumbers(a, bm) == {n \in 1 .. MaxCommits : attempt[a][<<bm, n>>].st # "none"}

(* nextEightXBetAttemptNumbers: one more than the largest number in use.   *)
IsNextNumber(a, n) ==
  /\ n = 1 \/ n - 1 \in CommitNumbers(a, "8xbet")
  /\ \A m \in CommitNumbers(a, "8xbet") : m < n

(* The bound MaxCommits leaves room for all rounds that start at a number. *)
FirstOfRounds(a) ==
  {n \in 1 .. MaxCommits : IsNextNumber(a, n) /\ n + MaxHedgeRounds <= MaxCommits}

PendingKeys(a) == {k \in Keys : attempt[a][k].st \in PendingAttempt}

(* hasPendingCommitAttempt for 8xbet                                       *)
HedgePending(a) == \E k \in PendingKeys(a) : k[1] = "8xbet"

-----------------------------------------------------------------------------
(* The hedge matcher: Notify lists the due exposures for a fresh quote;    *)
(* inflight admits one thread per exposure.                                *)

HedgeList(a) ==
  LET t == <<"hedge", a>> IN
  /\ "hedge" \in Roles /\ CommitEnabled
  /\ At(t, "idle")
  /\ expo[a].st = "exposure_open" /\ ~expo[a].leased
  /\ FirstOfRounds(a) # {}
  /\ Advance(t, [Idle EXCEPT !.pc = "lease"], {})
  /\ UNCHANGED <<rows, wire, faults>>

HedgeLease(t) ==
  LET a == Subject(t) IN
  /\ At(t, "lease")
  /\ IF thr[t].expoStale
     THEN Advance(t, Idle, {}) /\ UNCHANGED expo
     ELSE /\ expo' = [expo EXCEPT ![a].leased = TRUE]
          /\ Advance(t, Goto(t, "match"), {ExposureRow})
  /\ UNCHANGED <<action, attempt, wire, faults>>

(* A thread that reads the action row.                                     *)
Reading(t, r) == [r EXCEPT !.lag = 0, !.link = action[Subject(t)].link]

(* process reads the action and looks at the quote: a closed market, an    *)
(* unusable quote, or a price to hedge at.                                 *)
HedgeMatch(t) ==
  /\ At(t, "match")
  /\ \E p \in {"close", "return", "hedge_reserve"} :
       Advance(t, IF p = "return" THEN Returned(t)
                  ELSE Reading(t, [thr[t] EXCEPT !.pc = p]), {})
  /\ UNCHANGED <<rows, wire, faults>>

HedgeReserve(t) ==
  /\ At(t, "hedge_reserve")
  /\ \/ Reserve(t, "hedge_prepare")
     \/ ~CanReserve(t) /\ Advance(t, Returned(t), {}) /\ UNCHANGED action
  /\ UNCHANGED <<attempt, expo, wire, faults>>

(* nextEightXBetAttemptNumbers and prepareLeg; a failed prepare is         *)
(* recorded on the exposure.                                               *)
HedgePrepare(t) ==
  /\ At(t, "hedge_prepare")
  /\ \/ \E n \in FirstOfRounds(Subject(t)) :
          Advance(t, [thr[t] EXCEPT !.pc = "evaluate", !.key = <<"8xbet", n>>], {})
     \/ Advance(t, Returned(t), IF thr[t].expoStale THEN {} ELSE {ExposureRow})
  /\ UNCHANGED <<rows, wire, faults>>

(* The deferred ReleaseLease reads the row again; a write between its read *)
(* and its update leaves the lease to expire.                              *)
Unlease(t) ==
  /\ At(t, "unlease")
  /\ \/ /\ expo' = [expo EXCEPT ![Subject(t)].leased = FALSE]
        /\ Advance(t, Idle, {ExposureRow})
     \/ Advance(t, Idle, {}) /\ UNCHANGED expo
  /\ UNCHANGED <<action, attempt, wire, faults>>

(* closeUnhedged, of the matcher and of the operator.                      *)
CloseExposure(t) ==
  /\ At(t, "close")
  /\ TransitionExposure(t, "unhedged_closed", "close_action")
  /\ UNCHANGED <<action, attempt, wire, faults>>

CloseAction(t) ==
  /\ At(t, "close_action")
  /\ TransitionAction(t, "unhedged_closed", "release")
  /\ UNCHANGED <<attempt, expo, wire, faults>>

-----------------------------------------------------------------------------
(* ReconcilePending lists all actions of a pass at once and then works     *)
(* through them one by one, on the rows it listed.                         *)

PassRunning == \E a \in Actions : "loop" \in Roles /\ ~At(<<"loop", a>>, "idle")

ListPending ==
  /\ "loop" \in Roles /\ CommitEnabled
  /\ ~PassRunning
  /\ \E a \in Actions : action[a].st \in Reconcilable
  /\ thr' = [t \in Threads |->
               IF Role(t) = "loop" /\ action[Subject(t)].st \in Reconcilable
               THEN Reading(t, [Idle EXCEPT !.pc = "listed"]) ELSE thr[t]]
  /\ UNCHANGED <<rows, wire, faults>>

(* ReconcileAction checks status and version, then runs the same steps.    *)
ReconcileManually(a) ==
  LET t == <<"manual", a>> IN
  /\ "manual" \in Roles /\ CommitEnabled
  /\ At(t, "idle")
  /\ action[a].st \in Reconcilable /\ PendingKeys(a) # {}
  /\ Advance(t, Reading(t, [Idle EXCEPT !.pc = "listed"]), {})
  /\ UNCHANGED <<rows, wire, faults>>

(* The newest commit attempt without an answer: an 8xbet commit is younger *)
(* than every Jun88 commit of the action.                                  *)
Newest(k, ks) ==
  \A j \in ks :
    \/ k[1] = j[1] /\ j[2] <= k[2]
    \/ k[1] = "8xbet" /\ j[1] = "jun88"

OtherInPass(t) ==
  \E u \in Threads : Role(t) = "loop" /\ u # t /\ Role(u) = "loop" /\ thr[u].pc \notin {"idle", "listed"}

(* With Overtake FALSE a pass never meets a commit that is marked but not  *)
(* yet on the wire; the code does not exclude it.                          *)
Unwritten(a, k) == \E u \in Threads : Subject(u) = a /\ At(u, "send") /\ KeyOf(u) = k

PickAttempt(t) ==
  LET a == Subject(t) IN
  /\ At(t, "listed") /\ ~OtherInPass(t)
  /\ IF PendingKeys(a) = {} THEN Advance(t, Idle, {})
     ELSE \E k \in PendingKeys(a) :
          /\ Newest(k, PendingKeys(a))
          /\ Overtake \/ ~Unwritten(a, k)
          /\ Advance(t, [Goto(t, "ask") EXCEPT !.key = k], {})
  /\ UNCHANGED <<rows, wire, faults>>

SendReconcile(t) ==
  /\ At(t, "ask")
  /\ \/ Write(t, "reconcile") /\ Advance(t, Goto(t, "answer"), {})
     \/ Advance(t, Idle, {}) /\ UNCHANGED inbox
  /\ UNCHANGED <<rows, journal, tickets, faults>>

(* Wrong: no answer means no ticket.                                       *)
ReconcileUnansweredRejects(t) ==
  /\ At(t, "answer") /\ thr[t].rsp \in {"none", "submission_unknown"}
  /\ Advance(t, Goto(t, IF KeyOf(t)[1] = "jun88" THEN "abort" ELSE "rec_read"), {})
  /\ inbox' = Forgotten({t})
  /\ UNCHANGED <<rows, journal, tickets, faults>>

(* No answer, or an unknown one, changes nothing.                          *)
ReconcileUnanswered(t) ==
  /\ At(t, "answer") /\ thr[t].rsp \in {"none", "submission_unknown"}
  /\ Advance(t, Idle, {})
  /\ inbox' = Forgotten({t})
  /\ UNCHANGED <<rows, journal, tickets, faults>>

(* applyReconciliationResult; incomplete ticket terms and an exposure that *)
(* the action row does not name end with an error.                         *)
ReconcileTicket(t) ==
  /\ At(t, "answer") /\ thr[t].rsp = "ticket_accepted"
  /\ \E p \in {"return"} \cup
         (IF KeyOf(t)[1] = "jun88" THEN {"rec_jun"}
          ELSE IF thr[t].link = "own" THEN {"rec_hedge"} ELSE {}) :
       Advance(t, IF p = "rec_hedge" THEN [Goto(t, p) EXCEPT !.expoStale = FALSE]
                  ELSE Goto(t, p), {})
  /\ UNCHANGED <<rows, wire, faults>>

ReconcileNoTicket(t) ==
  /\ At(t, "answer") /\ thr[t].rsp \in {"odds_changed", "rejected"}
  /\ SaveAttempt(t, "response_received", thr[t].rsp,
                 CASE KeyOf(t)[1] = "jun88" -> "abort"
                   [] KeyOf(t)[1] = "8xbet" /\ thr[t].link = "own" -> "rec_read"
                   [] OTHER -> "return", "return")
  /\ UNCHANGED <<action, expo, wire, faults>>

(* openReconciledJunExposure                                               *)
ReconcileJun(t) ==
  /\ At(t, "rec_jun")
  /\ CommitJun88Ticket(t, Goto(t, "rec_jun_open"))
  /\ UNCHANGED <<wire, faults>>

ReconcileJunOpen(t) ==
  /\ At(t, "rec_jun_open")
  /\ TransitionAction(t, "exposure_open", "return")
  /\ UNCHANGED <<attempt, expo, wire, faults>>

(* completeReconciledHedge: the attempt is answered before the terms are   *)
(* found unprofitable.                                                     *)
ReconcileHedge(t) ==
  /\ At(t, "rec_hedge")
  /\ \E p \in {"rec_complete", "return"} :
       SaveAttempt(t, "response_received", "ticket_accepted", p, "return")
  /\ UNCHANGED <<action, expo, wire, faults>>

ReconcileComplete(t) ==
  LET a == Subject(t)
      may == ~thr[t].expoStale
             /\ expo[a].st \in {"submission_unknown", "hedging", "manual_review"} IN
  /\ At(t, "rec_complete")
  /\ expo' = IF may THEN Completed(t) ELSE expo
  /\ Advance(t, IF may THEN Goto(t, "complete") ELSE Returned(t),
             IF may THEN {ExposureRow} ELSE {})
  /\ UNCHANGED <<action, attempt, wire, faults>>

(* No 8xbet ticket: an unknown or hedging exposure is due again; any other *)
(* keeps its status.  Then openExposure.                                   *)
ReconcileRead(t) ==
  /\ At(t, "rec_read")
  /\ Advance(t, [Goto(t, "rec_reopen") EXCEPT !.expoStale = FALSE], {})
  /\ UNCHANGED <<rows, wire, faults>>

ReconcileReopen(t) ==
  LET a == Subject(t) IN
  /\ At(t, "rec_reopen")
  /\ IF expo[a].st \in {"submission_unknown", "hedging"}
     THEN TransitionExposure(t, "exposure_open", "open")
     ELSE SaveExposure(t, "open")
  /\ UNCHANGED <<action, attempt, wire, faults>>

-----------------------------------------------------------------------------
(* ResolveExposure: the operator's request names the version of the        *)
(* exposure; action and attempts are read after it.  No resolution accepts *)
(* a hedging exposure.                                                     *)

OperatorReads(a) ==
  LET t == <<"operate", a>> IN
  /\ "operate" \in Roles
  /\ At(t, "idle")
  /\ expo[a].st \in {"exposure_open", "submission_unknown", "manual_review"}
  /\ Advance(t, [Idle EXCEPT !.pc = "resolve"], {})
  /\ UNCHANGED <<rows, wire, faults>>

(* action.ExposureID = exposure.ID and action.ExposureOpen                 *)
Linked(a) == action[a].link = "own" /\ action[a].st \notin TerminalAction

(* The four resolutions, on the action and the attempts read now; the      *)
(* checks on the exposure use the row read first, which its version check  *)
(* makes the current one.                                                  *)
OperatorReview(t) ==
  LET a == Subject(t) IN
  /\ At(t, "resolve")
  /\ expo[a].st \in {"exposure_open", "submission_unknown"}
  /\ Linked(a)
  /\ TransitionExposure(t, "manual_review", "return")
  /\ UNCHANGED <<action, attempt, wire, faults>>

OperatorReopen(t) ==
  LET a == Subject(t) IN
  /\ At(t, "resolve")
  /\ expo[a].st = "manual_review" /\ action[a].st = "exposure_open" /\ ~HedgePending(a)
  /\ Linked(a)
  /\ Advance(t, Reading(t, [thr[t] EXCEPT !.pc = "reopen"]), {})
  /\ UNCHANGED <<rows, wire, faults>>

ReopenExposure(t) ==
  /\ At(t, "reopen")
  /\ TransitionExposure(t, "exposure_open", "return")
  /\ UNCHANGED <<action, attempt, wire, faults>>

OperatorClose(t) ==
  LET a == Subject(t) IN
  /\ At(t, "resolve")
  /\ expo[a].st \in {"exposure_open", "manual_review"}
  /\ action[a].st = "exposure_open" /\ ~HedgePending(a)
  /\ Linked(a)
  /\ Advance(t, Reading(t, [thr[t] EXCEPT !.pc = "close"]), {})
  /\ UNCHANGED <<rows, wire, faults>>

(* validateManualHedgeTicketEvidence: evidence is a ticket the bookmaker   *)
(* really holds, of an 8xbet commit without a contrary answer.             *)
OperatorTicket(t) ==
  LET a == Subject(t) IN
  /\ At(t, "resolve")
  /\ action[a].st \in {"exposure_open", "submission_unknown", "placing_8xbet"}
  /\ Linked(a)
  /\ \E n \in CommitNumbers(a, "8xbet") :
       LET k == <<"8xbet", n>>
           row == attempt[a][k] IN
       /\ <<a, "8xbet", n>> \in tickets
       /\ row.st \in PendingAttempt \/ row.res = "ticket_accepted"
       /\ Advance(t, Reading(t, [thr[t] EXCEPT !.key = k, !.attStale = FALSE,
                                   !.pc = IF row.st = "response_received"
                                          THEN "evidence_exposure"
                                          ELSE "evidence_attempt"]), {})
  /\ UNCHANGED <<rows, wire, faults>>

(* Wrong: the evidence completes the action and not the exposure.          *)
EvidenceAttemptOnly(t) ==
  /\ At(t, "evidence_attempt")
  /\ SaveAttempt(t, "response_received", "ticket_accepted", "complete", "return")
  /\ UNCHANGED <<action, expo, wire, faults>>

EvidenceAttempt(t) ==
  /\ At(t, "evidence_attempt")
  /\ SaveAttempt(t, "response_received", "ticket_accepted", "evidence_exposure", "return")
  /\ UNCHANGED <<action, expo, wire, faults>>

(* open -> hedging -> completed happens in memory, in one update.          *)
EvidenceExposure(t) ==
  LET a == Subject(t) IN
  /\ At(t, "evidence_exposure")
  /\ expo' = IF thr[t].expoStale THEN expo ELSE Completed(t)
  /\ Advance(t, IF thr[t].expoStale THEN Returned(t) ELSE Goto(t, "complete"),
             IF thr[t].expoStale THEN {} ELSE {ExposureRow})
  /\ UNCHANGED <<action, attempt, wire, faults>>

(* Every other request is refused.                                         *)
OperatorRefused(t) ==
  /\ At(t, "resolve")
  /\ Advance(t, Idle, {})
  /\ UNCHANGED <<rows, wire, faults>>

-----------------------------------------------------------------------------
MatcherStep(t) ==
  \/ HedgeLease(t) \/ HedgeMatch(t) \/ HedgeReserve(t) \/ HedgePrepare(t) \/ Unlease(t)
  \/ CloseExposure(t) \/ CloseAction(t)

ReconcileStep(t) ==
  \/ PickAttempt(t) \/ SendReconcile(t) \/ ReconcileUnanswered(t) \/ ReconcileTicket(t)
  \/ ReconcileNoTicket(t) \/ ReconcileJun(t) \/ ReconcileJunOpen(t) \/ ReconcileHedge(t)
  \/ ReconcileComplete(t) \/ ReconcileRead(t) \/ ReconcileReopen(t)

OperatorStep(t) ==
  \/ OperatorReview(t) \/ OperatorReopen(t) \/ ReopenExposure(t) \/ OperatorClose(t)
  \/ OperatorTicket(t) \/ EvidenceAttempt(t) \/ EvidenceExposure(t) \/ OperatorRefused(t)
=============================================================================
