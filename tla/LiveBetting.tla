----------------------------- MODULE LiveBetting -----------------------------
(***************************************************************************)
(* Live betting as a whole: executors, hedge matcher, reconciliation and   *)
(* operator on the same rows, the collectors they talk to, and the faults  *)
(* of the backend process.                                                 *)
(***************************************************************************)
EXTENDS LiveRecovery

Init ==
  /\ action = [a \in Actions |-> NoAction]
  /\ attempt = [a \in Actions |-> [k \in Keys |-> NoAttempt]]
  /\ expo = [a \in Actions |-> NoExposure]
  /\ thr = [t \in Threads |-> Idle]
  /\ inbox = [bm \in Bookmakers |-> <<>>]
  /\ journal = [k \in Actions \X Keys |-> "none"]
  /\ tickets = {}
  /\ faults = 0

ThreadStep(t) ==
  ExecutorStep(t) \/ AttemptStep(t) \/ HedgeStep(t) \/ MatcherStep(t)
  \/ ReconcileStep(t) \/ OperatorStep(t)

Arrival(a) == Gate(a) \/ HedgeList(a) \/ ReconcileManually(a) \/ OperatorReads(a)

(* A database error or an expired context ends a thread with an error      *)
(* wherever it is.                                                         *)
ThreadFails(t) ==
  /\ faults < MaxFaults
  /\ ~At(t, "idle")
  /\ faults' = faults + 1
  /\ Advance(t, IF At(t, "unlease") THEN Idle ELSE Returned(t), {})
  /\ inbox' = Forgotten({t})
  /\ UNCHANGED <<rows, journal, tickets>>

(* The backend dies and restarts: the goroutines are gone, and the new     *)
(* process has another lease owner (NewLiveExecutionService).              *)
BackendCrashes ==
  /\ faults < MaxFaults
  /\ faults' = faults + 1
  /\ thr' = [t \in Threads |-> Idle]
  /\ action' = [a \in Actions |->
                  IF action[a].resv = "mine" THEN [action[a] EXCEPT !.resv = "dead"]
                  ELSE action[a]]
  /\ inbox' = Forgotten(Threads)
  /\ UNCHANGED <<attempt, expo, journal, tickets>>

Fault ==
  \/ BackendCrashes
  \/ \E t \in Threads : ThreadFails(t) \/ MarkFails(t)
  \/ \E bm \in Bookmakers : CollectorRestarts(bm)

Next ==
  \/ \E t \in Threads : ThreadStep(t)
  \/ \E a \in Actions : Arrival(a) \/ LeaseExpires(a)
  \/ \E bm \in Bookmakers : CollectorStep(bm)
  \/ ListPending
  \/ Fault

Spec == Init /\ [][Next]_vars

-----------------------------------------------------------------------------
Points ==
  {"idle", "create", "reserve", "prepare", "dry_run", "jun_start", "jun_renew", "new",
   "mark", "send", "wait", "jun_ticket", "jun_unknown", "jun_changed", "jun_reallocate",
   "abort", "release", "evaluate", "hedging", "placing", "hedge_renew", "hedge_done",
   "hedge_changed", "hedge_reprice", "hedge_rejected", "complete", "open", "open_action",
   "hedge_unknown_attempt", "hedge_unknown", "hedge_unknown_action", "lease", "match",
   "hedge_reserve", "hedge_prepare", "close", "close_action", "unlease", "listed", "ask",
   "answer", "rec_jun", "rec_jun_open", "rec_hedge", "rec_complete", "rec_read",
   "rec_reopen", "resolve", "reopen", "evidence_attempt", "evidence_exposure"}

Links == {"none", "own", "lost"}

ThreadState ==
  [pc : Points, key : Keys \cup {NoKey}, round : 0 .. MaxCommits, lag : 0 .. 2,
   link : Links, expoStale : BOOLEAN, attStale : BOOLEAN, rsp : Results \cup {"none"}]
ActionState ==
  [st : ActionStatus \cup {"none"}, resv : {"none", "mine", "dead"}, held : BOOLEAN,
   link : Links]
AttemptState == [st : AttemptStatus \cup {"none"}, res : Results \cup {"none"}]
ExposureState ==
  [st : ExposureStatus \cup {"none"}, leased : BOOLEAN,
   jun : 0 .. MaxCommits, hedge : 0 .. MaxCommits]

(* Every row, thread, queue and journal entry has its type.                *)
TypeOK ==
  /\ action \in [Actions -> ActionState]
  /\ attempt \in [Actions -> [Keys -> AttemptState]]
  /\ expo \in [Actions -> ExposureState]
  /\ thr \in [Threads -> ThreadState]
  /\ inbox \in [Bookmakers -> Seq(Message)]
  /\ journal \in [Actions \X Keys -> Results \cup {"none", "submit_started"}]
  /\ tickets \subseteq Actions \X Bookmakers \X (1 .. MaxCommits)
  /\ faults \in 0 .. MaxFaults

TicketsOf(a, bm) == {n \in 1 .. MaxCommits : <<a, bm, n>> \in tickets}

(* The persistence barrier (CommitJun88Ticket's comment): whenever an      *)
(* 8xbet commit is recorded, let alone sent or accepted, the action's      *)
(* exposure is durable and holds a Jun88 ticket that the bookmaker has.    *)
PersistenceBarrier ==
  \A a \in Actions :
    CommitNumbers(a, "8xbet") \cup TicketsOf(a, "8xbet") # {} =>
      /\ expo[a].st # "none"
      /\ <<a, "jun88", expo[a].jun>> \in tickets

(* A completed exposure names two tickets the bookmakers hold, and a       *)
(* completed action has a completed exposure, whoever completed it.        *)
CompletedHasBothTickets ==
  \A a \in Actions :
    /\ expo[a].st = "completed" =>
         {<<a, "jun88", expo[a].jun>>, <<a, "8xbet", expo[a].hedge>>} \subseteq tickets
    /\ action[a].st = "completed" => expo[a].st = "completed"

(* No retry, reprice, rematch or reconciliation ever leaves two tickets at *)
(* one bookmaker for one action.                                           *)
OneTicketPerLeg ==
  \A a \in Actions, bm \in Bookmakers : Cardinality(TicketsOf(a, bm)) <= 1

(* A commit that may still become a ticket: about to be written, or        *)
(* waiting in a collector's queue.                                         *)
InFlight(a, bm) ==
  \/ \E t \in Threads : Subject(t) = a /\ At(t, "send") /\ KeyOf(t)[1] = bm
  \/ \E i \in DOMAIN inbox[bm] :
       inbox[bm][i].kind = "commit" /\ inbox[bm][i].key[1] = a

(* An action given up without exposure has no Jun88 ticket and none can    *)
(* arrive any more.                                                        *)
AbortedIsEmpty ==
  \A a \in Actions :
    action[a].st = "aborted_no_exposure" =>
      TicketsOf(a, "jun88") = {} /\ ~InFlight(a, "jun88")

(* Both verdicts on an action are true, whoever gave them: completed means *)
(* two tickets the bookmakers hold, given up means no Jun88 ticket and none *)
(* on its way.                                                             *)
OutcomeMatchesTickets == CompletedHasBothTickets /\ AbortedIsEmpty

(* An exposure written off as unhedged has no 8xbet ticket and none can    *)
(* arrive any more.                                                        *)
ClosedIsUnhedged ==
  \A a \in Actions :
    expo[a].st = "unhedged_closed" =>
      TicketsOf(a, "8xbet") = {} /\ ~InFlight(a, "8xbet")

(* At most one unfinished action of the account has a commit that may have *)
(* become a ticket (one without an answer, or a Jun88 ticket, which opens the   *)
(* exposure): the reservation outlives its lease, its process and the      *)
(* exposure gate's stale count.                                            *)
Unsettled == AttemptStatus \ {"response_received"}

Engaged(a) ==
  /\ action[a].st \notin TerminalAction
  /\ \/ expo[a].st # "none"
     \/ \E k \in Keys : attempt[a][k].st \in Unsettled

AccountExclusive == \A a, b \in Actions : Engaged(a) /\ Engaged(b) => a = b

(* The configured exposure limit holds although it is checked before the   *)
(* action exists.                                                          *)
ExposureLimit == CommitEnabled => OpenCount <= MaxOpenExposures

(* A finished action keeps its verdict.                                    *)
VerdictIsFinal ==
  [][\A a \in Actions :
       action[a].st \in TerminalAction => action'[a].st = action[a].st]_vars

(* Whatever the interleaving, an action implements the two-leg promise.    *)
heldBy == [a \in Actions |-> {bm \in Bookmakers : TicketsOf(a, bm) # {}}]

verdictOf ==
  [a \in Actions |->
     CASE action[a].st = "completed" -> "completed"
       [] action[a].st = "unhedged_closed" -> "unhedged"
       [] action[a].st \in {"aborted_no_exposure", "dry_run_completed"} -> "aborted"
       [] OTHER -> "open"]

TwoLeg == INSTANCE TwoLegBet WITH held <- heldBy, verdict <- verdictOf

TwoLegSpec == TwoLeg!Spec

(* Without faults no thread leaves an action half way: from every status   *)
(* in which a goroutine is at work the action reaches a verdict, an open   *)
(* exposure, or an unknown submission.                                     *)
Transient ==
  {"selecting", "ready", "placing_jun88", "awaiting_odds_confirmation",
   "jun88_ticket_received", "placing_8xbet"}

NoActionStranded ==
  \A a \in Actions : (action[a].st \in Transient) ~> (action[a].st \notin Transient)

(* CommitJun88Ticket's comment: it "atomically persists the accepted Jun88 *)
(* attempt, opens the durable exposure, and points the action at it": the  *)
(* action of an exposure names that exposure.                              *)
ActionPointsAtExposure ==
  \A a \in Actions : expo[a].st # "none" => action[a].link = "own"

(* ListDue's comment: "reconciliation must resolve whether a ticket exists *)
(* before the hedge matcher may run again": the matcher records a commit   *)
(* only when no earlier 8xbet commit of the action can still be accepted.  *)
MatcherWaitsForResolution ==
  \A a \in Actions :
    "hedge" \in Roles /\ thr[<<"hedge", a>>].pc = "mark" => ~InFlight(a, "8xbet")
=============================================================================
