-------------------------- MODULE MCEightXBetStream --------------------------
(* Instances of EightXBetStream for TLC.  A behaviour belongs to one scenario, *)
(* which fixes fixtures, contents and bounds.                                  *)
EXTENDS Integers, TLC

CONSTANTS f1, f2, ah, ou, home, away, n1, n2, Off, Gone, Absent, Null
VARIABLES
  scenario,
  truth, names, budget, past, ws, http, subs, fixtures, active, notified, listener,
  pendingIds, coalesce, retry, running, batch, inflight, flushing, format, sink,
  stage, boot, restarts, confirm

vars == <<truth, names, budget, past, ws, http, subs, fixtures, active, notified, listener,
          pendingIds, coalesce, retry, running, batch, inflight, flushing, format, sink,
          stage, boot, restarts, confirm>>

(* Two contents that share a line, so that a change is an update, a removal    *)
(* and an addition at once; two prices of one line.                            *)
TwoContents == {home :> 1, (home :> 2) @@ (away :> 2)}
TwoPrices == {home :> 1, home :> 2}
OneContent == {home :> 1}

-----------------------------------------------------------------------------
(* One fixture whose market comes, goes and returns, in an odds format that    *)
(* may change.                                                                 *)
Page == INSTANCE EightXBetStream WITH
  Fixtures <- {f1}, Markets <- {ah}, Handicaps <- {ah}, Contents <- TwoContents, Names <- {n1},
  MaxChanges <- 2, MaxFailures <- 0, MaxMissed <- 0, MaxMatches <- 0, MaxDrops <- 0, MaxFaults <- 1,
  MaxWire <- 2, MaxResponses <- 1, MaxRestarts <- 0,
  Steady <- FALSE, Returns <- TRUE, Overtakes <- FALSE, EarlyDrops <- FALSE, Confirms <- FALSE

(* The same in a page that is recycled, fails or loses its socket.             *)
Recycled == INSTANCE EightXBetStream WITH
  Fixtures <- {f1}, Markets <- {ah}, Handicaps <- {ah}, Contents <- TwoContents, Names <- {n1},
  MaxChanges <- 2, MaxFailures <- 0, MaxMissed <- 0, MaxMatches <- 0, MaxDrops <- 1, MaxFaults <- 0,
  MaxWire <- 2, MaxResponses <- 1, MaxRestarts <- 1,
  Steady <- FALSE, Returns <- TRUE, Overtakes <- FALSE, EarlyDrops <- FALSE, Confirms <- FALSE

(* Two fixtures that enter and leave play.                                     *)
Play == INSTANCE EightXBetStream WITH
  Fixtures <- {f1, f2}, Markets <- {ah}, Handicaps <- {ah}, Contents <- OneContent, Names <- {n1},
  MaxChanges <- 2, MaxFailures <- 0, MaxMissed <- 0, MaxMatches <- 0, MaxDrops <- 0, MaxFaults <- 0,
  MaxWire <- 2, MaxResponses <- 1, MaxRestarts <- 0,
  Steady <- FALSE, Returns <- TRUE, Overtakes <- FALSE, EarlyDrops <- FALSE, Confirms <- FALSE

(* Fixtures that are renamed, and responses that overtake frames.              *)
Renames == INSTANCE EightXBetStream WITH
  Fixtures <- {f1}, Markets <- {ah}, Handicaps <- {ah}, Contents <- TwoContents, Names <- {n1, n2},
  MaxChanges <- 1, MaxFailures <- 0, MaxMissed <- 0, MaxMatches <- 1, MaxDrops <- 0, MaxFaults <- 0,
  MaxWire <- 2, MaxResponses <- 2, MaxRestarts <- 0,
  Steady <- FALSE, Returns <- TRUE, Overtakes <- TRUE, EarlyDrops <- FALSE, Confirms <- FALSE

(* A listener that fails, and a missed subscription, while only prices change. *)
Refusals == INSTANCE EightXBetStream WITH
  Fixtures <- {f1}, Markets <- {ah, ou}, Handicaps <- {ah}, Contents <- TwoPrices, Names <- {n1},
  MaxChanges <- 2, MaxFailures <- 1, MaxMissed <- 1, MaxMatches <- 0, MaxDrops <- 0, MaxFaults <- 0,
  MaxWire <- 2, MaxResponses <- 1, MaxRestarts <- 0,
  Steady <- TRUE, Returns <- FALSE, Overtakes <- FALSE, EarlyDrops <- FALSE, Confirms <- FALSE

(* Confirmations beside the stream.                                            *)
Asked == INSTANCE EightXBetStream WITH
  Fixtures <- {f1}, Markets <- {ah}, Handicaps <- {ah}, Contents <- TwoContents, Names <- {n1},
  MaxChanges <- 1, MaxFailures <- 0, MaxMissed <- 0, MaxMatches <- 2, MaxDrops <- 0, MaxFaults <- 0,
  MaxWire <- 2, MaxResponses <- 1, MaxRestarts <- 0,
  Steady <- FALSE, Returns <- FALSE, Overtakes <- FALSE, EarlyDrops <- FALSE, Confirms <- TRUE

ASSUME Assumptions ==
  /\ Page!EightXBetStreamAssumption /\ Recycled!EightXBetStreamAssumption
  /\ Play!EightXBetStreamAssumption /\ Renames!EightXBetStreamAssumption
  /\ Refusals!EightXBetStreamAssumption /\ Asked!EightXBetStreamAssumption

Init ==
  \/ scenario = "page" /\ Page!Init
  \/ scenario = "recycled" /\ Recycled!Init
  \/ scenario = "play" /\ Play!Init
  \/ scenario = "renames" /\ Renames!Init
  \/ scenario = "refusals" /\ Refusals!Init
  \/ scenario = "asked" /\ Asked!Init

Next ==
  /\ UNCHANGED scenario
  /\ \/ scenario = "page" /\ Page!Next
     \/ scenario = "recycled" /\ Recycled!Next
     \/ scenario = "play" /\ Play!Next
     \/ scenario = "renames" /\ Renames!Next
     \/ scenario = "refusals" /\ Refusals!Next
     \/ scenario = "asked" /\ Asked!Next

(* The page polls, messages arrive, timers fire and the listener answers; the  *)
(* coroutine goes on when it can.  Bookmaker, faults and restarts need not     *)
(* happen.                                                                     *)
PageRuns ==
  /\ WF_vars(scenario = "page" /\ Page!Poll)
  /\ WF_vars(scenario = "page" /\ Page!Arrive)
  /\ WF_vars(scenario = "page" /\ Page!Ignore)
  /\ WF_vars(scenario = "page" /\ Page!Receive)
  /\ WF_vars(scenario = "page" /\ Page!Timers(f1))
  /\ WF_vars(scenario = "page" /\ Page!Drain)
  /\ WF_vars(scenario = "page" /\ Page!Answered)
  /\ WF_vars(scenario = "page" /\ Page!Flush("loop"))
  /\ WF_vars(scenario = "page" /\ Page!OpenPage)
  /\ WF_vars(scenario = "page" /\ Page!Subscribe)
  /\ WF_vars(scenario = "page" /\ Page!FormatSeen)
  /\ WF_vars(scenario = "page" /\ Page!PushBootstrap)
  /\ WF_vars(scenario = "page" /\ Page!BootstrapPushed)
  /\ WF_vars(scenario = "page" /\ Page!Reconcile)
  /\ WF_vars(scenario = "page" /\ Page!Reconciled)
  /\ WF_vars(scenario = "page" /\ Page!Fail /\ UNCHANGED restarts)
  /\ WF_vars(scenario = "page" /\ Page!Stop)
  /\ WF_vars(scenario = "page" /\ Page!Close)

Spec == Init /\ [][Next]_<<vars, scenario>> /\ PageRuns

-----------------------------------------------------------------------------
(* What is not pending has reached the sink, whatever the listener, the timers,*)
(* failures and retirements did; what is pending has a timer, a place in the   *)
(* queue or a delivery whose failure retries it; an empty delivery refreshes   *)
(* what the sink really has; and no delivery outlives its stream, to write into*)
(* the states of the next (EightXBetStream).                                   *)
SettledReachedSink ==
  CASE scenario = "page" ->
         Page!TypeOK /\ Page!SettledReachedSink /\ Page!RefreshedIsExact /\ Page!QuietWhenDown
    [] scenario = "recycled" ->
         Recycled!TypeOK /\ Recycled!SettledReachedSink /\ Recycled!QuietWhenDown
    [] scenario = "renames" -> Renames!TypeOK /\ Renames!SettledReachedSink
    [] scenario = "refusals" ->
         Refusals!TypeOK /\ Refusals!PendingIsScheduled /\ Refusals!RefreshedIsExact
    [] scenario = "play" -> Play!TypeOK /\ Play!PendingIsScheduled
    [] OTHER -> TRUE

(* "metadata retirement must remove remaining quotes": what the sink still     *)
(* shows of a fixture, the feed still knows, to remove it once it leaves play. *)
RetirementRemovesQuotes ==
  CASE scenario = "play" -> Play!RetirementRemovesQuotes
    [] scenario = "page" -> Page!RetirementRemovesQuotes
    [] scenario = "recycled" -> Recycled!RetirementRemovesQuotes
    [] OTHER -> TRUE

(* A quote that confirmQuote returns was offered after it was asked for.       *)
ConfirmedWasOffered == scenario = "asked" => Asked!ConfirmedWasOffered

(* A reconciliation stamps batches of the sink with the present time.  Whatever*)
(* it vouches for is what the feed shows, or its correction is on its way.     *)
VouchedIsCurrent ==
  [][(scenario = "play" /\ stage = "reconcile" /\ stage' = "live") =>
       \A f \in Play!Vouched : \/ sink[f] = Play!AllSelections(fixtures[f])
                               \/ f \in coalesce \cup retry \cup pendingIds \cup batch]_vars

(* Once the bookmaker and the faults come to rest, the sink shows exactly what *)
(* is offered, if any fixture is in play: without one no bootstrap is ready and*)
(* the stream stays down.                                                      *)
Converges ==
  <>[](scenario = "page" /\ Page!InPlay # {} => sink[f1] = Page!Offered(f1))
================================================================================
