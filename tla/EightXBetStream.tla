---------------------------- MODULE EightXBetStream ----------------------------
(* EightXBetRuntime.streamSnapshots around the network feed: a page is       *)
(* opened and subscribed, the feed settles, the whole of it is pushed as the *)
(* bootstrap, then deliveries and reconciliations follow until the page is   *)
(* recycled or something fails; then all is closed and opened anew.  Beside  *)
(* it runs confirmQuote, which asks for one fixture over HTTP.               *)
EXTENDS EightXBetFeed

CONSTANTS MaxRestarts,      \* bound: failures of the page and recycles
          Confirms          \* quotes are confirmed

EightXBetStreamAssumption ==
  EightXBetFeedAssumption /\ MaxRestarts \in Nat /\ Confirms \in BOOLEAN

VARIABLES
  stage,        \* where streamSnapshots is
  boot,         \* the snapshot it pushes as the bootstrap
  restarts,     \* the failures and recycles left
  confirm       \* the confirmation under way

runtime == <<stage, boot, restarts>>
vars == <<feedVars, runtime, confirm>>

Init ==
  /\ FeedInit
  /\ stage = "down" /\ boot = Null /\ restarts = MaxRestarts /\ confirm = Null

HasQuotes(snapshot) == \E f \in DOMAIN snapshot : snapshot[f] # NoMarkets

-----------------------------------------------------------------------------
(* The confirmation.                                                         *)

(* What the bookmaker offered of the fixture since it was asked for.         *)
Offers(offer) == IF offer = Gone THEN [m \in Markets |-> Off] ELSE offer
Witness ==
  confirm' = IF confirm = Null THEN Null
             ELSE [confirm EXCEPT !.since = @ \cup {Offers(truth'[confirm.fixture])}]

(* hardConfirmationURL and the request; calls for a fixture under way share  *)
(* the one operation.                                                        *)
AskConfirm(f) ==
  /\ Confirms /\ ~Draining
  /\ stage # "down" /\ format.display = "pd1"
  /\ confirm = Null
  /\ Spend("matches")
  /\ confirm' = [fixture |-> f, phase |-> "asked", reply |-> Null, since |-> {Offers(truth[f])}]
  /\ UNCHANGED <<truth, names, past, ws, subs, http, feed, delivery, flushing, sink, runtime>>

AnswerConfirm ==
  /\ ~Draining
  /\ confirm # Null /\ confirm.phase = "asked" /\ truth[confirm.fixture] # Gone
  /\ confirm' = [confirm EXCEPT !.phase = "answered",
                                !.reply = MatchResponse(confirm.fixture, "confirm")]
  /\ UNCHANGED <<feedVars, runtime>>

FailConfirm ==
  /\ ~Draining
  /\ confirm # Null
  /\ \/ confirm.phase = "asked"
     \/ confirm.phase = "answered" /\ (~Accepted(confirm.fixture) \/ ~InOrder(confirm.reply))
  /\ confirm' = Null
  /\ UNCHANGED <<feedVars, runtime>>

(* applyFullMatchPayload: of whatever page, it does not ask.                 *)
ApplyConfirm ==
  /\ ~Draining
  /\ confirm # Null /\ confirm.phase = "answered"
  /\ Accepted(confirm.fixture) /\ InOrder(confirm.reply)
  /\ ApplyMatch(confirm.reply)
  /\ flushing' = [flushing EXCEPT !["confirm"] = "timers"]
  /\ confirm' = [confirm EXCEPT !.phase = "flush"]
  /\ UNCHANGED <<bookmaker, http, active, notified, listener, format, delivery, sink,
                 runtime>>

Confirmed == confirm # Null /\ confirm.phase = "flush" /\ flushing["confirm"] = "done"

ReturnConfirm ==
  /\ ~Draining
  /\ Confirmed
  /\ flushing' = [flushing EXCEPT !["confirm"] = "no"]
  /\ confirm' = Null
  /\ UNCHANGED <<bookmaker, http, feed, delivery, sink, runtime>>

-----------------------------------------------------------------------------
(* The page is opened and settles.                                           *)

(* ensurePage, up to the attached feed.                                      *)
OpenPage ==
  /\ ~Draining
  /\ stage = "down"
  /\ stage' = "subscribe"
  /\ Attach
  /\ UNCHANGED <<truth, names, past, budget, listener, running, batch, inflight, flushing, sink,
                 boot, restarts, confirm>>

(* refreshNetworkSubscriptions, when the metadata stayed the same meanwhile. *)
Subscribe ==
  /\ ~Draining
  /\ stage = "subscribe" /\ active # Null
  /\ stage' = "gate"
  /\ subs' = active
  /\ ws' = ws \o Subscribed(active \ subs)
  /\ UNCHANGED <<truth, names, past, budget, http, feed, delivery, flushing, sink, boot, restarts, confirm>>

(* waitForEightXBetExpectedOddsFormat.                                       *)
FormatSeen ==
  /\ ~Draining
  /\ stage = "gate" /\ format.display = "pd1" /\ ~format.unhealthy
  /\ stage' = "settle"
  /\ UNCHANGED <<feedVars, boot, restarts, confirm>>

(* isEightXBetBootstrapReady.                                                *)
BootstrapReady ==
  /\ active \notin {Null, {}} /\ PendingActive = {}
  /\ HasQuotes(OverlaySnapshot)
       = \E f \in active : AllSelections(fixtures[f]) # NoMarkets

(* waitForNetworkBootstrap, and the push of what it returns.                 *)
PushBootstrap ==
  /\ ~Draining
  /\ stage = "settle" /\ BootstrapReady
  /\ stage' = "push"
  /\ boot' = [f \in Fixtures |-> [name |-> State(f).meta, quotes |-> OverlaySnapshot[f]]]
  /\ sink' = OverlaySnapshot
  /\ UNCHANGED <<bookmaker, http, feed, delivery, flushing, restarts, confirm>>

BootstrapPushed ==
  /\ ~Draining
  /\ stage = "push"
  /\ stage' = "live"
  /\ boot' = Null
  /\ Activate(boot)
  /\ UNCHANGED <<truth, names, past, http, active, delivery, flushing, format, sink, restarts, confirm>>

-----------------------------------------------------------------------------
(* The stream.                                                               *)

StartFlush == flushing' = [flushing EXCEPT !["loop"] = "timers"]
Flushed == flushing["loop"] = "done"

(* A reconciliation subscribes again what is not decoded and flushes ...     *)
Reconcile ==
  /\ ~Draining
  /\ stage = "live" /\ ~format.unhealthy
  /\ Len(ws) < MaxWire
  /\ stage' = "reconcile"
  /\ ws' = ws \o Subscribed(PendingActive \cap subs)
  /\ StartFlush
  /\ UNCHANGED <<truth, names, past, budget, subs, http, feed, delivery, sink, boot, restarts, confirm>>

(* ... then vouches for what the sink was given of the fixtures with quotes. *)
Vouched == {f \in Fixtures : OverlaySnapshot[f] # NoMarkets}

Reconciled ==
  /\ ~Draining
  /\ stage = "reconcile" /\ Flushed /\ ~format.unhealthy
  /\ stage' = "live"
  /\ flushing' = [flushing EXCEPT !["loop"] = "no"]
  /\ UNCHANGED <<bookmaker, http, feed, delivery, sink, boot, restarts, confirm>>

(* The hard recycle drains what is pending first.                            *)
Recycle ==
  /\ ~Draining
  /\ stage = "live" /\ restarts > 0 /\ restarts' = restarts - 1
  /\ stage' = "recycle"
  /\ StartFlush
  /\ UNCHANGED <<bookmaker, http, feed, delivery, sink, boot, confirm>>

(* A wait of the opening meets its deadline: nothing under way will end it.  *)
Overdue ==
  /\ ws = <<>>
  /\ \/ stage = "gate" /\ format.display # "pd1"
     \/ stage = "settle" /\ ~BootstrapReady

(* An error: an unhealthy format, or any (bound: restarts) of the page, of   *)
(* the sink or of a deadline.  resetPage, and its flush.                     *)
Fail ==
  /\ ~Draining
  /\ stage \notin {"down", "recycle", "reset", "close", "closed"}
  /\ \/ format.unhealthy /\ stage \in {"gate", "live", "reconcile"} /\ UNCHANGED restarts
     \/ Overdue /\ UNCHANGED restarts
     \/ restarts > 0 /\ restarts' = restarts - 1
  /\ stage' = "reset"
  /\ boot' = Null
  /\ Detach
  /\ StartFlush
  /\ UNCHANGED <<truth, names, past, budget, fixtures, notified, listener, pendingIds, coalesce,
                 format, delivery, sink, confirm>>

(* The finally block: deactivate, and its flush.                             *)
Stop ==
  /\ ~Draining
  /\ stage \in {"recycle", "reset"} /\ Flushed
  /\ stage' = IF stage = "reset" THEN "closed" ELSE "close"
  /\ Deactivate
  /\ StartFlush
  /\ UNCHANGED <<bookmaker, http, active, format, running, batch, inflight, sink, boot,
                 restarts, confirm>>

(* The collector closes the runtime and begins again.                        *)
Close ==
  /\ ~Draining
  /\ stage \in {"close", "closed"} /\ Flushed
  /\ stage' = "down"
  /\ IF stage = "close" THEN Detach ELSE UNCHANGED <<http, active, ws, subs>>
  /\ flushing' = [flushing EXCEPT !["loop"] = "no"]
  /\ UNCHANGED <<truth, names, past, budget, fixtures, notified, listener, pendingIds, coalesce,
                 format, delivery, sink, boot, restarts, confirm>>

-----------------------------------------------------------------------------
Beside == UNCHANGED <<runtime, confirm>>

Bookmaker ==
  \/ /\ \/ \E f \in Fixtures, m \in Markets, c \in Contents \cup {Off} : ChangeMarket(f, m, c)
        \/ \E f \in Fixtures : \E offer \in {Gone, truth[f]} \cup [Markets -> Contents] :
             \E name \in Names : ChangePlay(f, offer, name)
     /\ Witness /\ UNCHANGED runtime
  \/ Beside /\ \E f \in Fixtures, fault \in {"display", "negative"} : SendFault(f, fault)
  \/ Beside /\ DropSocket
  \/ Beside /\ \E f \in Fixtures : AskMatch(f)

Poll == Beside /\ AskTournaments
Arrive == Beside /\ \E r \in http : IngestResponse(r)
Ignore == Beside /\ \E r \in http : IgnoreResponse(r)
Receive == Beside /\ IngestStompFrame
Timers(f) == Beside /\ (CoalesceTimer(f) \/ RetryTimer(f))
Drain == Beside /\ (TakeBatch \/ EndDrain \/ \E f \in Fixtures : DeliverNext(f))
Answered == Beside /\ ListenerDone
Refused == Beside /\ ListenerFailed
Flush(w) == Beside /\ FlushTimers(w)

Confirming ==
  \/ \E f \in Fixtures : AskConfirm(f)
  \/ AnswerConfirm \/ FailConfirm \/ ApplyConfirm \/ ReturnConfirm

Runtime ==
  \/ OpenPage \/ Subscribe \/ FormatSeen \/ PushBootstrap \/ BootstrapPushed
  \/ Reconcile \/ Reconciled \/ Recycle \/ Fail \/ Stop \/ Close

Next ==
  \/ Bookmaker \/ Poll \/ Arrive \/ Ignore \/ Receive
  \/ \E f \in Fixtures : Timers(f)
  \/ Drain \/ Answered \/ Refused
  \/ \E w \in {"loop", "confirm"} : Flush(w)
  \/ Confirming \/ Runtime

Spec == Init /\ [][Next]_vars

-----------------------------------------------------------------------------
(* Properties.                                                               *)

(* States, sets and stages have their types; a fixture in play is not        *)
(* retired.                                                                  *)
TypeOK ==
  /\ stage \in {"down", "subscribe", "gate", "settle", "push", "live", "reconcile", "recycle",
                "reset", "close", "closed"}
  /\ \A f \in Fixtures : fixtures[f] # Absent =>
       /\ fixtures[f].meta \in Names \cup {Null}
       /\ fixtures[f].seen \subseteq Markets /\ fixtures[f].pending \subseteq Markets
       /\ \A m \in Markets : fixtures[f].markets[m] \in Contents \cup {Off}
  /\ active = Null \/ active \subseteq Fixtures
  /\ pendingIds \cup coalesce \cup retry \cup batch \cup subs \subseteq Fixtures
  /\ inflight # Null => running /\ inflight.touched \subseteq Markets
  /\ ~listener => stage \notin {"live", "reconcile", "recycle"}
  /\ \A f \in Fixtures : fixtures[f] # Absent /\ fixtures[f].retired =>
       active = Null \/ f \notin active
  /\ \A w \in DOMAIN flushing : flushing[w] \in {"no", "timers", "queue", "done"}

(* The bookkeeping of deliveries loses nothing: whatever the listener, the   *)
(* timers, failures and retirements did, the sink has of every market seen   *)
(* what the feed has, unless the market is pending or its delivery awaits an *)
(* answer (pendingMarkets, replaceDeliveredMarkets).                         *)
SettledReachedSink ==
  \A f \in Fixtures, m \in Markets :
    (/\ listener /\ fixtures[f] # Absent /\ m \in fixtures[f].seen
     /\ m \notin fixtures[f].pending)
      => sink[f][m] = BuildMarketSelections(fixtures[f], m)

(* No wake-up is lost: a market that waits for its delivery is on its way,   *)
(* by a timer, by the queue, or by the delivery whose failure retries it.    *)
PendingIsScheduled ==
  \A f \in Fixtures :
    (listener /\ fixtures[f] # Absent /\ fixtures[f].pending # {} /\ fixtures[f].meta # Null)
      => \/ f \in coalesce \cup retry
         \/ running /\ f \in pendingIds \cup batch

(* "metadata retirement must remove remaining quotes": what the sink still   *)
(* shows of a fixture, the feed still knows, to remove it once it leaves     *)
(* play.                                                                     *)
RetirementRemovesQuotes ==
  \A f \in Fixtures : listener /\ sink[f] # NoMarkets => fixtures[f] # Absent

(* No delivery outlives its stream (flush in resetPage and in the finally    *)
(* block): one that did would write what it delivered to the states of the   *)
(* next stream.                                                              *)
QuietWhenDown == stage = "down" => ~running /\ coalesce = {}

(* "an unchanged provider event must refresh its exact batch": a delivery    *)
(* without deltas refreshes what the sink has of the fixture, which is what  *)
(* the feed was given.                                                       *)
RefreshedIsExact ==
  inflight # Null /\ inflight.refresh =>
    \A m \in inflight.touched : sink[inflight.fixture][m] = inflight.quotes[m]

(* A confirmed quote was offered after its confirmation was asked for.       *)
ConfirmedWasOffered ==
  Confirmed /\ fixtures[confirm.fixture] # Absent =>
    \A m \in Markets : LET c == fixtures[confirm.fixture].markets[m] IN
      c # Off => \E offer \in confirm.since : offer[m] = c

(* What the bookmaker offers, as the sink should show it.                    *)
Offered(f) ==
  IF truth[f] = Gone THEN NoMarkets
  ELSE AllSelections([NewState EXCEPT !.meta = names[f], !.markets = truth[f]])
=============================================================================
