----------------------------- MODULE EightXBetFeed -----------------------------
(* EightXBetNetworkFeed: what the 8xbet page receives from the bookmaker,    *)
(* kept per fixture and handed, fixture by fixture, to a listener.           *)
(* Tournament responses say which fixtures are in play, match responses and  *)
(* INIT frames give all markets of a fixture, other frames the markets that  *)
(* changed.  A change is delivered after a pause that gathers others; one    *)
(* delivery runs at a time; a failed one is tried again by a timer.          *)
(*                                                                           *)
(* A market's content is a function from lines to prices, or Off.  The       *)
(* quotes of a market are a function of the metadata and the content, which  *)
(* the code rebuilds at each change of either: they are not kept here.       *)
EXTENDS Integers, FiniteSets, Sequences, SequencesExt

CONSTANTS
  Fixtures, Markets,
  Handicaps,        \* the markets whose outcomes are named after a team
  Contents,         \* what a market may offer
  Names,            \* what a fixture may be called
  Off,              \* the content of a market that is not offered
  Gone,             \* a fixture that is not in play
  Absent,           \* a fixture the feed has no state of
  Null,
  MaxChanges,       \* bound: changes at the bookmaker
  MaxFailures,      \* bound: deliveries that fail
  MaxMissed,        \* bound: subscriptions that fail
  MaxMatches,       \* bound: match requests of the page
  MaxDrops,         \* bound: sockets lost
  MaxFaults,        \* bound: frames in another odds format
  MaxWire,          \* frames under way when another may be sent
  MaxResponses,     \* responses under way when another may be asked for
  Steady,           \* only prices change: no market or fixture comes or goes
  Returns,          \* a market may offer again what it once offered
  Overtakes,        \* a match response may be applied after a newer frame
  EarlyDrops        \* a fixture may leave play before its first delivery settled

EightXBetFeedAssumption ==
  /\ Handicaps \subseteq Markets
  /\ Off \notin Contents
  /\ {MaxChanges, MaxFailures, MaxMissed, MaxMatches, MaxDrops, MaxFaults, MaxWire,
     MaxResponses} \subseteq Nat
  /\ {Steady, Returns, Overtakes, EarlyDrops} \subseteq BOOLEAN

VARIABLES
  truth,        \* what the bookmaker offers
  names,        \* what it calls the fixtures
  budget,       \* the bounded events left
  past,         \* what each market offered so far, unless it may return
  ws,           \* the frames under way on the socket
  http,         \* the responses under way
  subs,         \* the fixtures the socket is subscribed to
  fixtures, active, notified, listener,
  pendingIds, coalesce, retry,
  running,      \* deliveryRunning
  batch,        \* the fixtureIds the drain has still to visit
  inflight,     \* the delivery the drain awaits
  flushing,     \* what each caller of flush waits for
  format,       \* priceDisplay and formatUnhealthyReason
  sink          \* the listener's side: the quotes it was given

bookmaker == <<truth, names, past, budget, ws, subs>>
delivery == <<retry, running, batch, inflight>>
feed == <<fixtures, active, notified, listener, pendingIds, coalesce, format>>
feedVars == <<bookmaker, http, feed, delivery, flushing, sink>>

NoQuotes == <<>>
NoMarkets == [m \in Markets |-> NoQuotes]

Without(f, S) == [o \in DOMAIN f \ S |-> f[o]]
Over(f, g) == [o \in DOMAIN f \cup DOMAIN g |-> IF o \in DOMAIN f THEN f[o] ELSE g[o]]

NewState ==
  [meta |-> Null, markets |-> [m \in Markets |-> Off], seen |-> {},
   delivered |-> NoMarkets, pending |-> {}, retired |-> FALSE]

NewFormat == [display |-> Null, unhealthy |-> FALSE]

Offering(offers) ==
  {<<f, m, offers[f][m]>> : f \in {x \in Fixtures : offers[x] # Gone /\ ~Returns}, m \in Markets}

FeedInit ==
  /\ truth \in [Fixtures -> {Gone} \cup [Markets -> Contents]]
  /\ names \in [Fixtures -> Names]
  /\ budget = [changes |-> MaxChanges, failures |-> MaxFailures, missed |-> MaxMissed, matches |-> MaxMatches,
               drops |-> MaxDrops, faults |-> MaxFaults]
  /\ past = Offering(truth)
  /\ ws = <<>> /\ http = {} /\ subs = {}
  /\ fixtures = [f \in Fixtures |-> Absent]
  /\ active = Null /\ notified = Null /\ listener = FALSE
  /\ pendingIds = {} /\ coalesce = {} /\ retry = {}
  /\ running = FALSE /\ batch = {} /\ inflight = Null
  /\ flushing = [w \in {"loop", "confirm"} |-> "no"]
  /\ format = NewFormat
  /\ sink = [f \in Fixtures |-> NoMarkets]

Spend(kind) == budget[kind] > 0 /\ budget' = [budget EXCEPT ![kind] = @ - 1]

(* A drain runs from one await to the next without interleaving.             *)
Draining == running /\ inflight = Null

-----------------------------------------------------------------------------
(* The quotes of a fixture.                                                  *)

(* buildMarketSelections: none without metadata; the outcomes of a handicap  *)
(* carry the names of the teams.                                             *)
BuildMarketSelections(s, m) ==
  LET c == s.markets[m]
      team == IF m \in Handicaps THEN s.meta ELSE Null
  IN IF s.meta = Null \/ c = Off THEN NoQuotes
     ELSE [o \in {<<team, line>> : line \in DOMAIN c} |-> c[o[2]]]

AllSelections(s) == [m \in Markets |-> BuildMarketSelections(s, m)]

State(f) == IF fixtures[f] = Absent THEN NewState ELSE fixtures[f]
HasDecoded(f) == fixtures[f] # Absent /\ fixtures[f].seen # {}
ActiveIds == IF active = Null THEN {} ELSE active
PendingActive == {f \in ActiveIds : ~HasDecoded(f)}

(* overlaySnapshot of a snapshot without selections, as every caller has it. *)
OverlaySnapshot ==
  [f \in Fixtures |->
     IF HasDecoded(f) /\ ~fixtures[f].retired THEN AllSelections(fixtures[f]) ELSE NoMarkets]

-----------------------------------------------------------------------------
(* Wrong: the delivery under way is taken to carry the change.               *)
EmitUnlessUnderWay(S) ==
  LET waiting == {f \in S : inflight = Null \/ inflight.fixture # f}
  IN IF listener
       THEN pendingIds' = pendingIds \cup waiting /\ coalesce' = coalesce \cup waiting
       ELSE UNCHANGED <<pendingIds, coalesce>>

(* emitFixture, for every fixture of S.                                      *)
EmitFixtures(S) ==
  IF listener
    THEN pendingIds' = pendingIds \cup S /\ coalesce' = coalesce \cup S
    ELSE UNCHANGED <<pendingIds, coalesce>>

MetadataChanged(s, name) == s.retired \/ s.meta # name

(* applyMetadata: a change rebuilds, and delivers again, what was seen.      *)
WithMetadata(s, name) ==
  IF MetadataChanged(s, name)
    THEN [s EXCEPT !.meta = name, !.retired = FALSE, !.pending = @ \cup s.seen]
    ELSE s

(* Wrong: a full payload leaves the markets it does not name.                *)
WithMarketsMerged(s, full, update) ==
  [s EXCEPT !.retired = FALSE,
            !.markets = [m \in Markets |-> IF m \in DOMAIN update THEN update[m] ELSE @[m]],
            !.seen = @ \cup DOMAIN update,
            !.pending = @ \cup DOMAIN update]

(* applyMarkets: update maps the markets named to their content, Off for the *)
(* removed ones; a full payload replaces all four.                           *)
WithMarkets(s, full, update) ==
  LET touched == IF full THEN Markets ELSE DOMAIN update
  IN [s EXCEPT !.retired = FALSE,
               !.markets = [m \in Markets |-> IF m \in DOMAIN update THEN update[m]
                                              ELSE IF full THEN Off ELSE @[m]],
               !.seen = @ \cup touched,
               !.pending = @ \cup touched]

Accepted(f) == IF active = Null THEN TRUE ELSE f \in active

ApplyMarkets(f, full, update) ==
  IF Accepted(f)
    THEN /\ fixtures' = [fixtures EXCEPT ![f] = WithMarkets(State(f), full, update)]
         /\ EmitFixtures({f})
    ELSE UNCHANGED <<fixtures, pendingIds, coalesce>>

(* applyMetadata and applyMarkets of a match payload.                        *)
ApplyMatch(r) ==
  IF Accepted(r.fixture)
    THEN /\ fixtures' = [fixtures EXCEPT ![r.fixture] =
              WithMarkets(WithMetadata(State(r.fixture), r.name), TRUE, r.update)]
         /\ EmitFixtures({r.fixture})
    ELSE UNCHANGED <<fixtures, pendingIds, coalesce>>

-----------------------------------------------------------------------------
(* Which fixtures are in play.                                               *)

Undelivered(s) == s.delivered = NoMarkets

(* retireFixturesMissingFromMetadata: of one fixture; seen or delivered      *)
(* markets are emptied and delivered so.                                     *)
Retired(s) ==
  [s EXCEPT !.retired = TRUE,
            !.markets = [m \in Markets |-> Off],
            !.pending = @ \cup s.seen \cup {m \in Markets : s.delivered[m] # NoQuotes}]

(* Wrong: every fixture missing is dropped, its quotes with it.              *)
DroppedAll(S) == {f \in Fixtures \ S : fixtures[f] # Absent /\ ~fixtures[f].retired}

(* ... it drops at once a fixture of which nothing was delivered.            *)
Dropped(S) ==
  {f \in Fixtures \ S : /\ fixtures[f] # Absent
                        /\ ~fixtures[f].retired
                        /\ ~listener \/ fixtures[f].meta = Null \/ Undelivered(fixtures[f])}

RetiredNow(S) ==
  {f \in Fixtures \ S : fixtures[f] # Absent /\ ~fixtures[f].retired} \ Dropped(S)

(* Bound: which fixtures may leave (EarlyDrops).                             *)
MayLeave(S) ==
  EarlyDrops \/ \A f \in Fixtures \ S :
    listener /\ fixtures[f] # Absent /\ Undelivered(State(f)) => sink[f] = NoMarkets

Update(offer) == [m \in {x \in Markets : offer[x] # Off} |-> offer[m]]

Frame(f, full, update, fault) ==
  [fixture |-> f, full |-> full, update |-> update, fault |-> fault]

InitFrame(f) == Frame(f, TRUE, Update(truth[f]), "none")

(* SUBSCRIBE, answered by an INIT frame of each fixture that is in play.     *)
Subscribed(S) ==
  [i \in 1..Cardinality({f \in S : truth[f] # Gone}) |->
     InitFrame(SetToSeq({f \in S : truth[f] # Gone})[i])]

(* notifyActiveFixtures: the listener is told of a new set, and the bridge   *)
(* subscribes to it.  It may miss it (EightXBetBridge, bound: missed): the   *)
(* runtime swallows the failure, and the set counts as told.                 *)
NotifyActiveFixtures(S, told) ==
  IF ~told \/ S = Null \/ S = notified THEN UNCHANGED <<notified, subs, ws, budget>>
  ELSE /\ notified' = S
       /\ \/ subs' = S /\ ws' = ws \o Subscribed(S \ subs) /\ UNCHANGED budget
          \/ Spend("missed") /\ UNCHANGED <<subs, ws>>

(* applyMetadataSnapshot.                                                    *)
ApplyMetadataSnapshot(S, called) ==
  LET changed == {f \in S : MetadataChanged(State(f), called[f]) /\ State(f).seen # {}}
  IN /\ MayLeave(S)
     /\ fixtures' = [f \in Fixtures |->
          IF f \in S THEN WithMetadata(State(f), called[f])
          ELSE IF f \in Dropped(S) THEN Absent
          ELSE IF f \in RetiredNow(S) THEN Retired(fixtures[f])
          ELSE fixtures[f]]
     /\ inflight' = IF inflight # Null /\ inflight.fixture \in Dropped(S)
                      THEN [inflight EXCEPT !.orphan = TRUE] ELSE inflight
     /\ EmitFixtures(changed \cup RetiredNow(S))
     /\ active' = S
     /\ NotifyActiveFixtures(S, listener)

-----------------------------------------------------------------------------
(* The bookmaker, and the page's requests (external).                        *)

(* A market of a subscribed fixture changes: a frame says so.                *)
ChangeMarket(f, m, c) ==
  /\ ~Draining
  /\ Spend("changes")
  /\ truth[f] # Gone /\ truth[f][m] # c
  /\ <<f, m, c>> \notin past
  /\ Steady => c # Off
  /\ truth' = [truth EXCEPT ![f][m] = c]
  /\ past' = past \cup Offering(truth')
  /\ IF f \in subs
       THEN /\ Len(ws) < MaxWire
            /\ ws' = Append(ws, Frame(f, FALSE, [x \in {m} |-> c], "none"))
       ELSE UNCHANGED ws
  /\ UNCHANGED <<names, subs, http, feed, delivery, flushing, sink>>

(* A fixture enters or leaves play, or is renamed; one still subscribed to   *)
(* that returns sends all it has.                                            *)
ChangePlay(f, offer, name) ==
  /\ ~Draining /\ ~Steady
  /\ Spend("changes")
  /\ \/ (truth[f] = Gone) # (offer = Gone) /\ name = names[f]
     \/ offer = truth[f] /\ name # names[f]
  /\ truth' = [truth EXCEPT ![f] = offer]
  /\ (Offering(truth') \ Offering(truth)) \cap past = {}
  /\ past' = past \cup Offering(truth')
  /\ names' = [names EXCEPT ![f] = name]
  /\ IF truth[f] = Gone /\ offer # Gone /\ f \in subs
       THEN Len(ws) < MaxWire /\ ws' = Append(ws, Frame(f, TRUE, Update(offer), "none"))
       ELSE UNCHANGED ws
  /\ UNCHANGED <<subs, http, feed, delivery, flushing, sink>>

(* A frame in another price display, or with negative odds.                  *)
SendFault(f, fault) ==
  /\ ~Draining
  /\ Spend("faults")
  /\ f \in subs /\ Len(ws) < MaxWire
  /\ ws' = Append(ws, Frame(f, FALSE, <<>>, fault))
  /\ UNCHANGED <<truth, names, past, subs, http, feed, delivery, flushing, sink>>

(* The page loses its socket, connects another and subscribes again.         *)
DropSocket ==
  /\ ~Draining
  /\ Spend("drops")
  /\ ws' = Subscribed(subs)
  /\ UNCHANGED <<truth, names, past, subs, http, feed, delivery, flushing, sink>>

InPlay == {f \in Fixtures : truth[f] # Gone}

(* The page asks for the tournaments again and again.                        *)
AskTournaments ==
  /\ ~Draining
  /\ Cardinality(http) < MaxResponses
  /\ http' = http \cup {[kind |-> "tournaments", current |-> TRUE, inPlay |-> InPlay, called |-> names]}
  /\ http' # http
  /\ UNCHANGED <<bookmaker, feed, delivery, flushing, sink>>

MatchResponse(f, kind) ==
  [kind |-> kind, current |-> TRUE, fixture |-> f, name |-> names[f], update |-> Update(truth[f])]

AskMatch(f) ==
  /\ ~Draining
  /\ Spend("matches")
  /\ truth[f] # Gone
  /\ http' = http \cup {MatchResponse(f, "match")}
  /\ UNCHANGED <<truth, names, past, ws, subs, feed, delivery, flushing, sink>>

-----------------------------------------------------------------------------
(* What arrives.                                                             *)

(* Bound: the response and the frames arrive as they were sent (Overtakes).   *)
InOrder(r) ==
  \/ Overtakes
  \/ /\ truth[r.fixture] # Gone /\ r.update = Update(truth[r.fixture])
     /\ \A i \in DOMAIN ws : ws[i].fixture # r.fixture

(* ingestResponse; the body of a response may not be read, or be of an       *)
(* earlier page.                                                             *)
IngestResponse(r) ==
  /\ ~Draining
  /\ r \in http
  /\ http' = http \ {r}
  /\ r.current
  /\ IF r.kind = "tournaments"
       THEN ApplyMetadataSnapshot(r.inPlay, r.called)
       ELSE ApplyMatch(r) /\ InOrder(r) /\ UNCHANGED <<active, notified, subs, ws, budget, inflight>>
  /\ UNCHANGED <<truth, names, past, listener, retry, running, batch, flushing, format, sink>>

IgnoreResponse(r) ==
  /\ ~Draining
  /\ r \in http
  /\ http' = http \ {r}
  /\ r.kind = "match" \/ ~r.current
  /\ UNCHANGED <<bookmaker, feed, delivery, flushing, sink>>

(* ingestStompFrame: after one frame in another format no price is taken.    *)
IngestStompFrame ==
  LET frame == Head(ws) IN
  /\ ~Draining
  /\ ws # <<>>
  /\ ws' = Tail(ws)
  /\ format' = [display |-> IF frame.fault = "display" THEN "other" ELSE "pd1",
                unhealthy |-> format.unhealthy \/ frame.fault # "none"]
  /\ IF format'.unhealthy
       THEN UNCHANGED <<fixtures, pendingIds, coalesce>>
       ELSE ApplyMarkets(frame.fixture, frame.full, frame.update)
  /\ UNCHANGED <<truth, names, past, budget, subs, http, active, notified, listener,
                 delivery, flushing, sink>>

-----------------------------------------------------------------------------
(* Delivery.                                                                 *)

(* The pause of emitFixture ends: startFixtureDelivery.                      *)
CoalesceTimer(f) ==
  /\ ~Draining
  /\ f \in coalesce
  /\ coalesce' = coalesce \ {f}
  /\ running' = (running \/ listener)
  /\ UNCHANGED <<bookmaker, http, fixtures, active, notified, listener, pendingIds, format,
                 retry, batch, inflight, flushing, sink>>

(* The timer of scheduleDeliveryRetry.                                       *)
RetryTimer(f) ==
  /\ ~Draining
  /\ f \in retry
  /\ retry' = retry \ {f}
  /\ EmitFixtures({f})
  /\ UNCHANGED <<bookmaker, http, fixtures, active, notified, listener, format,
                 running, batch, inflight, flushing, sink>>

(* drainFixtureDeliveries takes the fixtures waiting ...                     *)
TakeBatch ==
  /\ Draining
  /\ batch = {} /\ listener /\ pendingIds # {}
  /\ batch' = pendingIds
  /\ pendingIds' = {}
  /\ UNCHANGED <<bookmaker, http, fixtures, active, notified, listener, coalesce, format,
                 retry, running, inflight, flushing, sink>>

(* buildDeltas on one market: upserts that differ, removals.                 *)
MarketDeltas(previous, next) ==
  [upserts |-> [o \in {x \in DOMAIN next : x \notin DOMAIN previous \/ previous[x] # next[x]}
                  |-> next[o]],
   removes |-> DOMAIN previous \ DOMAIN next]

ApplyMarketDeltas(quotes, d) == Over(d.upserts, Without(quotes, d.removes))

ChangedMarkets(s, next) ==
  {m \in s.pending : MarketDeltas(s.delivered[m], next[m]) # MarketDeltas(NoQuotes, NoQuotes)}

(* Without deltas the listener only refreshes the fixture's batch.           *)
Delivery(f, s, next) ==
  [fixture |-> f, touched |-> s.pending, quotes |-> next, orphan |-> FALSE,
   refresh |-> ChangedMarkets(s, next) = {}]

(* ... calls the listener with what the pending markets of a fixture became  *)
Deliver(f) ==
  LET s == fixtures[f]
      next == AllSelections(s)
  IN /\ fixtures' = [fixtures EXCEPT ![f].pending = {}]
     /\ inflight' = Delivery(f, s, next)
     /\ sink' = [sink EXCEPT ![f] = [m \in Markets |->
          IF m \in s.pending THEN ApplyMarketDeltas(@[m], MarketDeltas(s.delivered[m], next[m]))
          ELSE @[m]]]

Deliverable(f) ==
  listener /\ fixtures[f] # Absent /\ fixtures[f].meta # Null /\ fixtures[f].pending # {}

DeliverNext(f) ==
  /\ Draining
  /\ f \in batch
  /\ batch' = batch \ {f}
  /\ IF Deliverable(f) THEN Deliver(f) ELSE UNCHANGED <<fixtures, inflight, sink>>
  /\ UNCHANGED <<bookmaker, http, active, notified, listener, pendingIds, coalesce, format,
                 retry, running, flushing>>

(* Wrong: the delivered quotes are those of the moment the listener answers. *)
ReplaceDeliveredNow(s) ==
  [s EXCEPT !.delivered = [m \in Markets |->
     IF m \in inflight.touched THEN BuildMarketSelections(s, m) ELSE @[m]]]

(* replaceDeliveredMarkets.                                                  *)
ReplaceDelivered(s) ==
  [s EXCEPT !.delivered = [m \in Markets |->
     IF m \in inflight.touched THEN inflight.quotes[m] ELSE @[m]]]

(* ... and awaits it.  An orphan's state is no longer in the map.            *)
ListenerDone ==
  LET f == inflight.fixture
      s == ReplaceDelivered(fixtures[f])
  IN /\ inflight # Null
     /\ inflight' = Null
     /\ retry' = retry \ {f}
     /\ fixtures' = IF inflight.orphan THEN fixtures
                    ELSE [fixtures EXCEPT ![f] = IF s.retired /\ Undelivered(s) THEN Absent ELSE s]
     /\ UNCHANGED <<bookmaker, http, active, notified, listener, pendingIds, coalesce, format,
                    running, batch, flushing, sink>>

(* The listener fails: the markets are pending again, and a timer runs.      *)
ListenerFailed ==
  LET f == inflight.fixture
  IN /\ inflight # Null
     /\ Spend("failures")
     /\ inflight' = Null
     /\ retry' = retry \cup {f}
     /\ fixtures' = IF inflight.orphan THEN fixtures
                    ELSE [fixtures EXCEPT ![f].pending = @ \cup inflight.touched]
     /\ UNCHANGED <<truth, names, past, ws, subs, http, active, notified, listener, pendingIds,
                    coalesce, format, running, batch, flushing, sink>>

(* The queue is empty; callers of flush that await it go on.                 *)
EndDrain ==
  /\ Draining
  /\ batch = {} /\ (~listener \/ pendingIds = {})
  /\ running' = FALSE
  /\ flushing' = [w \in DOMAIN flushing |-> IF flushing[w] = "queue" THEN "done" ELSE flushing[w]]
  /\ UNCHANGED <<bookmaker, http, feed, retry, batch, inflight, sink>>

(* flush: first the pauses, then the delivery that runs.                     *)
FlushTimers(w) ==
  /\ ~Draining
  /\ flushing[w] = "timers" /\ coalesce = {}
  /\ flushing' = [flushing EXCEPT ![w] = IF running THEN "queue" ELSE "done"]
  /\ UNCHANGED <<bookmaker, http, feed, delivery, sink>>

-----------------------------------------------------------------------------
(* attach, activate, deactivate: called by the runtime.                      *)

(* Both increment metadataGeneration, which the responses under way carry.   *)
Outdated(responses) == {[r EXCEPT !.current = FALSE] : r \in responses}

(* attach, and the page's new socket.                                        *)
Attach ==
  /\ http' = Outdated(http)
  /\ fixtures' = [f \in Fixtures |-> Absent]
  /\ active' = Null /\ notified' = Null
  /\ pendingIds' = {} /\ coalesce' = {} /\ retry' = {}
  /\ format' = NewFormat
  /\ ws' = <<>> /\ subs' = {}

(* The function attach returns; the page is gone with its socket.            *)
Detach ==
  /\ http' = Outdated(http)
  /\ active' = Null
  /\ ws' = <<>> /\ subs' = {}

(* seedMetadata gives every fixture of the bootstrap a state and the name it *)
(* had; what was seen since is pending.                                      *)
Seeded(f, boot) ==
  LET s == IF boot[f].quotes = NoMarkets THEN State(f)
           ELSE [State(f) EXCEPT !.meta = boot[f].name]
  IN [s EXCEPT !.delivered = boot[f].quotes, !.pending = @ \cup s.seen]

Activate(boot) ==
  LET known == {f \in Fixtures : fixtures[f] # Absent \/ boot[f].quotes # NoMarkets}
  IN /\ listener' = TRUE
     /\ fixtures' = [f \in Fixtures |-> IF f \in known THEN Seeded(f, boot) ELSE Absent]
     /\ pendingIds' = pendingIds \cup known
     /\ coalesce' = coalesce \cup known
     /\ NotifyActiveFixtures(active, TRUE)

Deactivate ==
  /\ listener' = FALSE
  /\ notified' = Null
  /\ pendingIds' = {} /\ coalesce' = {} /\ retry' = {}
  /\ fixtures' = [f \in Fixtures |->
       IF fixtures[f] = Absent THEN Absent ELSE [fixtures[f] EXCEPT !.pending = {}]]
=============================================================================
