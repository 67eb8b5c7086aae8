------------------------------ MODULE StreamSink ------------------------------
(***************************************************************************)
(* BackendCollectorStreamSink: what a collector tells the backend.  Calls    *)
(* are put in a serial queue of promises; each operation first needs a      *)
(* socket whose hello was acknowledged, may replay the whole market, and    *)
(* then writes its frames.  Only the wait for the acknowledgement lets      *)
(* socket events in, so an operation's frames leave in one step.            *)
(*                                                                          *)
(* truth is a history: what the bookmaker offered at each moment a caller   *)
(* looked.  Its length is the clock of the model.                           *)
(***************************************************************************)
EXTENDS OddsStream

CONSTANTS MaxTime,    \* moments the callers look at the bookmaker
          MaxQueue,   \* operations queued at a time
          MaxWire     \* frames under way when an operation may still start

SinkBounds == MaxTime \in Nat \ {0} /\ MaxQueue \in Nat /\ MaxWire \in Nat

VARIABLES
  truth,    \* history of the offer, a sequence of [Fixtures -> Prices]
  latest,   \* latestSelections
  known,    \* the fixtures of latestFixtureMetadata
  boot,     \* collectedAt of latestBootstrap, 0 before the first one
  held,     \* latestFixtureBatches: the batch number, 0 for none
  batches,  \* batchCounter; orders frames the way seq does within a session
  queue,    \* the operations not finished, the head one is being worked on
  ready,    \* readyPromise is pending, and the head operation awaits it
  cur,      \* this.socket, 0 for null
  session,  \* this.sessionId: number of the connection started last
  pendingResync

cache == <<latest, known, boot>>
link == <<ready, cur, session>>
sinkVars == <<truth, cache, held, batches, queue, link, pendingResync>>
vars == <<sinkVars, wires, backend, faults>>

Now == Len(truth)
Offer == [Fixtures -> Prices]

Init ==
  /\ StreamInit
  /\ truth = <<[f \in Fixtures |-> 0]>>
  /\ latest = [f \in Fixtures |-> 0]
  /\ known = {}
  /\ boot = 0
  /\ held = [f \in Fixtures |-> 0]
  /\ batches = 0
  /\ queue = <<>>
  /\ ready = FALSE
  /\ cur = 0
  /\ session = 0
  /\ pendingResync = TRUE

-----------------------------------------------------------------------------
(* The calls.                                                               *)

Look(offer) ==
  /\ Now < MaxTime
  /\ truth' = Append(truth, offer)

Enqueue(op) ==
  /\ Len(queue) < MaxQueue
  /\ queue' = Append(queue, op)

Selections(offer) == {f \in Fixtures : offer[f] # 0}

(* replaceLatestSnapshot.                                                   *)
ReplaceLatest(offer) ==
  /\ latest' = offer
  /\ known' = Selections(offer)
  /\ boot' = Now + 1

(* pushBootstrap, called once a page was opened and read: in a task of its  *)
(* own, when what was queued before is sent or awaits the acknowledgement.  *)
PushBootstrap(offer) ==
  /\ queue = <<>> \/ ready
  /\ Look(offer)
  /\ ReplaceLatest(offer)
  /\ Enqueue([kind |-> "bootstrap", vals |-> offer, at |-> Now + 1])
  /\ UNCHANGED <<held, batches, link, pendingResync, wires, backend, faults>>

(* applyLatestDeltas, which does nothing before the first bootstrap; the    *)
(* time of the bootstrap moves to that of the latest delta.                 *)
ApplyLatest(f, price) ==
  IF boot = 0 THEN UNCHANGED cache
  ELSE /\ latest' = [latest EXCEPT ![f] = price]
       /\ known' = known \cup {f}
       /\ boot' = Now + 1

(* pushDelta.  Price 0 is the delta that removes the quote.                 *)
PushDelta(f, price) ==
  LET offer == [truth[Now] EXCEPT ![f] = price] IN
  /\ price # truth[Now][f]
  /\ Look(offer)
  /\ ApplyLatest(f, price)
  /\ Enqueue([kind |-> "delta", fixture |-> f, val |-> price, at |-> Now + 1])
  /\ UNCHANGED <<held, batches, link, pendingResync, wires, backend, faults>>

(* observeFixtureMarketBatches, for the fixtures the caller still sees,     *)
(* captures the batches it vouches for.                                     *)
Observe ==
  LET seen == [f \in Fixtures |-> IF truth[Now][f] = 0 THEN 0 ELSE held[f]] IN
  /\ Look(truth[Now])
  /\ IF \A f \in Fixtures : seen[f] = 0 THEN UNCHANGED queue
     ELSE Enqueue([kind |-> "observe", items |-> seen, at |-> Now + 1])
  /\ UNCHANGED <<cache, held, batches, link, pendingResync, wires, backend, faults>>

(* heartbeat and pushAccountBalance replay if needed; the responses of the  *)
(* confirmation, simulation and live handlers do not.                       *)
Send(kind) ==
  /\ Enqueue([kind |-> kind])
  /\ UNCHANGED <<truth, cache, held, batches, link, pendingResync, wires, backend, faults>>

-----------------------------------------------------------------------------
(* The frames of an operation.                                              *)

(* sendBootstrapSnapshot: a batch is only sent when there are selections.   *)
SnapshotFrames(vals, at) ==
  LET some == Selections(vals) IN
  <<[t |-> "snapshot_begin"]>>
  \o (IF some = {} THEN <<>>
      ELSE <<[t |-> "quote_upsert_batch", snapshot |-> TRUE, at |-> at,
              vals |-> [f \in some |-> vals[f]]]>>)
  \o <<[t |-> "snapshot_commit", at |-> at]>>

(* sendFixtureMarketSnapshot: a new batch of the fixture.                   *)
FixtureFrame(f, at, batch) ==
  [t |-> "fixture_market_snapshot", fixture |-> f, val |-> latest[f], at |-> at,
   batch |-> batch]

(* sendFixtureMarketSnapshots: from the latest selections, numbered on from *)
(* the batches sent so far; a fixture without metadata is skipped.          *)
FixtureFrames(fs, at, sent) ==
  LET order == SetToSeq(fs \cap known) IN
  [i \in DOMAIN order |-> FixtureFrame(order[i], at, sent + i)]

(* replayLatestBootstrapIfNeeded.                                           *)
ReplayNeeded(op) ==
  pendingResync /\ boot # 0 /\ op.kind \notin {"bootstrap", "response"}

ReplayFrames == SnapshotFrames(latest, boot) \o FixtureFrames(known, boot, batches)

(* Wrong: a delta is dated when it is sent, not when it was read.           *)
DeltaFramesDatedNow(op, sent) ==
  <<IF op.val = 0
      THEN [t |-> "quote_remove", fixture |-> op.fixture, at |-> Now]
      ELSE [t |-> "quote_upsert_batch", snapshot |-> FALSE, at |-> Now,
            vals |-> [f \in {op.fixture} |-> op.val]]>>
  \o FixtureFrames({op.fixture}, Now, sent)

DeltaFrames(op, sent) ==
  <<IF op.val = 0
      THEN [t |-> "quote_remove", fixture |-> op.fixture, at |-> op.at]
      ELSE [t |-> "quote_upsert_batch", snapshot |-> FALSE, at |-> op.at,
            vals |-> [f \in {op.fixture} |-> op.val]]>>
  \o FixtureFrames({op.fixture}, op.at, sent)

(* What is left of an observation once the replay has renewed its batches.  *)
StillHeld(op, now) ==
  [f \in Fixtures |-> IF op.items[f] = now[f] THEN op.items[f] ELSE 0]

ObserveFrames(op, now) ==
  IF \A f \in Fixtures : StillHeld(op, now)[f] = 0 THEN <<>>
  ELSE <<[t |-> "fixture_observed_batch", items |-> StillHeld(op, now), at |-> op.at]>>

(* latestFixtureBatches after the fixtures fs were sent.                    *)
HeldAfter(old, fs, sent) ==
  LET order == SetToSeq(fs \cap known) IN
  [f \in Fixtures |->
     IF f \in fs \cap known THEN sent + (CHOOSE i \in DOMAIN order : order[i] = f) ELSE old[f]]

(* The fixtures an operation sends a new batch of.                          *)
Renewed(op) ==
  CASE op.kind = "bootstrap" -> Selections(op.vals)
    [] op.kind = "delta" -> {op.fixture}
    [] OTHER -> {}

OwnFrames(op, now, sent) ==
  CASE op.kind = "bootstrap" ->
         SnapshotFrames(op.vals, op.at) \o FixtureFrames(Renewed(op), op.at, sent)
    [] op.kind = "delta" -> DeltaFrames(op, sent)
    [] op.kind = "observe" -> ObserveFrames(op, now)
    [] OTHER -> <<[t |-> op.kind]>>

(* The operation's body, on the open socket cur.                            *)
Perform(op) ==
  LET replayed == IF ReplayNeeded(op) THEN known ELSE {}
      replay == IF ReplayNeeded(op) THEN ReplayFrames ELSE <<>>
      now == HeldAfter(held, replayed, batches)
      sent == batches + Cardinality(replayed) IN
  /\ up' = [up EXCEPT ![cur] = @ \o replay \o OwnFrames(op, now, sent)]
  /\ held' = HeldAfter(now, Renewed(op), sent)
  /\ batches' = sent + Cardinality(Renewed(op) \cap known)
  /\ pendingResync' = (pendingResync /\ ~ReplayNeeded(op) /\ op.kind # "bootstrap")
  /\ queue' = Tail(queue)

Connected == IF cur = 0 THEN FALSE ELSE sock[cur] = "open"

(* ensureConnected finds an acknowledged socket, or one that is merely open *)
(* with no promise pending.                                                 *)
RunOperation ==
  /\ queue # <<>> /\ ~ready
  /\ Connected
  /\ Len(up[cur]) <= MaxWire
  /\ Perform(Head(queue))
  /\ UNCHANGED <<truth, cache, link, sock, down, backend, faults>>

(* startConnection: a new session, everything to be replayed.               *)
StartConnection ==
  /\ queue # <<>> /\ ~ready
  /\ ~Connected
  /\ session < MaxConnections
  /\ session' = session + 1
  /\ cur' = session + 1
  /\ sock' = [sock EXCEPT ![session + 1] = "connecting"]
  /\ ready' = TRUE
  /\ pendingResync' = TRUE
  /\ UNCHANGED <<truth, cache, held, batches, queue, up, down, backend, faults>>

(* The bound on connections: the operation fails as on a refused one.       *)
NoMoreConnections ==
  /\ queue # <<>> /\ ~ready
  /\ ~Connected
  /\ session = MaxConnections
  /\ queue' = Tail(queue)
  /\ UNCHANGED <<truth, cache, held, batches, link, pendingResync, wires, backend, faults>>

-----------------------------------------------------------------------------
(* The events of the sockets.                                               *)

(* Wrong: nobody tells the waiting operation.                               *)
RejectNobody == UNCHANGED <<ready, queue>>

(* readyReject: the shared slot rejects whatever connection is awaited, and *)
(* the operation that waits for it fails.                                   *)
Reject ==
  /\ ready' = FALSE
  /\ queue' = IF ready THEN Tail(queue) ELSE queue

(* "open": hello goes out on this.socket, which need not be the socket that *)
(* opened; on one that is still connecting, send throws.                    *)
SocketOpen(g) ==
  LET target == IF cur = 0 THEN "none" ELSE IF cur = g THEN "open" ELSE sock[cur] IN
  /\ sock[g] = "connecting"
  /\ sock' = [sock EXCEPT ![g] = "open"]
  /\ peer' = [peer EXCEPT ![g] = "open"]
  /\ IF target = "open"
       THEN up' = [up EXCEPT ![cur] = Append(@, [t |-> "hello"])] /\ UNCHANGED <<ready, queue>>
       ELSE /\ UNCHANGED up
            /\ IF target \in {"none", "connecting"} THEN Reject ELSE UNCHANGED <<ready, queue>>
  /\ UNCHANGED <<truth, cache, held, batches, cur, session, pendingResync, down,
                 greeted, checked, active, members, stores, faults>>

(* handleIncomingFrame, hello_ack of this.sessionId: readyResolve, and the  *)
(* waiting operation runs before any other event.                           *)
Acknowledged(g) ==
  /\ sock[g] = "open" /\ down[g] # <<>> /\ Head(down[g]) = "hello_ack"
  /\ down' = [down EXCEPT ![g] = Tail(@)]
  /\ ready' = (ready /\ g # session)
  /\ IF ready /\ g = session THEN Perform(Head(queue))
     ELSE UNCHANGED <<up, held, batches, pendingResync, queue>>
  /\ UNCHANGED <<truth, cache, cur, session, sock, backend, faults>>

(* Wrong: an error does not cause a replay.                                 *)
ErrorFrameIgnored(g) ==
  /\ sock[g] = "open" /\ down[g] # <<>> /\ Head(down[g]) # "hello_ack"
  /\ down' = [down EXCEPT ![g] = Tail(@)]
  /\ sock' = IF Head(down[g]) = "stale_session" /\ cur # 0
               THEN [sock EXCEPT ![cur] = "closing"] ELSE sock
  /\ UNCHANGED <<truth, cache, held, batches, queue, link, pendingResync, up, backend, faults>>

(* handleIncomingFrame, error: everything is replayed; stale_session also   *)
(* closes this.socket.                                                      *)
ErrorFrame(g) ==
  /\ sock[g] = "open" /\ down[g] # <<>> /\ Head(down[g]) # "hello_ack"
  /\ down' = [down EXCEPT ![g] = Tail(@)]
  /\ pendingResync' = TRUE
  /\ sock' = IF Head(down[g]) = "stale_session" /\ cur # 0
               THEN [sock EXCEPT ![cur] = "closing"] ELSE sock
  /\ UNCHANGED <<truth, cache, held, batches, queue, link, up, backend, faults>>

(* "error" and "close" of a socket, the current one or an earlier one.      *)
SocketClose(g) ==
  /\ sock' = [sock EXCEPT ![g] = "closed"]
  /\ down' = [down EXCEPT ![g] = <<>>]
  /\ pendingResync' = TRUE
  /\ cur' = IF cur = g THEN 0 ELSE cur
  /\ Reject
  /\ UNCHANGED <<truth, cache, held, batches, session, up, backend>>

Closed(g) ==
  /\ \/ sock[g] = "closing"
     \/ sock[g] = "open" /\ peer[g] = "ended" /\ down[g] = <<>>
  /\ SocketClose(g)
  /\ UNCHANGED faults

(* The network gives up a connection, frames under way included.            *)
Dropped(g) ==
  /\ sock[g] \in {"connecting", "open"}
  /\ faults < MaxFaults
  /\ faults' = faults + 1
  /\ SocketClose(g)

-----------------------------------------------------------------------------
Call ==
  \/ \E offer \in Offer : PushBootstrap(offer)
  \/ \E f \in Fixtures, price \in Prices : PushDelta(f, price)
  \/ Observe
  \/ \E kind \in {"heartbeat", "response"} : Send(kind)

Work == RunOperation \/ StartConnection \/ NoMoreConnections

Event(g) == SocketOpen(g) \/ Acknowledged(g) \/ ErrorFrame(g) \/ Closed(g)

Serve(g) == (Hello(g) \/ CheckSession(g) \/ Apply(g)) /\ UNCHANGED sinkVars
Served(g) == Backend(g) /\ UNCHANGED sinkVars
Superseded == Usurp /\ UNCHANGED sinkVars

Next ==
  \/ Call \/ Work \/ Superseded
  \/ \E g \in Connections : Event(g) \/ Dropped(g) \/ Served(g)

Spec == Init /\ [][Next]_vars

-----------------------------------------------------------------------------
Operations ==
  [kind : {"bootstrap"}, vals : Offer, at : 1..MaxTime]
  \cup [kind : {"delta"}, fixture : Fixtures, val : Prices, at : 1..MaxTime]
  \cup [kind : {"observe"}, items : [Fixtures -> Nat], at : 1..MaxTime]
  \cup [kind : {"heartbeat", "response"}]

TypeOK ==
  /\ sock \in [Connections -> {"none", "connecting", "open", "closing", "closed"}]
  /\ peer \in [Connections -> {"none", "open", "ended"}]
  /\ greeted \in Seq(Connections) /\ checked \subseteq Connections
  /\ active \in 0..Rival
  /\ members \in [Connections -> SUBSET Fixtures]
  /\ legacy \in [Fixtures -> [val : Prices, at : 0..MaxTime]]
  /\ coherent \in [Fixtures -> [val : Prices, at : 0..MaxTime,
                                session : 0..MaxConnections, batch : 0..batches]]
  /\ truth \in Seq(Offer) /\ Now \in 1..MaxTime
  /\ latest \in Offer /\ known \subseteq Fixtures /\ boot \in 0..MaxTime
  /\ held \in [Fixtures -> 0..batches] /\ batches \in Nat
  /\ \A i \in DOMAIN queue : queue[i] \in Operations
  /\ ready \in BOOLEAN /\ pendingResync \in BOOLEAN
  /\ cur \in 0..session /\ session \in 0..MaxConnections
  /\ ready => queue # <<>>

(* Whoever takes over a fixture in the coherent store is the session that   *)
(* said hello last: frames of a session registered before never replace     *)
(* what a later one has written. (requireActiveSession, fixtureBatchVersion)*)
TakeoverByNewest ==
  \A f \in DOMAIN coherent :
    coherent'[f].session # coherent[f].session => coherent'[f].session = Last(greeted)

SessionsAdvance == [][~Overlap => TakeoverByNewest]_vars

(* A price in either store never carries an observation time later than the *)
(* last moment the bookmaker offered that price: not after a replay, a      *)
(* refused batch, a reconnect or an observation of an earlier batch.        *)
(* (observeFixtureMarketBatches, ObserveFixtureBatches, prepareQuoteWrite)  *)
OfferedSince(f, val, at) == \E t \in at..Now : truth[t][f] = val

NoFalseFreshness ==
  \A f \in DOMAIN legacy :
    /\ legacy[f].val # 0 => OfferedSince(f, legacy[f].val, legacy[f].at)
    /\ coherent[f].val # 0 => OfferedSince(f, coherent[f].val, coherent[f].at)

(* Once nothing is queued, under way or to be replayed, both stores show    *)
(* what the collector last reported, whatever was lost before.  A fixture a *)
(* new bootstrap no longer names is forgotten by the collector and kept by  *)
(* the coherent store. (pendingResync, replayLatestBootstrapIfNeeded)       *)
Settled ==
  /\ queue = <<>> /\ ~pendingResync
  /\ Connected /\ active = cur
  /\ \A g \in DOMAIN up : up[g] = <<>> /\ down[g] = <<>>

StoresAgree ==
  Settled => \A f \in DOMAIN legacy :
    /\ legacy[f].val = latest[f]
    /\ f \in known => coherent[f].val = latest[f]

(* The first frame of a connection is its hello and no frame is sent on a   *)
(* connection before: the backend never has to answer invalid_session.      *)
(* (ensureConnected, startConnection)                                       *)
HelloFirst ==
  \A g \in Connections :
    /\ g \notin Greeted /\ up[g] # <<>> => Head(up[g]).t = "hello"
    /\ \A i \in DOMAIN down[g] : down[g][i] # "invalid_session"
=============================================================================
