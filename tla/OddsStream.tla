------------------------------ MODULE OddsStream ------------------------------
(***************************************************************************)
(* The backend's end of the collector stream of one source: StreamService   *)
(* reads the frames of a connection one after another, the session registry *)
(* knows one active session, and OddsStateRepository keeps two pictures of  *)
(* the market: per quote, ordered by observation time (v1), and per fixture,*)
(* ordered by session and batch (coherent, v3).                             *)
(*                                                                          *)
(* A fixture stands for its one market; its value is a price, 0 for none.   *)
(* Connection g is the g-th the collector opens and carries session g.      *)
(* Every connection is one goroutine: between the check of the session and  *)
(* the write to the store another connection may run when Overlap holds.    *)
(***************************************************************************)
EXTENDS Integers, Sequences, SequencesExt, FiniteSets

CONSTANTS Fixtures,         \* fixtures of the source
          MaxPrice,         \* prices are 1..MaxPrice
          MaxConnections,   \* connections the collector may open
          MaxFaults,        \* faults of the network, the store, a rival
          Overlap,          \* a hello may come between check and write
          RefuseHello       \* the backend may refuse a hello (credentials)

StreamBounds ==
  /\ IsFiniteSet(Fixtures)
  /\ MaxPrice \in Nat \ {0}
  /\ MaxConnections \in Nat \ {0}
  /\ MaxFaults \in Nat
  /\ Overlap \in BOOLEAN
  /\ RefuseHello \in BOOLEAN

Connections == 1..MaxConnections
Rival == MaxConnections + 1    \* another process with the same source
Prices == 0..MaxPrice

VARIABLES
  sock,      \* the collector's view of each connection
  up, down,  \* frames on their way, per connection
  peer,      \* the backend's view: "none", "open" or "ended"
  greeted,   \* connections whose hello was accepted, in that order
  checked,   \* connections whose head frame passed requireActiveSession
  active,    \* the registered session, 0 for none
  members,   \* per connection: the fixtures named in the open snapshot
  legacy,    \* v1 store: [val, at], at = 0 for a quote never seen
  coherent,  \* v3 store: [val, at, session, batch]
  faults

wires == <<sock, up, down>>
stores == <<legacy, coherent>>
backend == <<peer, greeted, checked, active, members, legacy, coherent>>

StreamInit ==
  /\ sock = [g \in Connections |-> "none"]
  /\ up = [g \in Connections |-> <<>>]
  /\ down = [g \in Connections |-> <<>>]
  /\ peer = [g \in Connections |-> "none"]
  /\ greeted = <<>>
  /\ checked = {}
  /\ active = 0
  /\ members = [g \in Connections |-> {}]
  /\ legacy = [f \in Fixtures |-> [val |-> 0, at |-> 0]]
  /\ coherent = [f \in Fixtures |-> [val |-> 0, at |-> 0, session |-> 0, batch |-> 0]]
  /\ faults = 0

(* prepareQuoteWrite: an older observation is ignored, an equal one that    *)
(* changes nothing too.                                                     *)
Prepared(old, val, at) ==
  IF old.at = 0 \/ at > old.at \/ (at = old.at /\ val # old.val)
    THEN [val |-> val, at |-> at] ELSE old

(* ApplyQuoteRemove: a quote that was never seen stays unseen.              *)
Suspended(old, at) == IF old.at = 0 THEN old ELSE Prepared(old, 0, at)

(* CommitSnapshot suspends what the snapshot did not name, unless it was    *)
(* observed after the snapshot was taken.                                   *)
Swept(old, at) == IF old.at > at THEN old ELSE Suspended(old, at)

(* ApplyFixtureMarketSnapshot replaces the fixture, except by an earlier    *)
(* batch of the session that wrote it last.                                 *)
Replaced(old, g, frame) ==
  IF old.session = g /\ frame.batch <= old.batch THEN old
  ELSE [val |-> frame.val, at |-> frame.at, session |-> g, batch |-> frame.batch]

(* ObserveFixtureBatches refreshes the batch it names and no other.         *)
Refreshed(old, g, batch, at) ==
  IF old.session = g /\ old.batch = batch /\ old.val # 0 /\ at > old.at
    THEN [old EXCEPT !.at = at] ELSE old

-----------------------------------------------------------------------------
Reply(g, frames) == down' = [down EXCEPT ![g] = @ \o frames]

(* The read loop returns: Unregister removes the session if it is still     *)
(* the active one, and the connection is closed.                            *)
Hangup(g) ==
  /\ peer' = [peer EXCEPT ![g] = "ended"]
  /\ checked' = checked \ {g}
  /\ active' = IF active = g THEN 0 ELSE active

Greeted == ToSet(greeted)

(* handleHello.                                                             *)
Hello(g) ==
  /\ peer[g] = "open" /\ g \notin checked /\ up[g] # <<>> /\ Head(up[g]).t = "hello"
  /\ Overlap \/ checked = {}
  /\ up' = [up EXCEPT ![g] = Tail(@)]
  /\ IF g \in Greeted
       THEN Reply(g, <<"duplicate_hello">>) /\ UNCHANGED <<greeted, active>>
       ELSE /\ Reply(g, <<"hello_ack">>)
            /\ greeted' = Append(greeted, g)
            /\ active' = g
  /\ UNCHANGED <<sock, peer, checked, members, stores, faults>>

(* unauthorized_source, live_auth_required, invalid_hello: an error frame,  *)
(* and the connection stays open without a session.                         *)
HelloRefused(g) ==
  /\ RefuseHello
  /\ peer[g] = "open" /\ g \notin checked \cup Greeted
  /\ up[g] # <<>> /\ Head(up[g]).t = "hello"
  /\ up' = [up EXCEPT ![g] = Tail(@)]
  /\ Reply(g, <<"unauthorized_source">>)
  /\ UNCHANGED <<sock, peer, greeted, checked, active, members, stores, faults>>

(* Wrong: any session that said hello may write.                            *)
CheckGreeting(g) ==
  /\ peer[g] = "open" /\ g \notin checked /\ up[g] # <<>> /\ Head(up[g]).t # "hello"
  /\ IF g \in Greeted
       THEN checked' = checked \cup {g} /\ UNCHANGED <<up, down, peer, active>>
       ELSE /\ Reply(g, <<"invalid_session", "internal_error">>)
            /\ up' = [up EXCEPT ![g] = Tail(@)]
            /\ Hangup(g)
  /\ UNCHANGED <<sock, greeted, members, stores, faults>>

(* requireActiveSession, for every frame but hello.                         *)
CheckSession(g) ==
  /\ peer[g] = "open" /\ g \notin checked /\ up[g] # <<>> /\ Head(up[g]).t # "hello"
  /\ IF g \in Greeted /\ active = g
       THEN /\ checked' = checked \cup {g}
            /\ UNCHANGED <<up, down, peer, active>>
       ELSE /\ Reply(g, <<IF g \in Greeted THEN "stale_session" ELSE "invalid_session",
                          "internal_error">>)
            /\ up' = [up EXCEPT ![g] = Tail(@)]
            /\ Hangup(g)
  /\ UNCHANGED <<sock, greeted, members, stores, faults>>

(* handleMessage for a frame whose session was active when it was checked.  *)
Apply(g) ==
  LET frame == Head(up[g]) IN
  /\ g \in checked
  /\ checked' = checked \ {g}
  /\ up' = [up EXCEPT ![g] = Tail(@)]
  /\ members' = [members EXCEPT ![g] =
       CASE frame.t = "snapshot_begin" -> {}
         [] frame.t = "quote_upsert_batch" /\ frame.snapshot -> @ \cup DOMAIN frame.vals
         [] OTHER -> @]
  /\ legacy' = [f \in Fixtures |->
       CASE frame.t = "quote_upsert_batch" /\ f \in DOMAIN frame.vals ->
              Prepared(legacy[f], frame.vals[f], frame.at)
         [] frame.t = "quote_remove" /\ f = frame.fixture -> Suspended(legacy[f], frame.at)
         [] frame.t = "snapshot_commit" /\ f \notin members[g] -> Swept(legacy[f], frame.at)
         [] OTHER -> legacy[f]]
  /\ coherent' = [f \in Fixtures |->
       CASE frame.t = "fixture_market_snapshot" /\ f = frame.fixture ->
              Replaced(coherent[f], g, frame)
         [] frame.t = "fixture_observed_batch" /\ frame.items[f] # 0 ->
              Refreshed(coherent[f], g, frame.items[f], frame.at)
         [] OTHER -> coherent[f]]
  /\ UNCHANGED <<sock, down, peer, greeted, active, faults>>

(* The store refuses: a fixture snapshot or an observation is answered with *)
(* an error, any other frame ends the connection.                           *)
ApplyFails(g) ==
  /\ g \in checked /\ faults < MaxFaults
  /\ Head(up[g]).t \notin {"heartbeat", "response"}
  /\ faults' = faults + 1
  /\ up' = [up EXCEPT ![g] = Tail(@)]
  /\ IF Head(up[g]).t \in {"fixture_market_snapshot", "fixture_observed_batch"}
       THEN /\ Reply(g, <<"rejected">>)
            /\ checked' = checked \ {g}
            /\ UNCHANGED <<peer, active>>
       ELSE Reply(g, <<"internal_error">>) /\ Hangup(g)
  /\ UNCHANGED <<sock, greeted, members, stores>>

(* ReadMessage fails once the collector's side is gone; frames that were    *)
(* still under way are lost.                                                *)
PeerGone(g) ==
  /\ peer[g] = "open" /\ sock[g] \in {"closing", "closed"} /\ g \notin checked
  /\ Hangup(g)
  /\ up' = [up EXCEPT ![g] = <<>>]
  /\ UNCHANGED <<sock, down, greeted, members, stores, faults>>

(* Another process says hello for the same source.                          *)
Usurp ==
  /\ active # Rival /\ faults < MaxFaults
  /\ faults' = faults + 1
  /\ active' = Rival
  /\ UNCHANGED <<wires, peer, greeted, checked, members, stores>>

Backend(g) == Hello(g) \/ HelloRefused(g) \/ CheckSession(g) \/ Apply(g)
              \/ ApplyFails(g) \/ PeerGone(g)
=============================================================================
