---------------------------- MODULE EightXBetBridge ----------------------------
(* How the 8xbet collector subscribes to the fixtures in play.  A bridge,    *)
(* injected into the bookmaker's page, watches the page's own sockets and    *)
(* sends SUBSCRIBE and UNSUBSCRIBE frames through them, in batches.  The     *)
(* runtime tells it the fixtures by calls evaluated in the page, which take  *)
(* their time and may overlap, and remembers what it told by a signature.    *)
EXTENDS Naturals, Sequences, FiniteSets

CONSTANTS
  Fixtures, Sockets,
  Null,
  BatchSize,      \* SUBSCRIBE frames sent at once
  MaxChanges,     \* bound: changes of the fixtures in play
  MaxCloses,      \* bound: sockets the bookmaker closes
  MaxRefused,     \* bound: frames a socket refuses
  MaxLost,        \* bound: subscriptions the bookmaker does not answer
  MaxMissed,      \* bound: calls that fail in the page
  MaxReloads,     \* bound: reloads of the page by the site
  MaxRestarts,    \* bound: failures and recycles of the page
  Swaps,          \* the fixtures may be the subscribed ones again while a call is under way
  Straggles       \* a call under way may fail after its page was given up

ASSUME EightXBetBridgeAssumption ==
  /\ BatchSize \in Nat \ {0}
  /\ {MaxChanges, MaxCloses, MaxRefused, MaxLost, MaxMissed, MaxReloads, MaxRestarts} \subseteq Nat
  /\ Swaps \in BOOLEAN /\ Straggles \in BOOLEAN
  /\ \A ids \in SUBSET Fixtures : ids # Null

VARIABLES
  stage,       \* where the runtime is
  attempt,     \* of refreshNetworkSubscriptions
  inPlay,      \* activeMetadataFixtureIds of the feed, Null before any
  decoded,     \* the fixtures in play whose markets the feed has seen
  signature,   \* fixtureSubscriptionSignature
  calls,       \* the calls under way, oldest first
  desired,     \* desiredFixtureIDs of the bridge
  socket,      \* what the bridge keeps of each socket of the page
  server,      \* what each socket is subscribed to (external)
  owed,        \* the subscriptions still to be answered (external)
  budget,      \* the changes and faults left
  smooth       \* (history) whether this page was told of every change in turn:
               \* no call failed or survived an earlier page, the site did not
               \* reload the page, and no change was taken back under way

page == <<desired, socket, server, owed>>
vars == <<stage, attempt, inPlay, decoded, signature, calls, page, budget, smooth>>

Spend(kind) == budget[kind] > 0 /\ budget' = [budget EXCEPT ![kind] = @ - 1]

(* A socket that is not, or no longer, in the page.                          *)
NoSocket == [state |-> "none", active |-> {}, pending |-> {}, timer |-> FALSE]

EmptyPage ==
  /\ desired = {}
  /\ socket = [s \in Sockets |-> NoSocket]
  /\ server = [s \in Sockets |-> {}]
  /\ owed = [s \in Sockets |-> {}]

Init ==
  /\ stage = "refresh" /\ attempt = 1 /\ inPlay = Null /\ decoded = {}
  /\ signature = {} /\ calls = <<>>
  /\ EmptyPage
  /\ budget = [changes |-> MaxChanges, closes |-> MaxCloses, refused |-> MaxRefused,
               lost |-> MaxLost, missed |-> MaxMissed, reloads |-> MaxReloads,
               restarts |-> MaxRestarts]
  /\ smooth = TRUE

(* The page is opened anew: other sockets, another bridge.                   *)
NewPage ==
  /\ desired' = {}
  /\ socket' = [s \in Sockets |-> NoSocket]
  /\ server' = [s \in Sockets |-> {}]
  /\ owed' = [s \in Sockets |-> {}]

-----------------------------------------------------------------------------
(* The bridge.                                                               *)

(* Connected, and its readyState is OPEN.                                    *)
Usable(s) == socket[s].state = "connected"

(* syncSubscriptions of an open socket: what is no longer desired is         *)
(* unsubscribed, what is missing waits for a timer.                          *)
Synced(k, ids) ==
  LET pending == (k.pending \cup (ids \ k.active)) \cap ids
  IN [k EXCEPT !.active = @ \cap ids, !.pending = pending,
               !.timer = @ \/ pending # {}]

(* Wrong: a fixture subscribed already is not unsubscribed first.            *)
RetriedOver(k, ids) ==
  LET again == ids \cap desired
  IN [k EXCEPT !.pending = @ \cup again, !.timer = @ \/ k.pending \cup again # {}]

(* retrySubscriptions of an open socket.                                     *)
Retried(k, ids) ==
  LET again == ids \cap desired
  IN [k EXCEPT !.active = @ \ again, !.pending = @ \cup again,
               !.timer = @ \/ k.pending \cup again # {}]

(* Wrong: what is no longer desired is only forgotten.                       *)
NeverUnsubscribed(wire) == wire

(* UNSUBSCRIBE frames of what the bridge gave up.                            *)
Unsubscribed(wire) ==
  [s \in Sockets |-> wire[s] \ (socket[s].active \ socket'[s].active)]

(* The page function of a call: set or retry.                                *)
Evaluate(call) ==
  /\ desired' = IF call.kind = "set" THEN call.ids ELSE desired
  /\ socket' = [s \in Sockets |->
       IF ~Usable(s) THEN socket[s]
       ELSE IF call.kind = "set" THEN Synced(socket[s], call.ids)
       ELSE Retried(socket[s], call.ids)]
  /\ server' = Unsubscribed(server)
  /\ owed' = Unsubscribed(owed)

(* Wrong: a frame that was refused is not sent again.                        *)
DrainedOnce(k, waiting, sent, batch) ==
  [k EXCEPT !.active = @ \cup sent, !.pending = waiting \ batch,
            !.timer = waiting \ batch # {}]

(* The queue after the frames of sent; the rest of the batch was refused.    *)
Drained(k, waiting, sent, batch) ==
  [k EXCEPT !.active = @ \cup sent, !.pending = waiting \ sent,
            !.timer = waiting \ sent # {}]

(* drainSubscriptionQueue: a batch of SUBSCRIBE frames, in some order, until *)
(* one is refused.  The bookmaker may leave one unanswered (bound: lost).    *)
Drain(s) ==
  LET k == socket[s]
      waiting == (k.pending \cap desired) \ k.active
      full == IF Cardinality(waiting) < BatchSize THEN Cardinality(waiting) ELSE BatchSize
  IN
  /\ k.timer
  /\ Usable(s)
  /\ \E sent \in SUBSET waiting, batch \in SUBSET waiting :
       /\ sent \subseteq batch
       /\ IF sent = batch
            THEN /\ Cardinality(sent) = full
                 /\ \E answered \in SUBSET sent :
                      /\ owed' = [owed EXCEPT ![s] = @ \cup answered]
                      /\ IF answered = sent THEN UNCHANGED budget
                         ELSE Cardinality(sent \ answered) = 1 /\ Spend("lost")
            ELSE /\ Cardinality(sent) < full /\ Cardinality(batch \ sent) = 1
                 /\ owed' = [owed EXCEPT ![s] = @ \cup sent]
                 /\ Spend("refused")
       /\ socket' = [socket EXCEPT ![s] = Drained(k, waiting, sent, batch)]
       /\ server' = [server EXCEPT ![s] = @ \cup sent]
  /\ UNCHANGED <<stage, attempt, inPlay, decoded, signature, calls, desired, smooth>>

(* The timer of a socket that is closing sends nothing.                      *)
DrainClosing(s) ==
  /\ socket[s].timer
  /\ ~Usable(s)
  /\ socket' = [socket EXCEPT ![s].timer = FALSE]
  /\ UNCHANGED <<stage, attempt, inPlay, decoded, signature, calls, desired, server, owed, budget, smooth>>

-----------------------------------------------------------------------------
(* The sockets of the page (external) and what the bridge sees of them.      *)

Open == {s \in Sockets : socket[s].state \in {"untracked", "tracked", "connected"}}

(* The site opens a socket, by the bridge's class or by the native one.      *)
OpenSocket(s) ==
  /\ stage # "closed" /\ Open = {}
  /\ socket[s].state = "none"
  /\ \E state \in {"untracked", "tracked"} :
       socket' = [socket EXCEPT ![s] = [NoSocket EXCEPT !.state = state]]
  /\ UNCHANGED <<stage, attempt, inPlay, decoded, signature, calls, desired, server, owed, budget, smooth>>

(* Its first send, through the prototype, shows it to the bridge.            *)
TrackSocket(s) ==
  /\ socket[s].state = "untracked"
  /\ socket' = [socket EXCEPT ![s].state = "tracked"]
  /\ UNCHANGED <<stage, attempt, inPlay, decoded, signature, calls, desired, server, owed, budget, smooth>>

(* The CONNECTED frame.                                                      *)
ConnectedFrame(s) ==
  /\ socket[s].state = "tracked"
  /\ socket' = [socket EXCEPT ![s] = Synced([@ EXCEPT !.state = "connected"], desired)]
  /\ UNCHANGED <<stage, attempt, inPlay, decoded, signature, calls, desired, server, owed, budget, smooth>>

(* The bookmaker closes a socket; the page is told later.                    *)
CloseSocket(s) ==
  /\ Spend("closes")
  /\ s \in Open
  /\ socket' = [socket EXCEPT ![s].state = "closing"]
  /\ server' = [server EXCEPT ![s] = {}]
  /\ owed' = [owed EXCEPT ![s] = {}]
  /\ UNCHANGED <<stage, attempt, inPlay, decoded, signature, calls, desired, smooth>>

(* The close event.                                                          *)
SocketClosed(s) ==
  /\ socket[s].state = "closing"
  /\ socket' = [socket EXCEPT ![s] = NoSocket]
  /\ UNCHANGED <<stage, attempt, inPlay, decoded, signature, calls, desired, server, owed, budget, smooth>>

(* The site reloads its page: the bridge is injected anew.                   *)
ReloadPage ==
  /\ stage # "closed"
  /\ Spend("reloads")
  /\ smooth' = FALSE
  /\ NewPage
  /\ UNCHANGED <<stage, attempt, inPlay, decoded, signature, calls>>

-----------------------------------------------------------------------------
(* The calls of the runtime.                                                 *)

Call(kind, ids) == [kind |-> kind, ids |-> ids, done |-> FALSE]

(* syncNetworkSubscriptions, up to the call.                                 *)
Sync(ids) ==
  calls' = IF ids = signature THEN calls ELSE Append(calls, Call("set", ids))

(* The oldest call not yet evaluated is.                                     *)
Current(i) == ~calls[i].done /\ \A j \in 1..(i - 1) : calls[j].done

EvaluateCall(i) ==
  /\ Current(i)
  /\ calls' = [calls EXCEPT ![i].done = TRUE]
  /\ Evaluate(calls[i])
  /\ UNCHANGED <<stage, attempt, inPlay, decoded, signature, budget, smooth>>

(* It fails in the page, and the failure is swallowed (catch(() => null)).   *)
MissCall(i) ==
  /\ Current(i)
  /\ Spend("missed")
  /\ smooth' = FALSE
  /\ calls' = [calls EXCEPT ![i].done = TRUE]
  /\ UNCHANGED <<stage, attempt, inPlay, decoded, signature, page>>

(* A set records its fixtures, evaluated or failed.                          *)
Recorded(call) == IF call.kind = "set" THEN call.ids ELSE signature

(* The oldest call returns and records the signature; the first attempts     *)
(* await it and compare with the fixtures in play by then.                   *)
ReturnCall ==
  /\ calls # <<>> /\ Head(calls).done
  /\ calls' = Tail(calls)
  /\ signature' = Recorded(Head(calls))
  /\ IF stage = "await"
       THEN /\ stage' = IF Head(calls).ids = inPlay THEN "start"
                        ELSE IF attempt = 3 THEN "fail" ELSE "refresh"
            /\ attempt' = IF Head(calls).ids # inPlay /\ attempt < 3 THEN attempt + 1 ELSE attempt
       ELSE UNCHANGED <<stage, attempt>>
  /\ UNCHANGED <<inPlay, decoded, page, budget, smooth>>

-----------------------------------------------------------------------------
(* The runtime.                                                              *)

InPlay == IF inPlay = Null THEN {} ELSE inPlay
Pending == InPlay \ decoded

(* applyMetadataSnapshot and, once activated, notifyActiveFixtures.  What    *)
(* returns may still be known from before.                                   *)
ChangeFixtures(ids) ==
  /\ stage # "closed"
  /\ ids # inPlay
  /\ IF inPlay = Null THEN UNCHANGED budget ELSE Spend("changes")
  /\ LET again == ids = signature /\ calls # <<>> IN
       /\ again => Swaps
       /\ smooth' = (smooth /\ ~again)
  /\ inPlay' = ids
  /\ \E known \in SUBSET ((decoded \cap ids) \cup (decoded \ ids)) :
       decoded \cap ids \subseteq known /\ decoded' = known
  /\ IF stage = "live" THEN Sync(ids) ELSE UNCHANGED calls
  /\ UNCHANGED <<stage, attempt, signature, page>>

(* An answer to a subscription reaches the feed.                             *)
Decode(s, f) ==
  /\ f \in owed[s]
  /\ owed' = [owed EXCEPT ![s] = @ \ {f}]
  /\ decoded' = IF inPlay = Null \/ f \in InPlay THEN decoded \cup {f} ELSE decoded
  /\ UNCHANGED <<stage, attempt, inPlay, signature, calls, desired, socket, server, budget, smooth>>

(* refreshNetworkSubscriptions: the fixtures stayed the same for a while and *)
(* are subscribed; if they are already, nothing is to wait for.              *)
Refresh ==
  /\ stage = "refresh" /\ inPlay # Null
  /\ Sync(inPlay)
  /\ stage' = IF inPlay = signature THEN "start" ELSE "await"
  /\ UNCHANGED <<attempt, inPlay, decoded, signature, page, budget, smooth>>

(* waitForNetworkBootstrap, up to activate, which tells the fixtures.        *)
BootstrapReady == inPlay \notin {Null, {}} /\ Pending = {}

(* Wrong: a change since the subscription is not told.                       *)
StartQuietly ==
  /\ stage = "start" /\ BootstrapReady
  /\ stage' = "live"
  /\ UNCHANGED <<attempt, inPlay, decoded, signature, calls, page, budget, smooth>>

Start ==
  /\ stage = "start" /\ BootstrapReady
  /\ stage' = "live"
  /\ Sync(inPlay)
  /\ UNCHANGED <<attempt, inPlay, decoded, signature, page, budget, smooth>>

Retrying == \E i \in DOMAIN calls : calls[i].kind = "retry"

(* A reconciliation repeats the subscriptions without an answer.             *)
Reconcile ==
  /\ stage = "live" /\ ~Retrying
  /\ Pending # {}
  /\ calls' = Append(calls, Call("retry", Pending))
  /\ UNCHANGED <<stage, attempt, inPlay, decoded, signature, page, budget, smooth>>

(* Nothing under way will end the wait for the bootstrap.                    *)
Stuck ==
  /\ stage = "start" /\ ~BootstrapReady
  /\ calls = <<>>
  /\ \A s \in Sockets : owed[s] = {} /\ socket[s].state \in {"none", "connected"} /\ ~socket[s].timer
  /\ \E s \in Sockets : socket[s].state = "connected"

(* resetPage forgets the signature, before the calls under way fail.         *)
Forgotten == {}

ResetPage ==
  /\ \/ stage = "fail" /\ UNCHANGED budget
     \/ Stuck /\ UNCHANGED budget
     \/ stage \in {"refresh", "start", "live"} /\ Spend("restarts")
  /\ stage' = "closed"
  /\ attempt' = 1 /\ inPlay' = Null /\ decoded' = {}
  /\ signature' = Forgotten
  /\ IF Straggles
       THEN calls' = [i \in DOMAIN calls |-> [calls[i] EXCEPT !.done = TRUE]]
       ELSE calls = <<>> /\ UNCHANGED calls
  /\ smooth' = (calls = <<>>)
  /\ NewPage

(* ensurePage, when the context is closed: every call has failed.            *)
OpenPage ==
  /\ stage = "closed" /\ calls = <<>>
  /\ stage' = "refresh"
  /\ UNCHANGED <<attempt, inPlay, decoded, signature, calls, page, budget, smooth>>

-----------------------------------------------------------------------------
Next ==
  \/ \E ids \in SUBSET Fixtures : ChangeFixtures(ids)
  \/ \E s \in Sockets :
       \/ OpenSocket(s) \/ TrackSocket(s) \/ ConnectedFrame(s)
       \/ CloseSocket(s) \/ SocketClosed(s)
       \/ Drain(s) \/ DrainClosing(s)
       \/ \E f \in Fixtures : Decode(s, f)
  \/ ReloadPage
  \/ \E i \in DOMAIN calls : EvaluateCall(i) \/ MissCall(i)
  \/ ReturnCall
  \/ Refresh \/ Start \/ Reconcile \/ ResetPage \/ OpenPage

Spec == Init /\ [][Next]_vars

-----------------------------------------------------------------------------
(* Properties.                                                               *)

(* Stages, sets and calls have their types, and only a socket that was       *)
(* connected has subscriptions, a queue or a timer.                          *)
TypeOK ==
  /\ stage \in {"refresh", "await", "start", "live", "fail", "closed"}
  /\ attempt \in 1..3
  /\ inPlay \in (SUBSET Fixtures) \cup {Null}
  /\ decoded \in SUBSET Fixtures /\ signature \in SUBSET Fixtures /\ desired \in SUBSET Fixtures
  /\ calls \in Seq([kind : {"set", "retry"}, ids : SUBSET Fixtures, done : BOOLEAN])
  /\ socket \in [Sockets -> [state : {"none", "untracked", "tracked", "connected", "closing"},
                             active : SUBSET Fixtures, pending : SUBSET Fixtures,
                             timer : BOOLEAN]]
  /\ \A s \in Sockets : socket[s].state \in {"none", "untracked", "tracked"} =>
       socket[s] = [NoSocket EXCEPT !.state = socket[s].state]
  /\ server \in [Sockets -> SUBSET Fixtures] /\ owed \in [Sockets -> SUBSET Fixtures]
  /\ smooth \in BOOLEAN

(* Whatever came in between - other fixtures, a retry, a frame refused, a    *)
(* batch half sent - a usable socket carries or awaits exactly the fixtures  *)
(* desired, and what waits has a timer that will send it                     *)
(* (syncSubscriptions, drainSubscriptionQueue, retrySubscriptions).          *)
NothingForgotten ==
  \A s \in Sockets : Usable(s) =>
    /\ socket[s].active \cup socket[s].pending = desired
    /\ socket[s].pending # {} => socket[s].timer

(* The bridge knows what it sent: what it holds to be active on a usable     *)
(* socket is what the bookmaker was asked for.                               *)
BridgeKnows == \A s \in Sockets : Usable(s) => server[s] = socket[s].active

(* No fixture is subscribed twice on a socket: a retry unsubscribes first.   *)
NoDoubleSubscribe ==
  \A s \in Sockets : Usable(s) => socket[s].pending \cap server[s] = {}

Quiet == calls = <<>> /\ \A s \in Sockets : ~socket[s].timer

(* A page that was told of every change in turn follows the fixtures in      *)
(* play, however they change, sockets close and frames are refused: once no  *)
(* call or timer is left, every usable socket of a live stream is subscribed *)
(* to them; and a stream starts only with the fixtures it recorded           *)
(* ("8xbet in-play metadata kept changing during subscriptions." otherwise). *)
SubscribedToMetadata ==
  smooth =>
    /\ stage = "live" /\ Quiet => \A s \in Sockets : Usable(s) => server[s] = InPlay
    /\ stage = "start" /\ calls = <<>> => desired = signature
=============================================================================
