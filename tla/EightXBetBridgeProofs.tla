-------------------------- MODULE EightXBetBridgeProofs ------------------------
(* For all fixtures, sockets, batch sizes and bounds: the bridge's queues    *)
(* and subscriptions partition the fixtures desired, on every usable socket. *)
(* And when calls do not fail and the page is not replaced behind the        *)
(* runtime's back, what the runtime told last is what is in play, and what   *)
(* the bridge was told last is what it desires.                              *)
EXTENDS EightXBetBridge, SequenceTheorems, TLAPS

(* What holds of one socket.  Before it is connected, and once the bookmaker *)
(* has closed it, nothing is subscribed; then the subscriptions and the      *)
(* queue divide the fixtures desired between them.                           *)
SocketInv(s) ==
  /\ ~Usable(s) => server[s] = {}
  /\ Usable(s) => /\ socket[s].active \cup socket[s].pending = desired
                  /\ socket[s].active \cap socket[s].pending = {}
                  /\ server[s] = socket[s].active
                  /\ socket[s].pending # {} => socket[s].timer

IInv == TypeOK /\ \A s \in Sockets : SocketInv(s)

CallType == [kind : {"set", "retry"}, ids : SUBSET Fixtures, done : BOOLEAN]
SocketType == [state : {"none", "untracked", "tracked", "connected", "closing"},
               active : SUBSET Fixtures, pending : SUBSET Fixtures, timer : BOOLEAN]

-----------------------------------------------------------------------------
(* Types.                                                                    *)

(* A call of the runtime to the page is one.                                 *)
LEMMA CallIsTyped ==
  ASSUME NEW kind \in {"set", "retry"}, NEW ids \in SUBSET Fixtures
  PROVE  Call(kind, ids) \in CallType
  BY DEF Call, CallType

(* Queueing a call keeps the queue typed.                                    *)
LEMMA SyncIsTyped ==
  ASSUME calls \in Seq(CallType), NEW ids \in SUBSET Fixtures, Sync(ids)
  PROVE  calls' \in Seq(CallType)
  BY CallIsTyped, AppendProperties DEF Sync

(* A socket's queues stay sets of fixtures.                                  *)
LEMMA QueuesAreTyped ==
  ASSUME NEW k \in SocketType, NEW ids \in SUBSET Fixtures, desired \in SUBSET Fixtures
  PROVE  Synced(k, ids) \in SocketType /\ Retried(k, ids) \in SocketType
  BY DEF Synced, Retried, SocketType

(* A new page starts with untouched sockets.                                 *)
LEMMA NewPageIsTyped ==
  ASSUME NewPage
  PROVE  /\ desired' \in SUBSET Fixtures
         /\ socket' \in [Sockets -> SocketType]
         /\ \A s \in Sockets : socket'[s].state \in {"none", "untracked", "tracked"} =>
              socket'[s] = [NoSocket EXCEPT !.state = socket'[s].state]
         /\ server' \in [Sockets -> SUBSET Fixtures] /\ owed' \in [Sockets -> SUBSET Fixtures]
  BY DEF NewPage, NoSocket, SocketType

(* The parts of TypeOK: the runtime's and the page's.                        *)
RuntimeTypes ==
  /\ stage \in {"refresh", "await", "start", "live", "fail", "closed"}
  /\ attempt \in 1..3
  /\ inPlay \in (SUBSET Fixtures) \cup {Null}
  /\ decoded \in SUBSET Fixtures /\ signature \in SUBSET Fixtures
  /\ calls \in Seq(CallType)

PageTypes ==
  /\ desired \in SUBSET Fixtures
  /\ socket \in [Sockets -> SocketType]
  /\ \A s \in Sockets : socket[s].state \in {"none", "untracked", "tracked"} =>
       socket[s] = [NoSocket EXCEPT !.state = socket[s].state]
  /\ server \in [Sockets -> SUBSET Fixtures] /\ owed \in [Sockets -> SUBSET Fixtures]

(* inPlay is a set of fixtures or Null.                                      *)
LEMMA InPlayIsSetOrNull ==
  inPlay \in (SUBSET Fixtures) \cup {Null} <=> inPlay \in SUBSET Fixtures \/ inPlay = Null
  OBVIOUS

(* TypeOK is the types of the two halves and of the history.                 *)
LEMMA TypeParts == TypeOK <=> RuntimeTypes /\ PageTypes /\ smooth \in BOOLEAN
  BY DEF TypeOK, RuntimeTypes, PageTypes, CallType, SocketType

(* The types hold initially.                                                 *)
LEMMA InitTyped == Init => TypeOK
<1> SUFFICES ASSUME Init PROVE RuntimeTypes /\ PageTypes
  BY TypeParts DEF Init
<1>1. RuntimeTypes
  <2>1. calls \in Seq(CallType)
    BY EmptySeq DEF Init
  <2>2. inPlay = Null /\ decoded = {} /\ signature = {} /\ stage = "refresh" /\ attempt = 1
    BY DEF Init
  <2> QED BY <2>1, <2>2, InPlayIsSetOrNull DEF RuntimeTypes
<1>2. PageTypes
  BY DEF Init, EmptyPage, PageTypes, SocketType, NoSocket
<1> QED BY <1>1, <1>2

(* A call evaluated in the page keeps its types.                             *)
LEMMA EvaluateTyped ==
  ASSUME PageTypes, NEW call \in CallType, Evaluate(call)
  PROVE  PageTypes'
<1>1. call.ids \in SUBSET Fixtures
  BY DEF CallType
<1>2. desired' \in SUBSET Fixtures
  BY <1>1 DEF Evaluate, PageTypes
<1>3. ASSUME NEW s \in Sockets
      PROVE  /\ socket'[s] \in SocketType
             /\ ~Usable(s) => socket'[s] = socket[s]
             /\ Usable(s) => socket'[s].state = "connected"
  <2>1. socket[s] \in SocketType /\ desired \in SUBSET Fixtures
    BY DEF PageTypes
  <2>2. Synced(socket[s], call.ids) \in SocketType /\ Retried(socket[s], call.ids) \in SocketType
    BY <1>1, <2>1, QueuesAreTyped
  <2>3. /\ Synced(socket[s], call.ids).state = socket[s].state
        /\ Retried(socket[s], call.ids).state = socket[s].state
    BY <2>1 DEF Synced, Retried, SocketType
  <2> QED BY <2>1, <2>2, <2>3 DEF Evaluate, Usable
<1>4. socket' \in [Sockets -> SocketType]
  BY <1>3 DEF Evaluate
<1>5. server' \in [Sockets -> SUBSET Fixtures] /\ owed' \in [Sockets -> SUBSET Fixtures]
  BY DEF Evaluate, Unsubscribed, PageTypes
<1>6. \A s \in Sockets : socket'[s].state \in {"none", "untracked", "tracked"} =>
        socket'[s] = [NoSocket EXCEPT !.state = socket'[s].state]
  BY <1>3 DEF PageTypes, Usable
<1> QED BY <1>2, <1>4, <1>5, <1>6 DEF PageTypes

(* A step that changes one socket keeps the types when the socket has them,  *)
(* and no queue before it is connected.                                      *)
LEMMA OneSocketTyped ==
  ASSUME PageTypes, NEW s \in Sockets, NEW k \in SocketType,
         k.state \in {"none", "untracked", "tracked"} =>
           k = [NoSocket EXCEPT !.state = k.state],
         socket' = [socket EXCEPT ![s] = k], desired' = desired,
         server' \in [Sockets -> SUBSET Fixtures], owed' \in [Sockets -> SUBSET Fixtures]
  PROVE  PageTypes'
<1>1. desired \in SUBSET Fixtures /\ socket \in [Sockets -> SocketType]
  BY DEF PageTypes
<1>2. socket' \in [Sockets -> SocketType]
  BY <1>1
<1>3. ASSUME NEW r \in Sockets, socket'[r].state \in {"none", "untracked", "tracked"}
      PROVE  socket'[r] = [NoSocket EXCEPT !.state = socket'[r].state]
  <2>1. CASE r = s
    <3>1. socket'[r] = k
      BY <1>1, <2>1
    <3> QED BY <1>3, <3>1
  <2>2. CASE r # s
    <3>1. socket'[r] = socket[r]
      BY <1>1, <2>2
    <3> QED BY <1>3, <3>1 DEF PageTypes
  <2> QED BY <2>1, <2>2
<1> QED BY <1>1, <1>2, <1>3 DEF PageTypes

(* The steps of the sockets and of the bridge.                               *)
LEMMA PageTyped ==
  ASSUME PageTypes,
         \/ \E s \in Sockets :
              \/ OpenSocket(s) \/ TrackSocket(s) \/ ConnectedFrame(s)
              \/ CloseSocket(s) \/ SocketClosed(s) \/ Drain(s) \/ DrainClosing(s)
         \/ ReloadPage
  PROVE  PageTypes'
<1>a. /\ desired \in SUBSET Fixtures /\ socket \in [Sockets -> SocketType]
      /\ server \in [Sockets -> SUBSET Fixtures] /\ owed \in [Sockets -> SUBSET Fixtures]
  BY DEF PageTypes
<1>b. /\ NoSocket \in SocketType /\ NoSocket.state = "none"
      /\ NoSocket = [NoSocket EXCEPT !.state = NoSocket.state]
  BY DEF NoSocket, SocketType
<1>1. ASSUME NEW s \in Sockets, OpenSocket(s) PROVE PageTypes'
  <2>1. PICK state \in {"untracked", "tracked"} :
          socket' = [socket EXCEPT ![s] = [NoSocket EXCEPT !.state = state]]
    BY <1>1 DEF OpenSocket
  <2> DEFINE k == [NoSocket EXCEPT !.state = state]
  <2>2. k \in SocketType /\ k = [NoSocket EXCEPT !.state = k.state]
    BY DEF NoSocket, SocketType
  <2>3. desired' = desired /\ server' = server /\ owed' = owed
    BY <1>1 DEF OpenSocket
  <2> HIDE DEF k
  <2> QED BY <1>a, <2>1, <2>2, <2>3, OneSocketTyped DEF k
<1>2. ASSUME NEW s \in Sockets, TrackSocket(s) PROVE PageTypes'
  <2> DEFINE k == [socket[s] EXCEPT !.state = "tracked"]
  <2>1. socket[s] = [NoSocket EXCEPT !.state = socket[s].state]
    BY <1>2 DEF TrackSocket, PageTypes
  <2>2. k \in SocketType /\ k = [NoSocket EXCEPT !.state = k.state]
    BY <2>1 DEF NoSocket, SocketType
  <2>3. /\ socket' = [socket EXCEPT ![s] = k]
        /\ desired' = desired /\ server' = server /\ owed' = owed
    BY <1>2 DEF TrackSocket
  <2> HIDE DEF k
  <2> QED BY <1>a, <2>2, <2>3, OneSocketTyped
<1>3. ASSUME NEW s \in Sockets, ConnectedFrame(s) PROVE PageTypes'
  <2> DEFINE c == [socket[s] EXCEPT !.state = "connected"]
             k == Synced(c, desired)
  <2>1. c \in SocketType
    BY <1>a DEF SocketType
  <2>2. k \in SocketType
    BY <1>a, <2>1, QueuesAreTyped
  <2>3. k.state = "connected"
    BY <1>a DEF Synced, SocketType
  <2>4. /\ socket' = [socket EXCEPT ![s] = k]
        /\ desired' = desired /\ server' = server /\ owed' = owed
    BY <1>3 DEF ConnectedFrame
  <2> HIDE DEF k
  <2> QED BY <1>a, <2>2, <2>3, <2>4, OneSocketTyped
<1>4. ASSUME NEW s \in Sockets, CloseSocket(s) PROVE PageTypes'
  <2> DEFINE k == [socket[s] EXCEPT !.state = "closing"]
  <2>1. k \in SocketType /\ k.state = "closing"
    BY <1>a DEF SocketType
  <2>2. /\ socket' = [socket EXCEPT ![s] = k] /\ desired' = desired
        /\ server' = [server EXCEPT ![s] = {}] /\ owed' = [owed EXCEPT ![s] = {}]
    BY <1>4 DEF CloseSocket
  <2>3. server' \in [Sockets -> SUBSET Fixtures] /\ owed' \in [Sockets -> SUBSET Fixtures]
    BY <1>a, <2>2
  <2> HIDE DEF k
  <2> QED BY <2>1, <2>2, <2>3, OneSocketTyped
<1>5. ASSUME NEW s \in Sockets, SocketClosed(s) PROVE PageTypes'
  <2>1. /\ socket' = [socket EXCEPT ![s] = NoSocket]
        /\ desired' = desired /\ server' = server /\ owed' = owed
    BY <1>5 DEF SocketClosed
  <2> QED BY <1>a, <1>b, <2>1, OneSocketTyped
<1>6. ASSUME NEW s \in Sockets, Drain(s) PROVE PageTypes'
  <2> DEFINE waiting == (socket[s].pending \cap desired) \ socket[s].active
  <2>1. socket[s] \in SocketType /\ socket[s].state = "connected"
    BY <1>6, <1>a DEF Drain, Usable
  <2>2. PICK sent \in SUBSET waiting, batch \in SUBSET waiting :
          /\ \/ \E answered \in SUBSET sent : owed' = [owed EXCEPT ![s] = @ \cup answered]
             \/ owed' = [owed EXCEPT ![s] = @ \cup sent]
          /\ socket' = [socket EXCEPT ![s] = Drained(socket[s], waiting, sent, batch)]
          /\ server' = [server EXCEPT ![s] = @ \cup sent]
    BY <1>6 DEF Drain
  <2>3. waiting \in SUBSET Fixtures
    BY <2>1 DEF SocketType
  <2> DEFINE k == Drained(socket[s], waiting, sent, batch)
  <2>4. k \in SocketType /\ k.state = "connected"
    BY <2>1, <2>3 DEF Drained, SocketType
  <2>5. desired' = desired
    BY <1>6 DEF Drain
  <2> HIDE DEF waiting
  <2>6. server' \in [Sockets -> SUBSET Fixtures] /\ owed' \in [Sockets -> SUBSET Fixtures]
    BY <1>a, <2>2, <2>3
  <2>7. socket' = [socket EXCEPT ![s] = k]
    BY <2>2
  <2> HIDE DEF k
  <2> QED BY <2>4, <2>5, <2>6, <2>7, OneSocketTyped
<1>7. ASSUME NEW s \in Sockets, DrainClosing(s) PROVE PageTypes'
  <2> DEFINE k == [socket[s] EXCEPT !.timer = FALSE]
  <2>1. socket[s] \in SocketType /\ socket[s].timer
    BY <1>7, <1>a DEF DrainClosing
  <2>2. socket[s].state \notin {"none", "untracked", "tracked"}
    BY <2>1 DEF PageTypes, NoSocket
  <2>3. k \in SocketType /\ k.state = socket[s].state
    BY <2>1 DEF SocketType
  <2>4. /\ socket' = [socket EXCEPT ![s] = k]
        /\ desired' = desired /\ server' = server /\ owed' = owed
    BY <1>7 DEF DrainClosing
  <2> HIDE DEF k
  <2> QED BY <1>a, <2>2, <2>3, <2>4, OneSocketTyped
<1>8. ASSUME ReloadPage PROVE PageTypes'
  BY <1>8, NewPageIsTyped DEF ReloadPage, PageTypes
<1> QED BY <1>1, <1>2, <1>3, <1>4, <1>5, <1>6, <1>7, <1>8

(* The steps of the runtime and of its calls.                                *)
LEMMA RuntimeTyped ==
  ASSUME RuntimeTypes, PageTypes,
         \/ \E ids \in SUBSET Fixtures : ChangeFixtures(ids)
         \/ \E s \in Sockets, f \in Fixtures : Decode(s, f)
         \/ \E i \in DOMAIN calls : EvaluateCall(i) \/ MissCall(i)
         \/ ReturnCall \/ Refresh \/ Start \/ Reconcile \/ ResetPage \/ OpenPage
  PROVE  RuntimeTypes'
<1>1. ASSUME NEW ids \in SUBSET Fixtures, ChangeFixtures(ids) PROVE RuntimeTypes'
  <2>1. calls' \in Seq(CallType)
    BY <1>1, SyncIsTyped DEF ChangeFixtures, RuntimeTypes
  <2> QED BY <1>1, <2>1 DEF ChangeFixtures, RuntimeTypes
<1>2. ASSUME NEW s \in Sockets, NEW f \in Fixtures, Decode(s, f) PROVE RuntimeTypes'
  BY <1>2 DEF Decode, RuntimeTypes
<1>3. ASSUME NEW i \in DOMAIN calls, EvaluateCall(i) \/ MissCall(i) PROVE RuntimeTypes'
  <2>1. calls' = [calls EXCEPT ![i].done = TRUE]
    BY <1>3 DEF EvaluateCall, MissCall
  <2>2. calls \in Seq(CallType) /\ calls[i] \in CallType
    BY ElementOfSeq DEF RuntimeTypes
  <2>3. [calls[i] EXCEPT !.done = TRUE] \in CallType
    BY <2>2 DEF CallType
  <2>4. calls' \in Seq(CallType)
    BY <2>1, <2>2, <2>3, ExceptSeq
  <2> QED BY <1>3, <2>4 DEF EvaluateCall, MissCall, RuntimeTypes
<1>4. ASSUME ReturnCall PROVE RuntimeTypes'
  <2>1. calls \in Seq(CallType) /\ calls # <<>>
    BY <1>4 DEF ReturnCall, RuntimeTypes
  <2>2. Head(calls) \in CallType /\ Tail(calls) \in Seq(CallType)
    BY <2>1, HeadTailProperties
  <2>3. Recorded(Head(calls)) \in SUBSET Fixtures
    BY <2>2 DEF Recorded, CallType, RuntimeTypes
  <2>4. stage' \in {"refresh", "await", "start", "live", "fail", "closed"} /\ attempt' \in 1..3
    BY <1>4 DEF ReturnCall, RuntimeTypes
  <2> QED BY <1>4, <2>2, <2>3, <2>4 DEF ReturnCall, RuntimeTypes
<1>5. ASSUME Refresh PROVE RuntimeTypes'
  <2>1. inPlay \in SUBSET Fixtures
    BY <1>5, InPlayIsSetOrNull DEF Refresh, RuntimeTypes
  <2>2. calls' \in Seq(CallType)
    BY <1>5, <2>1, SyncIsTyped DEF Refresh, RuntimeTypes
  <2> QED BY <1>5, <2>2 DEF Refresh, RuntimeTypes
<1>6. ASSUME Start PROVE RuntimeTypes'
  <2>1. inPlay \in SUBSET Fixtures
    BY <1>6, InPlayIsSetOrNull DEF Start, BootstrapReady, RuntimeTypes
  <2>2. calls' \in Seq(CallType)
    BY <1>6, <2>1, SyncIsTyped DEF Start, RuntimeTypes
  <2> QED BY <1>6, <2>2 DEF Start, RuntimeTypes
<1>7. ASSUME Reconcile PROVE RuntimeTypes'
  <2>1. Pending \in SUBSET Fixtures
    BY InPlayIsSetOrNull DEF Pending, InPlay, RuntimeTypes
  <2>2. Call("retry", Pending) \in CallType
    BY <2>1, CallIsTyped
  <2>3. calls' \in Seq(CallType)
    BY <1>7, <2>2, AppendProperties DEF Reconcile, RuntimeTypes
  <2> QED BY <1>7, <2>3 DEF Reconcile, RuntimeTypes
<1>8. ASSUME ResetPage PROVE RuntimeTypes'
  <2>1. calls' \in Seq(CallType)
    <3>1. calls \in Seq(CallType)
      BY DEF RuntimeTypes
    <3>2. CASE Straggles
      <4>1. calls' = [i \in 1..Len(calls) |-> [calls[i] EXCEPT !.done = TRUE]]
        BY <1>8, <3>1, <3>2, LenProperties DEF ResetPage
      <4>2. ASSUME NEW i \in 1..Len(calls)
            PROVE  [calls[i] EXCEPT !.done = TRUE] \in CallType
        <5>1. calls[i] \in CallType
          BY <3>1, ElementOfSeq
        <5> QED BY <5>1 DEF CallType
      <4>3. Len(calls) \in Nat
        BY <3>1, LenProperties
      <4> QED BY <4>1, <4>2, <4>3, IsASeq
    <3>3. CASE ~Straggles
      BY <1>8, <3>1, <3>3 DEF ResetPage
    <3> QED BY <3>2, <3>3
  <2>2. /\ inPlay' = Null /\ decoded' = {} /\ signature' = {} /\ stage' = "closed"
        /\ attempt' = 1
    BY <1>8 DEF ResetPage, Forgotten
  <2> QED BY <2>1, <2>2 DEF RuntimeTypes
<1>9. ASSUME OpenPage PROVE RuntimeTypes'
  BY <1>9 DEF OpenPage, RuntimeTypes
<1> QED BY <1>1, <1>2, <1>3, <1>4, <1>5, <1>6, <1>7, <1>8, <1>9

(* Every step keeps the types.                                               *)
LEMMA TypeNext ==
  ASSUME TypeOK, [Next]_vars
  PROVE  TypeOK'
<1>0. RuntimeTypes /\ PageTypes /\ smooth \in BOOLEAN
  BY TypeParts
<1>a. (smooth \in BOOLEAN)'
  BY <1>0 DEF Next, vars, OpenSocket, TrackSocket, ConnectedFrame, CloseSocket, SocketClosed,
              Drain, DrainClosing, Decode, ReloadPage, MissCall, EvaluateCall, ReturnCall,
              ChangeFixtures, Refresh, Start, Reconcile, ResetPage, OpenPage
<1> SUFFICES RuntimeTypes' /\ PageTypes'
  BY <1>a, TypeParts, PTL
<1>1. ASSUME UNCHANGED vars PROVE RuntimeTypes' /\ PageTypes'
  BY <1>0, <1>1 DEF vars, page, RuntimeTypes, PageTypes
<1>2. ASSUME \/ \E s \in Sockets :
                  \/ OpenSocket(s) \/ TrackSocket(s) \/ ConnectedFrame(s)
                  \/ CloseSocket(s) \/ SocketClosed(s) \/ Drain(s) \/ DrainClosing(s)
             \/ ReloadPage
      PROVE  RuntimeTypes' /\ PageTypes'
  <2>1. UNCHANGED <<stage, attempt, inPlay, decoded, signature, calls>>
    BY <1>2 DEF OpenSocket, TrackSocket, ConnectedFrame, CloseSocket, SocketClosed, Drain,
                DrainClosing, ReloadPage
  <2> QED BY <1>0, <1>2, <2>1, PageTyped DEF RuntimeTypes
<1>3. ASSUME \/ \E ids \in SUBSET Fixtures : ChangeFixtures(ids)
             \/ \E i \in DOMAIN calls : MissCall(i)
             \/ ReturnCall \/ Refresh \/ Start \/ Reconcile \/ OpenPage
      PROVE  RuntimeTypes' /\ PageTypes'
  <2>1. UNCHANGED page
    BY <1>3 DEF ChangeFixtures, MissCall, ReturnCall, Refresh, Start, Reconcile, OpenPage
  <2>2. PageTypes'
    BY <1>0, <2>1 DEF page, PageTypes
  <2> QED BY <1>0, <1>3, <2>2, RuntimeTyped
<1>4. ASSUME NEW s \in Sockets, NEW f \in Fixtures, Decode(s, f)
      PROVE  RuntimeTypes' /\ PageTypes'
  <2>1. PageTypes'
    BY <1>0, <1>4 DEF Decode, PageTypes
  <2> QED BY <1>0, <1>4, <2>1, RuntimeTyped
<1>5. ASSUME NEW i \in DOMAIN calls, EvaluateCall(i)
      PROVE  RuntimeTypes' /\ PageTypes'
  <2>1. calls[i] \in CallType
    BY <1>0, ElementOfSeq DEF RuntimeTypes
  <2>2. PageTypes'
    BY <1>0, <1>5, <2>1, EvaluateTyped DEF EvaluateCall
  <2> QED BY <1>0, <1>5, <2>2, RuntimeTyped
<1>6. ASSUME ResetPage PROVE RuntimeTypes' /\ PageTypes'
  <2>1. PageTypes'
    BY <1>6, NewPageIsTyped DEF ResetPage, PageTypes
  <2> QED BY <1>0, <1>6, <2>1, RuntimeTyped
<1> QED BY <1>1, <1>2, <1>3, <1>4, <1>5, <1>6 DEF Next

-----------------------------------------------------------------------------
(* The bridge.                                                               *)

(* Other fixtures on a socket that is connected.                             *)
LEMMA SyncDivides ==
  ASSUME NEW k \in SocketType, NEW ids \in SUBSET Fixtures, k.active \cap k.pending = {}
  PROVE  LET n == Synced(k, ids)
         IN /\ n.active \cup n.pending = ids /\ n.active \cap n.pending = {}
            /\ k.active \ (k.active \ n.active) = n.active
            /\ (k.pending # {} => k.timer) => (n.pending # {} => n.timer)
<1>1. /\ Synced(k, ids).active = k.active \cap ids
      /\ Synced(k, ids).pending = (k.pending \cup (ids \ k.active)) \cap ids
      /\ Synced(k, ids).timer = (k.timer \/ (k.pending \cup (ids \ k.active)) \cap ids # {})
  BY DEF Synced, SocketType
<1> QED BY <1>1

(* A retry on a socket that is connected.                                    *)
LEMMA RetryDivides ==
  ASSUME NEW k \in SocketType, NEW ids \in SUBSET Fixtures,
         k.active \cup k.pending = desired, k.active \cap k.pending = {}
  PROVE  LET n == Retried(k, ids)
         IN /\ n.active \cup n.pending = desired /\ n.active \cap n.pending = {}
            /\ k.active \ (k.active \ n.active) = n.active
            /\ n.pending # {} => n.timer
<1>1. /\ Retried(k, ids).active = k.active \ (ids \cap desired)
      /\ Retried(k, ids).pending = k.pending \cup (ids \cap desired)
      /\ Retried(k, ids).timer = (k.timer \/ k.pending \cup (ids \cap desired) # {})
  BY DEF Retried, SocketType
<1> QED BY <1>1

(* A call divides the fixtures of a socket into active and pending.          *)
LEMMA EvaluateDivides ==
  ASSUME PageTypes, \A s \in Sockets : SocketInv(s), NEW call \in CallType, Evaluate(call)
  PROVE  \A s \in Sockets : SocketInv(s)'
<1> SUFFICES ASSUME NEW s \in Sockets PROVE SocketInv(s)'
  OBVIOUS
<1>0. /\ socket[s] \in SocketType /\ call.ids \in SUBSET Fixtures /\ SocketInv(s)
      /\ server'[s] = server[s] \ (socket[s].active \ socket'[s].active)
  BY DEF PageTypes, CallType, Evaluate, Unsubscribed
<1>1. CASE ~Usable(s)
  <2>1. socket'[s] = socket[s]
    BY <1>1 DEF Evaluate
  <2> QED BY <1>0, <1>1, <2>1 DEF SocketInv, Usable
<1>2. CASE Usable(s) /\ call.kind = "set"
  <2>1. socket'[s] = Synced(socket[s], call.ids) /\ desired' = call.ids
    BY <1>2 DEF Evaluate
  <2>2. Synced(socket[s], call.ids).state = "connected"
    BY <1>0, <1>2 DEF Synced, SocketType, Usable
  <2>3. /\ socket[s].active \cap socket[s].pending = {} /\ server[s] = socket[s].active
        /\ socket[s].pending # {} => socket[s].timer
    BY <1>0, <1>2 DEF SocketInv
  <2>4. LET n == Synced(socket[s], call.ids)
        IN /\ n.active \cup n.pending = call.ids /\ n.active \cap n.pending = {}
           /\ socket[s].active \ (socket[s].active \ n.active) = n.active
           /\ n.pending # {} => n.timer
    BY <1>0, <2>3, SyncDivides
  <2> QED BY <1>0, <2>1, <2>2, <2>3, <2>4 DEF SocketInv, Usable
<1>3. CASE Usable(s) /\ call.kind # "set"
  <2>1. socket'[s] = Retried(socket[s], call.ids) /\ desired' = desired
    BY <1>3 DEF Evaluate
  <2>2. Retried(socket[s], call.ids).state = "connected"
    BY <1>0, <1>3 DEF Retried, SocketType, Usable
  <2>3. /\ socket[s].active \cup socket[s].pending = desired
        /\ socket[s].active \cap socket[s].pending = {} /\ server[s] = socket[s].active
    BY <1>0, <1>3 DEF SocketInv
  <2>4. LET n == Retried(socket[s], call.ids)
        IN /\ n.active \cup n.pending = desired /\ n.active \cap n.pending = {}
           /\ socket[s].active \ (socket[s].active \ n.active) = n.active
           /\ n.pending # {} => n.timer
    BY <1>0, <2>3, RetryDivides
  <2> QED BY <1>0, <2>1, <2>2, <2>3, <2>4 DEF SocketInv, Usable
<1> QED BY <1>1, <1>2, <1>3

(* The first frame of a connection: the socket had nothing.                  *)
LEMMA ConnectedDivides ==
  ASSUME PageTypes, \A s \in Sockets : SocketInv(s), NEW x \in Sockets, ConnectedFrame(x)
  PROVE  \A s \in Sockets : SocketInv(s)'
<1> DEFINE k == [socket[x] EXCEPT !.state = "connected"]
<1>1. /\ socket[x].state = "tracked" /\ socket[x] = [NoSocket EXCEPT !.state = "tracked"]
      /\ server[x] = {} /\ desired \in SUBSET Fixtures
  BY DEF ConnectedFrame, PageTypes, SocketInv, Usable
<1>2. k = [NoSocket EXCEPT !.state = "connected"]
  BY <1>1 DEF NoSocket
<1>3. k \in SocketType /\ k.active = {} /\ k.pending = {} /\ k.state = "connected"
  BY <1>2 DEF NoSocket, SocketType
<1> HIDE DEF k
<1>4. LET n == Synced(k, desired)
      IN /\ n.active \cup n.pending = desired /\ n.active \cap n.pending = {}
         /\ k.active \ (k.active \ n.active) = n.active
         /\ n.pending # {} => n.timer
  BY <1>1, <1>3, SyncDivides
<1>5. Synced(k, desired).state = "connected"
  BY <1>3 DEF Synced, SocketType
<1>6. /\ socket' = [socket EXCEPT ![x] = Synced(k, desired)]
      /\ server' = server /\ desired' = desired /\ socket \in [Sockets -> SocketType]
  BY DEF ConnectedFrame, PageTypes, k
<1> SUFFICES ASSUME NEW s \in Sockets PROVE SocketInv(s)'
  OBVIOUS
<1>7. CASE s = x
  BY <1>1, <1>3, <1>4, <1>5, <1>6, <1>7 DEF SocketInv, Usable
<1>8. CASE s # x
  BY <1>6, <1>8 DEF SocketInv, Usable
<1> QED BY <1>7, <1>8

(* A batch moves fixtures from the queue to the subscriptions, whole or not. *)
LEMMA DrainDivides ==
  ASSUME PageTypes, \A s \in Sockets : SocketInv(s), NEW x \in Sockets, Drain(x)
  PROVE  \A s \in Sockets : SocketInv(s)'
<1> DEFINE k == socket[x]
           waiting == (k.pending \cap desired) \ k.active
<1>1. /\ k \in SocketType /\ Usable(x) /\ k.state = "connected"
      /\ k.active \cup k.pending = desired /\ k.active \cap k.pending = {}
      /\ server[x] = k.active
  BY DEF PageTypes, Drain, Usable, SocketInv
<1>2. waiting = k.pending
  BY <1>1
<1>3. PICK sent \in SUBSET waiting, batch \in SUBSET waiting :
        /\ socket' = [socket EXCEPT ![x] = Drained(k, waiting, sent, batch)]
        /\ server' = [server EXCEPT ![x] = @ \cup sent]
  BY DEF Drain
<1>4. /\ Drained(k, waiting, sent, batch).state = "connected"
      /\ Drained(k, waiting, sent, batch).active = k.active \cup sent
      /\ Drained(k, waiting, sent, batch).pending = waiting \ sent
      /\ Drained(k, waiting, sent, batch).timer = (waiting \ sent # {})
  BY <1>1 DEF Drained, SocketType
<1>5. /\ desired' = desired /\ socket \in [Sockets -> SocketType]
      /\ server \in [Sockets -> SUBSET Fixtures]
  BY DEF Drain, PageTypes
<1> HIDE DEF k, waiting
<1> SUFFICES ASSUME NEW s \in Sockets PROVE SocketInv(s)'
  OBVIOUS
<1>6. CASE s = x
  <2>1. /\ socket'[s].active = k.active \cup sent /\ socket'[s].pending = waiting \ sent
        /\ socket'[s].state = "connected" /\ server'[s] = k.active \cup sent
        /\ socket'[s].timer = (waiting \ sent # {})
    BY <1>1, <1>3, <1>4, <1>5, <1>6
  <2>2. /\ (k.active \cup sent) \cup (waiting \ sent) = desired
        /\ (k.active \cup sent) \cap (waiting \ sent) = {}
    BY <1>1, <1>2
  <2> QED BY <1>5, <2>1, <2>2 DEF SocketInv, Usable
<1>7. CASE s # x
  BY <1>3, <1>5, <1>7 DEF SocketInv, Usable
<1> QED BY <1>6, <1>7

(* Every step keeps what the bridge knows of its subscriptions.              *)
LEMMA BridgeNext ==
  ASSUME IInv, [Next]_vars
  PROVE  \A s \in Sockets : SocketInv(s)'
<1>0. RuntimeTypes /\ PageTypes /\ \A s \in Sockets : SocketInv(s)
  BY TypeParts DEF IInv
<1>1. ASSUME UNCHANGED <<desired, socket, server>>
      PROVE  \A s \in Sockets : SocketInv(s)'
  BY <1>0, <1>1 DEF SocketInv, Usable
<1>2. ASSUME \/ UNCHANGED vars
             \/ \E ids \in SUBSET Fixtures : ChangeFixtures(ids)
             \/ \E s \in Sockets, f \in Fixtures : Decode(s, f)
             \/ \E i \in DOMAIN calls : MissCall(i)
             \/ ReturnCall \/ Refresh \/ Start \/ Reconcile \/ OpenPage
      PROVE  UNCHANGED <<desired, socket, server>>
  BY <1>2 DEF vars, page, ChangeFixtures, Decode, MissCall, ReturnCall, Refresh, Start, Reconcile,
              OpenPage
<1>3. ASSUME NEW x \in Sockets, OpenSocket(x) \/ TrackSocket(x)
      PROVE  \A s \in Sockets : SocketInv(s)'
  <2>1. /\ ~Usable(x) /\ socket'[x].state # "connected"
        /\ \A s \in Sockets \ {x} : socket'[s] = socket[s]
        /\ server' = server /\ desired' = desired
    BY <1>0, <1>3 DEF OpenSocket, TrackSocket, Usable, PageTypes, NoSocket, SocketType
  <2> QED BY <1>0, <2>1 DEF SocketInv, Usable
<1>4. ASSUME NEW x \in Sockets, CloseSocket(x)
      PROVE  \A s \in Sockets : SocketInv(s)'
  <2>1. /\ socket'[x].state = "closing" /\ server'[x] = {} /\ desired' = desired
        /\ \A s \in Sockets \ {x} : socket'[s] = socket[s] /\ server'[s] = server[s]
    BY <1>0, <1>4 DEF CloseSocket, PageTypes, SocketType
  <2> QED BY <1>0, <2>1 DEF SocketInv, Usable
<1>5. ASSUME NEW x \in Sockets, SocketClosed(x) \/ DrainClosing(x)
      PROVE  \A s \in Sockets : SocketInv(s)'
  <2>1. /\ ~Usable(x) /\ socket'[x].state # "connected"
        /\ \A s \in Sockets \ {x} : socket'[s] = socket[s]
        /\ server' = server /\ desired' = desired
    BY <1>0, <1>5 DEF SocketClosed, DrainClosing, Usable, PageTypes, NoSocket, SocketType
  <2> QED BY <1>0, <2>1 DEF SocketInv, Usable
<1>6. ASSUME ReloadPage \/ ResetPage
      PROVE  \A s \in Sockets : SocketInv(s)'
  BY <1>6 DEF ReloadPage, ResetPage, NewPage, NoSocket, SocketInv, Usable
<1>7. ASSUME NEW i \in DOMAIN calls, EvaluateCall(i)
      PROVE  \A s \in Sockets : SocketInv(s)'
  <2>1. calls[i] \in CallType
    BY <1>0, ElementOfSeq DEF RuntimeTypes
  <2> QED BY <1>0, <1>7, <2>1, EvaluateDivides DEF EvaluateCall
<1> QED BY <1>0, <1>1, <1>2, <1>3, <1>4, <1>5, <1>6, <1>7, ConnectedDivides, DrainDivides DEF Next

-----------------------------------------------------------------------------
(* The theorems.                                                             *)

(* The inductive invariant holds.                                            *)
LEMMA IInvHolds == Spec => []IInv
<1>1. Init => IInv
  <2> SUFFICES ASSUME Init PROVE IInv
    OBVIOUS
  <2>1. TypeOK
    BY InitTyped
  <2>2. \A s \in Sockets : SocketInv(s)
    BY DEF Init, EmptyPage, NoSocket, SocketInv, Usable
  <2> QED BY <2>1, <2>2 DEF IInv
<1>2. IInv /\ [Next]_vars => IInv'
  <2> SUFFICES ASSUME IInv, [Next]_vars PROVE IInv'
    OBVIOUS
  <2>1. TypeOK'
    BY TypeNext DEF IInv
  <2>2. \A s \in Sockets : SocketInv(s)'
    BY BridgeNext
  <2> QED BY <2>1, <2>2 DEF IInv
<1> QED BY <1>1, <1>2, PTL DEF Spec

(* Stages, calls and sockets have their types; a socket that was never       *)
(* connected has no subscription, no queue and no timer.                     *)
THEOREM TypesHold == Spec => []TypeOK
  BY IInvHolds, PTL DEF IInv

(* Whatever calls overlap and whatever frames are refused, a usable socket   *)
(* carries or awaits exactly the fixtures desired, and a timer is set for    *)
(* those that wait.                                                          *)
THEOREM NothingIsForgotten == Spec => []NothingForgotten
<1>1. IInv => NothingForgotten
  BY DEF IInv, SocketInv, NothingForgotten
<1> QED BY <1>1, IInvHolds, PTL

(* What the bridge holds to be subscribed is what it asked the bookmaker     *)
(* for.                                                                      *)
THEOREM BridgeKnowsItsSubscriptions == Spec => []BridgeKnows
<1>1. IInv => BridgeKnows
  BY DEF IInv, SocketInv, BridgeKnows
<1> QED BY <1>1, IInvHolds, PTL

(* No fixture is subscribed twice on a socket.                               *)
THEOREM NothingIsSubscribedTwice == Spec => []NoDoubleSubscribe
<1>1. IInv => NoDoubleSubscribe
  BY DEF IInv, SocketInv, NoDoubleSubscribe
<1> QED BY <1>1, IInvHolds, PTL

-----------------------------------------------------------------------------
(* What the runtime told                                                     *)

(* Calls return in order.                                                    *)
InOrder == \A i, j \in DOMAIN calls : i < j /\ calls[j].done => calls[i].done

IsSet(i) == calls[i].kind = "set"

(* ids is what the last call of a set says, or the signature when none is    *)
(* under way.                                                                *)
Told(ids) ==
  \/ ids = signature /\ \A i \in DOMAIN calls : ~IsSet(i)
  \/ \E i \in DOMAIN calls :
       /\ IsSet(i) /\ calls[i].ids = ids
       /\ \A j \in DOMAIN calls : i < j => ~IsSet(j)

(* The same of those that were evaluated.                                    *)
Applied(ids) ==
  \/ ids = signature /\ \A i \in DOMAIN calls : ~(IsSet(i) /\ calls[i].done)
  \/ \E i \in DOMAIN calls :
       /\ IsSet(i) /\ calls[i].done /\ calls[i].ids = ids
       /\ \A j \in DOMAIN calls : i < j => ~(IsSet(j) /\ calls[j].done)

(* Before the stream is live one call is made at a time, and awaited.        *)
OneAtATime ==
  /\ stage \in {"refresh", "start", "fail", "closed"} => calls = <<>>
  /\ stage = "await" => Len(calls) = 1

FollowInv ==
  /\ InOrder /\ OneAtATime
  /\ Applied(desired)
  /\ stage = "live" => inPlay # Null /\ Told(inPlay)

(* A step that leaves the calls alone leaves all of this.                    *)
LEMMA CallsAlone ==
  ASSUME FollowInv, UNCHANGED <<calls, signature, desired, stage, inPlay>>
  PROVE  FollowInv'
<1>1. \A ids : Told(ids)' = Told(ids) /\ Applied(ids)' = Applied(ids)
  BY DEF Told, Applied, IsSet
<1>2. \A ids : (Told(ids) => Told(ids)') /\ (Applied(ids) => Applied(ids)')
  BY <1>1
<1>3. Applied(desired)' /\ (stage' = "live" => inPlay' # Null /\ Told(inPlay)')
  BY <1>2 DEF FollowInv, Told, Applied, IsSet
<1> QED BY <1>3 DEF FollowInv, InOrder, OneAtATime

(* A call joins the others.                                                  *)
LEMMA CallAppended ==
  ASSUME TypeOK, NEW c \in CallType, calls' = Append(calls, c)
  PROVE  /\ Len(calls) \in Nat /\ DOMAIN calls = 1..Len(calls)
         /\ DOMAIN calls' = 1..(Len(calls) + 1)
         /\ \A i \in 1..Len(calls) : calls'[i] = calls[i]
         /\ calls'[Len(calls) + 1] = c /\ Len(calls') = Len(calls) + 1
<1>1. calls \in Seq(CallType)
  BY TypeParts DEF RuntimeTypes
<1> QED BY <1>1, AppendProperties, LenProperties

(* What was evaluated stays what it was.                                     *)
LEMMA AppendedIsNotApplied ==
  ASSUME TypeOK, FollowInv, NEW c \in CallType, calls' = Append(calls, c), ~c.done,
         UNCHANGED <<signature, desired>>
  PROVE  InOrder' /\ Applied(desired)'
<1> DEFINE n == Len(calls)
<1>1. /\ n \in Nat /\ DOMAIN calls = 1..n /\ DOMAIN calls' = 1..(n + 1)
      /\ \A i \in 1..n : calls'[i] = calls[i]
      /\ calls'[n + 1] = c
  BY CallAppended
<1> HIDE DEF n
<1>2. InOrder'
  BY <1>1 DEF FollowInv, InOrder
<1>3. Applied(desired)'
  <2>1. CASE desired = signature /\ \A i \in DOMAIN calls : ~(IsSet(i) /\ calls[i].done)
    BY <1>1, <2>1 DEF Applied, IsSet
  <2>2. CASE \E i \in DOMAIN calls :
               /\ IsSet(i) /\ calls[i].done /\ calls[i].ids = desired
               /\ \A j \in DOMAIN calls : i < j => ~(IsSet(j) /\ calls[j].done)
    BY <1>1, <2>2 DEF Applied, IsSet
  <2> QED BY <2>1, <2>2 DEF FollowInv, Applied
<1> QED BY <1>2, <1>3

(* syncNetworkSubscriptions: what it told last is the set it was given.      *)
LEMMA SyncTells ==
  ASSUME TypeOK, FollowInv, NEW ids \in SUBSET Fixtures, Sync(ids),
         ids = signature => calls = <<>>, UNCHANGED <<signature, desired>>
  PROVE  /\ InOrder' /\ Applied(desired)' /\ \A v : v = ids => Told(v)'
         /\ ids # signature => Len(calls') = Len(calls) + 1
         /\ ids = signature => calls' = calls
<1>1. CASE ids = signature
  <2>1. calls' = calls /\ DOMAIN calls = {}
    BY <1>1 DEF Sync
  <2>2. InOrder' /\ Applied(desired)'
    BY <2>1 DEF FollowInv, InOrder, Applied, IsSet
  <2> QED BY <1>1, <2>1, <2>2 DEF Told
<1>2. CASE ids # signature
  <2>1. PICK c \in CallType : c = Call("set", ids)
    BY CallIsTyped
  <2>2. calls' = Append(calls, c) /\ c.kind = "set" /\ c.ids = ids /\ ~c.done
    BY <1>2, <2>1 DEF Sync, Call
  <2>3. /\ Len(calls) \in Nat /\ DOMAIN calls' = 1..(Len(calls) + 1)
        /\ calls'[Len(calls) + 1] = c /\ Len(calls') = Len(calls) + 1
    BY <2>2, CallAppended
  <2>4. \A v : v = ids => Told(v)'
    BY <2>2, <2>3 DEF Told, IsSet
  <2> QED BY <1>2, <2>2, <2>3, <2>4, AppendedIsNotApplied
<1> QED BY <1>1, <1>2

(* Other fixtures are in play.                                               *)
LEMMA ChangeFollows ==
  ASSUME TypeOK, FollowInv, NEW ids \in SUBSET Fixtures, ChangeFixtures(ids), smooth'
  PROVE  FollowInv'
<1>1. /\ inPlay' = ids /\ ids # Null /\ UNCHANGED <<stage, signature, desired>>
      /\ ids = signature => calls = <<>>
  BY EightXBetBridgeAssumption DEF ChangeFixtures, page
<1>2. CASE stage = "live"
  <2>1. Sync(ids)
    BY <1>2 DEF ChangeFixtures
  <2>2. InOrder' /\ Applied(desired)' /\ Told(inPlay)'
    <3>1. InOrder' /\ Applied(desired)' /\ \A v : v = ids => Told(v)'
      BY <1>1, <2>1, SyncTells
    <3>2. Told(inPlay)'
      BY <1>1, <3>1 DEF Told, IsSet
    <3> QED BY <3>1, <3>2
  <2> QED BY <1>1, <1>2, <2>2 DEF FollowInv, OneAtATime
<1>3. CASE stage # "live"
  <2>1. calls' = calls
    BY <1>3 DEF ChangeFixtures
  <2>2. Applied(desired)'
    BY <1>1, <2>1 DEF FollowInv, Applied, IsSet
  <2> QED BY <1>1, <1>3, <2>1, <2>2 DEF FollowInv, InOrder, OneAtATime
<1> QED BY <1>2, <1>3

(* A call is evaluated in the page.                                          *)
LEMMA EvaluateFollows ==
  ASSUME TypeOK, FollowInv, NEW i \in DOMAIN calls, EvaluateCall(i)
  PROVE  FollowInv'
<1>1. /\ calls \in Seq(CallType) /\ DOMAIN calls = 1..Len(calls) /\ Len(calls) \in Nat
      /\ calls[i] \in CallType /\ i \in Nat
  BY LenProperties, ElementOfSeq, TypeParts DEF RuntimeTypes
<1>2. /\ ~calls[i].done /\ \A j \in DOMAIN calls : j < i => calls[j].done
      /\ calls' = [calls EXCEPT ![i].done = TRUE]
      /\ desired' = IF calls[i].kind = "set" THEN calls[i].ids ELSE desired
      /\ UNCHANGED <<stage, inPlay, signature>>
  BY <1>1 DEF EvaluateCall, Current, Evaluate
<1>3. /\ DOMAIN calls' = DOMAIN calls /\ calls'[i].done /\ Len(calls') = Len(calls)
      /\ \A j \in DOMAIN calls : /\ calls'[j].kind = calls[j].kind /\ calls'[j].ids = calls[j].ids
                                 /\ j # i => calls'[j].done = calls[j].done
  <2>1. DOMAIN calls' = DOMAIN calls
    BY <1>2
  <2>2. [calls[i] EXCEPT !.done = TRUE] \in CallType
    BY <1>1 DEF CallType
  <2>3. Len(calls') = Len(calls)
    BY <1>1, <1>2, <2>2, ExceptSeq
  <2>4. \A j \in DOMAIN calls : calls[j] \in CallType
    BY <1>1, ElementOfSeq
  <2> QED BY <1>2, <2>1, <2>3, <2>4 DEF CallType
<1>4. \A j \in DOMAIN calls : i < j => ~calls[j].done
  BY <1>2 DEF FollowInv, InOrder
<1>5. InOrder'
  BY <1>1, <1>2, <1>3, <1>4 DEF FollowInv, InOrder
<1>6. Applied(desired)'
  <2>1. CASE calls[i].kind = "set"
    BY <1>2, <1>3, <1>4, <2>1 DEF Applied, IsSet
  <2>2. CASE calls[i].kind # "set"
    <3>1. \A j \in DOMAIN calls : (IsSet(j) /\ calls[j].done)' <=> (IsSet(j) /\ calls[j].done)
      BY <1>3, <2>2 DEF IsSet
    <3>2. desired' = desired
      BY <1>2, <2>2
    <3>3. (\E k \in DOMAIN calls :
             /\ IsSet(k) /\ calls[k].done /\ calls[k].ids = desired
             /\ \A j \in DOMAIN calls : k < j => ~(IsSet(j) /\ calls[j].done)) =>
          \E k \in DOMAIN calls' :
             /\ IsSet(k)' /\ calls'[k].done /\ calls'[k].ids = desired'
             /\ \A j \in DOMAIN calls' : k < j => ~(IsSet(j)' /\ calls'[j].done)
      BY <1>3, <3>1, <3>2
    <3> QED BY <1>2, <1>3, <3>1, <3>2, <3>3 DEF FollowInv, Applied
  <2> QED BY <2>1, <2>2
<1>7. stage' = "live" => inPlay' # Null /\ Told(inPlay)'
  BY <1>2, <1>3 DEF FollowInv, Told, IsSet
<1> QED BY <1>2, <1>3, <1>5, <1>6, <1>7, <1>1 DEF FollowInv, OneAtATime

(* The oldest call returns.                                                  *)
LEMMA ReturnFollows ==
  ASSUME TypeOK, FollowInv, ReturnCall
  PROVE  FollowInv'
<1>1. /\ calls \in Seq(CallType) /\ calls # <<>>
      /\ DOMAIN calls = 1..Len(calls) /\ Len(calls) \in Nat
  BY LenProperties, TypeParts DEF RuntimeTypes, ReturnCall
<1>2. PICK c \in CallType : c = Head(calls)
  BY <1>1, HeadTailProperties
<1>3. /\ calls' = Tail(calls) /\ c = calls[1] /\ 1 \in DOMAIN calls /\ c.done
      /\ signature' = IF c.kind = "set" THEN c.ids ELSE signature
      /\ UNCHANGED <<inPlay, desired>>
      /\ Len(calls') = Len(calls) - 1 /\ DOMAIN calls' = 1..(Len(calls) - 1)
      /\ \A i \in 1..(Len(calls) - 1) : calls'[i] = calls[i + 1]
  BY <1>1, <1>2, HeadTailProperties, LenProperties DEF ReturnCall, Recorded, page
<1>4. InOrder'
  BY <1>1, <1>3 DEF FollowInv, InOrder
<1>5. Applied(desired)'
  <2>1. CASE desired = signature /\ \A i \in DOMAIN calls : ~(IsSet(i) /\ calls[i].done)
    <3>1. c.kind # "set"
      BY <1>3, <2>1 DEF IsSet
    <3> QED BY <1>1, <1>3, <2>1, <3>1 DEF Applied, IsSet
  <2>2. CASE \E i \in DOMAIN calls :
               /\ IsSet(i) /\ calls[i].done /\ calls[i].ids = desired
               /\ \A j \in DOMAIN calls : i < j => ~(IsSet(j) /\ calls[j].done)
    <3>1. PICK i \in DOMAIN calls :
            /\ calls[i].kind = "set" /\ calls[i].done /\ calls[i].ids = desired
            /\ \A j \in DOMAIN calls : i < j => ~(calls[j].kind = "set" /\ calls[j].done)
      BY <2>2 DEF IsSet
    <3>2. CASE i = 1
      <4>1. desired' = signature'
        BY <1>3, <3>1, <3>2
      <4>2. \A j \in DOMAIN calls' : ~(calls'[j].kind = "set" /\ calls'[j].done)
        BY <1>1, <1>3, <3>1, <3>2
      <4> QED BY <4>1, <4>2 DEF Applied, IsSet
    <3>3. CASE i # 1
      <4>1. i - 1 \in DOMAIN calls' /\ calls'[i - 1] = calls[i]
        BY <1>1, <1>3, <3>3
      <4>2. \A j \in DOMAIN calls' : i - 1 < j => ~(calls'[j].kind = "set" /\ calls'[j].done)
        BY <1>1, <1>3, <3>1
      <4> QED BY <1>3, <3>1, <4>1, <4>2 DEF Applied, IsSet
    <3> QED BY <3>2, <3>3
  <2> QED BY <2>1, <2>2 DEF FollowInv, Applied
<1>6. ASSUME stage = "live" PROVE Told(inPlay)'
  <2>1. CASE inPlay = signature /\ \A i \in DOMAIN calls : ~IsSet(i)
    <3>1. c.kind # "set"
      BY <1>3, <2>1 DEF IsSet
    <3> QED BY <1>1, <1>3, <2>1, <3>1 DEF Told, IsSet
  <2>2. CASE \E i \in DOMAIN calls :
               /\ IsSet(i) /\ calls[i].ids = inPlay
               /\ \A j \in DOMAIN calls : i < j => ~IsSet(j)
    <3>1. PICK i \in DOMAIN calls :
            /\ calls[i].kind = "set" /\ calls[i].ids = inPlay
            /\ \A j \in DOMAIN calls : i < j => calls[j].kind # "set"
      BY <2>2 DEF IsSet
    <3>2. CASE i = 1
      <4>1. inPlay' = signature'
        BY <1>3, <3>1, <3>2
      <4>2. \A j \in DOMAIN calls' : calls'[j].kind # "set"
        BY <1>1, <1>3, <3>1, <3>2
      <4> QED BY <4>1, <4>2 DEF Told, IsSet
    <3>3. CASE i # 1
      <4>1. i - 1 \in DOMAIN calls' /\ calls'[i - 1] = calls[i]
        BY <1>1, <1>3, <3>3
      <4>2. \A j \in DOMAIN calls' : i - 1 < j => calls'[j].kind # "set"
        BY <1>1, <1>3, <3>1
      <4> QED BY <1>3, <3>1, <4>1, <4>2 DEF Told, IsSet
    <3> QED BY <3>2, <3>3
  <2> QED BY <1>6, <2>1, <2>2 DEF FollowInv, Told
<1>7. OneAtATime' /\ (stage' = "live" => stage = "live")
  <2>1. stage = "await" => Len(calls') = 0 /\ calls' = <<>>
    BY <1>1, <1>3, HeadTailProperties, EmptySeq DEF FollowInv, OneAtATime
  <2>2. stage \in {"await", "live"}
    BY <1>1, TypeParts DEF FollowInv, OneAtATime, RuntimeTypes
  <2> QED BY <2>1, <2>2 DEF ReturnCall, OneAtATime
<1> QED BY <1>3, <1>4, <1>5, <1>6, <1>7 DEF FollowInv

(* Every step keeps what was told and applied.                               *)
LEMMA FollowNext ==
  ASSUME TypeOK, smooth => FollowInv, [Next]_vars, smooth'
  PROVE  FollowInv'
<1>0. CASE ResetPage
  <2>1. /\ calls = <<>> /\ DOMAIN calls = {} /\ stage' = "closed" /\ signature' = {}
        /\ desired' = {}
    <3>1. smooth' = (calls = <<>>)
      BY <1>0 DEF ResetPage
    <3>2. calls = <<>>
      BY <3>1, Zenon
    <3> QED BY <1>0, <3>2 DEF ResetPage, Forgotten, NewPage
  <2>2. calls' = <<>>
    <3>1. CASE Straggles
      <4>1. calls' = [i \in {} |-> [calls[i] EXCEPT !.done = TRUE]]
        BY <1>0, <2>1, <3>1 DEF ResetPage
      <4> QED BY <4>1
    <3>2. CASE ~Straggles
      BY <1>0, <2>1, <3>2 DEF ResetPage
    <3> QED BY <3>1, <3>2
  <2> QED BY <2>1, <2>2 DEF FollowInv, InOrder, OneAtATime, Applied
<1> SUFFICES ASSUME ~ResetPage PROVE FollowInv'
  BY <1>0
<1>a. FollowInv
  BY DEF Next, vars, OpenSocket, TrackSocket, ConnectedFrame, CloseSocket, SocketClosed, Drain,
         DrainClosing, Decode, ReloadPage, MissCall, EvaluateCall, ReturnCall, ChangeFixtures,
         Refresh, Start, Reconcile, OpenPage
<1>b. /\ RuntimeTypes
      /\ stage \in {"refresh", "start", "fail", "closed"} => calls = <<>>
      /\ stage = "await" => Len(calls) = 1
  BY <1>a, TypeParts DEF FollowInv, OneAtATime
<1>1. CASE UNCHANGED vars
  BY <1>a, <1>1, CallsAlone DEF vars, page
<1>2. CASE \E s \in Sockets :
             \/ OpenSocket(s) \/ TrackSocket(s) \/ ConnectedFrame(s) \/ CloseSocket(s)
             \/ SocketClosed(s) \/ Drain(s) \/ DrainClosing(s) \/ \E f \in Fixtures : Decode(s, f)
  <2>1. UNCHANGED <<calls, signature, desired, stage, inPlay>>
    BY <1>2 DEF OpenSocket, TrackSocket, ConnectedFrame, CloseSocket, SocketClosed, Drain,
                DrainClosing, Decode
  <2> QED BY <1>a, <2>1, CallsAlone
<1>3. CASE \E ids \in SUBSET Fixtures : ChangeFixtures(ids)
  BY <1>a, <1>3, ChangeFollows
<1>4. CASE \E i \in DOMAIN calls : EvaluateCall(i)
  BY <1>a, <1>4, EvaluateFollows
<1>5. CASE ReturnCall
  BY <1>a, <1>5, ReturnFollows
<1>6. ~ReloadPage /\ ~\E i \in DOMAIN calls : MissCall(i)
  BY DEF ReloadPage, MissCall
<1>7. CASE Refresh
  <2>1. /\ inPlay \in SUBSET Fixtures /\ Sync(inPlay) /\ calls = <<>>
        /\ UNCHANGED <<inPlay, signature, desired>>
        /\ stage' = IF inPlay = signature THEN "start" ELSE "await"
    BY <1>a, <1>b, <1>7, InPlayIsSetOrNull DEF Refresh, page, RuntimeTypes
  <2>2. /\ InOrder' /\ Applied(desired)'
        /\ inPlay # signature => Len(calls') = Len(calls) + 1
        /\ inPlay = signature => calls' = calls
    BY <1>a, <1>b, <2>1, SyncTells
  <2> QED BY <1>a, <2>1, <2>2 DEF FollowInv, OneAtATime
<1>8. CASE Start
  <2>1. /\ inPlay \in SUBSET Fixtures /\ inPlay # Null /\ Sync(inPlay) /\ calls = <<>>
        /\ UNCHANGED <<inPlay, signature, desired>> /\ stage' = "live"
    BY <1>a, <1>b, <1>8, InPlayIsSetOrNull DEF Start, BootstrapReady, page, RuntimeTypes
  <2>2. InOrder' /\ Applied(desired)' /\ \A v : v = inPlay => Told(v)'
    BY <1>a, <1>b, <2>1, SyncTells
  <2>3. Told(inPlay)'
    BY <2>1, <2>2 DEF Told, IsSet
  <2> QED BY <1>a, <2>1, <2>2, <2>3 DEF FollowInv, OneAtATime
<1>9. CASE Reconcile
  <2>1. Pending \in SUBSET Fixtures
    BY <1>a, <1>b, InPlayIsSetOrNull DEF Pending, InPlay, RuntimeTypes
  <2>2. PICK c \in CallType : c = Call("retry", Pending)
    BY <2>1, CallIsTyped
  <2>3. /\ calls' = Append(calls, c) /\ c.kind = "retry" /\ ~c.done
        /\ stage = "live" /\ UNCHANGED <<stage, inPlay, signature, desired>>
    BY <1>9, <2>2 DEF Reconcile, Call, page
  <2>4. /\ Len(calls) \in Nat /\ DOMAIN calls = 1..Len(calls) /\ DOMAIN calls' = 1..(Len(calls) + 1)
        /\ \A i \in 1..Len(calls) : calls'[i] = calls[i]
        /\ calls'[Len(calls) + 1] = c
    BY <2>3, CallAppended
  <2>5. Told(inPlay)'
    BY <1>a, <2>3, <2>4 DEF FollowInv, Told, IsSet
  <2>6. InOrder' /\ Applied(desired)'
    BY <1>a, <1>b, <2>3, AppendedIsNotApplied
  <2> QED BY <1>a, <2>3, <2>5, <2>6 DEF FollowInv, OneAtATime
<1>10. CASE OpenPage
  <2>1. /\ calls = <<>> /\ calls' = calls /\ stage' = "refresh"
        /\ UNCHANGED <<signature, desired>>
    BY <1>b, <1>10 DEF OpenPage, page
  <2> QED BY <1>a, <2>1 DEF FollowInv, InOrder, OneAtATime, Applied, IsSet
<1> QED BY <1>1, <1>2, <1>3, <1>4, <1>5, <1>6, <1>7, <1>8, <1>9, <1>10 DEF Next

(* A page that was told of every change in turn follows them: when all is    *)
(* quiet every usable socket of a live stream is subscribed to the fixtures  *)
(* in play, through closed sockets, refused frames, restarts and fixtures    *)
(* that change while they are being subscribed.                              *)
THEOREM StreamFollowsMetadata == Spec => []SubscribedToMetadata
<1>1. Init => FollowInv
  BY DEF Init, EmptyPage, FollowInv, InOrder, OneAtATime, Applied
<1>2. TypeOK /\ (smooth => FollowInv) /\ [Next]_vars => (smooth => FollowInv)'
  BY FollowNext
<1>3. IInv /\ (smooth => FollowInv) => SubscribedToMetadata
  <2> SUFFICES ASSUME IInv, FollowInv PROVE SubscribedToMetadata
    BY DEF SubscribedToMetadata
  <2>1. ASSUME calls = <<>> PROVE desired = signature
    BY <2>1 DEF FollowInv, Applied
  <2>2. ASSUME stage = "live", Quiet, NEW s \in Sockets, Usable(s)
        PROVE  server[s] = InPlay
    <3>1. inPlay = signature /\ desired = signature /\ inPlay # Null
      BY <2>1, <2>2 DEF FollowInv, Told, Quiet
    <3>2. socket[s].pending = {} /\ server[s] = socket[s].active
          /\ socket[s].active \cup socket[s].pending = desired
      BY <2>2 DEF IInv, SocketInv, Quiet
    <3> QED BY <3>1, <3>2 DEF InPlay
  <2> QED BY <2>1, <2>2 DEF SubscribedToMetadata
<1>4. IInv => TypeOK
  BY DEF IInv
<1>5. Spec => [](smooth => FollowInv)
  BY <1>1, <1>2, <1>4, IInvHolds, PTL DEF Spec
<1> QED BY <1>3, <1>5, IInvHolds, PTL
=============================================================================
