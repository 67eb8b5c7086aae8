--------------------------- MODULE StreamSinkProofs ---------------------------
(***************************************************************************)
(* IInv is an inductive invariant of StreamSink, for any fixtures, prices  *)
(* and bounds, whatever fails and however hellos overlap; TypeOK,          *)
(* NoFalseFreshness, SessionsAdvance and HelloFirst follow.                *)
(*                                                                         *)
(* A frame that names a price vouches for it from the moment it was read.  *)
(* A frame that observes a batch names no price: what it vouches for is    *)
(* what the batch said, and batch numbers are never used twice.  So the    *)
(* invariant follows a batch from the frame that carries it to the store   *)
(* (Sent), and says of the batch that is held that it shows the last look  *)
(* unless a queued operation renews it.                                    *)
(***************************************************************************)
EXTENDS StreamSink, SequenceTheorems, FiniteSetTheorems, TLAPS

-----------------------------------------------------------------------------
(* Types                                                                   *)

PartialOffers == UNION {[fs -> Prices] : fs \in SUBSET Fixtures}

Frames ==
  [t : {"hello", "heartbeat", "response", "snapshot_begin"}]
    \cup [t : {"snapshot_commit"}, at : 1..MaxTime]
    \cup [t : {"quote_remove"}, fixture : Fixtures, at : 1..MaxTime]
    \cup [t : {"quote_upsert_batch"}, snapshot : BOOLEAN, at : 1..MaxTime, vals : PartialOffers]
    \cup [t : {"fixture_market_snapshot"}, fixture : Fixtures, val : Prices, at : 1..MaxTime,
          batch : Nat \ {0}]
    \cup [t : {"fixture_observed_batch"}, items : [Fixtures -> Nat], at : 1..MaxTime]

Answers ==
  {"hello_ack", "duplicate_hello", "unauthorized_source", "stale_session", "invalid_session",
   "internal_error", "rejected"}

Typed ==
  /\ TypeOK
  /\ up \in [Connections -> Seq(Frames)]
  /\ down \in [Connections -> Seq(Answers)]
  /\ queue \in Seq(Operations)
  /\ faults \in 0..MaxFaults

-----------------------------------------------------------------------------
(* Sessions                                                                *)

OnWire(g) == {up[g][i] : i \in DOMAIN up[g]}

(* Nothing of session g went out that numbers a batch.                     *)
NoBatch(g) ==
  /\ \A frame \in OnWire(g) : frame.t # "fixture_market_snapshot"
  /\ \A f \in Fixtures : coherent[f].session # g

LinkFits ==
  /\ cur \in {0, session}
  /\ cur = 0 /\ session # 0 => sock[session] # "connecting"
  /\ ready => cur = session /\ session # 0
  /\ \A g \in Connections : g > session => sock[g] = "none"
  /\ \A g \in Connections :
       sock[g] \in {"none", "connecting"} => up[g] = <<>> /\ peer[g] = "none"
  /\ \A g \in Connections : sock[g] = "open" => peer[g] # "none"
  /\ \A g \in Connections : g \in checked => up[g] # <<>> /\ peer[g] = "open"
  /\ \A g \in Connections : peer[g] = "none" => g \notin Greeted /\ NoBatch(g)
  /\ ready => NoBatch(session)

(* A connection without an accepted hello starts with one.                 *)
HelloLeads ==
  \A g \in Connections :
    /\ g \notin Greeted /\ up[g] # <<>> => Head(up[g]).t = "hello"
    /\ g \notin Greeted /\ g = cur /\ sock[g] = "open" => up[g] # <<>>
    /\ \A i \in DOMAIN down[g] : down[g][i] # "invalid_session"

(* The session that is active, or passed the check, is the newest.         *)
NewestActs ==
  /\ active \in {0, Rival} \/ (greeted # <<>> /\ active = Last(greeted))
  /\ ~Overlap => \A g \in checked : greeted # <<>> /\ g = Last(greeted)
  /\ \A g \in checked : g \in Greeted

-----------------------------------------------------------------------------
(* Prices                                                                  *)

(* The collector's cache is what it saw last.                              *)
CacheFits ==
  /\ boot <= Now
  /\ boot # 0 => latest = truth[Now] /\ Selections(latest) \subseteq known
  /\ boot = 0 => known = {} /\ \A f \in Fixtures : held[f] = 0

(* A price is honest when it was offered at the time given or since.       *)
Honest(f, val, at) == val # 0 => at # 0 /\ OfferedSince(f, val, at)

FramesHonest ==
  \A g \in Connections : \A frame \in OnWire(g) :
    /\ frame.t = "quote_upsert_batch" =>
         \A f \in DOMAIN frame.vals : Honest(f, frame.vals[f], frame.at)
    /\ frame.t = "fixture_market_snapshot" =>
         Honest(frame.fixture, frame.val, frame.at) /\ frame.batch <= batches
    /\ frame.t = "fixture_observed_batch" =>
         \A f \in Fixtures : frame.items[f] <= batches

StoresHonest ==
  \A f \in Fixtures :
    /\ Honest(f, legacy[f].val, legacy[f].at)
    /\ Honest(f, coherent[f].val, coherent[f].at)
    /\ coherent[f].session = 0 <=> coherent[f].batch = 0

(* So is what an operation says of when it was called.                     *)
OperationHonest(op) ==
  /\ op.kind = "bootstrap" => op.at <= Now /\ op.vals = truth[op.at]
  /\ op.kind = "delta" => op.at <= Now /\ op.val = truth[op.at][op.fixture]
  /\ op.kind = "observe" => op.at <= Now /\ \A f \in Fixtures : op.items[f] <= batches

QueueHonest == \A i \in DOMAIN queue : OperationHonest(queue[i])

(* Batch b of fixture f went out on session g and said v.                  *)
Sent(f, b, g, v) ==
  \/ \E frame \in OnWire(g) :
       /\ frame.t = "fixture_market_snapshot"
       /\ frame.fixture = f /\ frame.batch = b /\ frame.val = v
  \/ coherent[f].session = g /\ coherent[f].batch = b /\ coherent[f].val = v

Renews(op, f) == f \in Renewed(op)

(* The batch that is held shows the last look, or will be renewed.         *)
ShowsLast(f) ==
  \/ truth[Now][f] = 0
  \/ \E j \in DOMAIN queue : Renews(queue[j], f)
  \/ \A v \in Prices : Sent(f, held[f], session, v) => v = truth[Now][f]

HeldShowsLast == Connected => \A f \in Fixtures : ShowsLast(f)

(* What a queued observation vouches for was offered when it was made, or  *)
(* the batch is renewed before it is sent.                                 *)
Vouches(i, f) ==
  \/ queue[i].items[f] = 0 \/ queue[i].items[f] # held[f]
  \/ f \in known /\ \E j \in 1..(i - 1) : Renews(queue[j], f)
  \/ \A v \in Prices \ {0} : Sent(f, held[f], session, v) => OfferedSince(f, v, queue[i].at)

ObservationsHonest ==
  Connected => \A i \in DOMAIN queue : queue[i].kind = "observe" =>
                 \A f \in Fixtures : Vouches(i, f)

(* So did one that was sent.                                               *)
Vouched(g, frame, f) ==
  frame.items[f] # 0 =>
    \A v \in Prices \ {0} : Sent(f, frame.items[f], g, v) => OfferedSince(f, v, frame.at)

ObservedHonest ==
  \A g \in Connections : \A frame \in OnWire(g) :
    frame.t = "fixture_observed_batch" => \A f \in Fixtures : Vouched(g, frame, f)

PricesFit ==
  /\ FramesHonest /\ StoresHonest /\ QueueHonest
  /\ HeldShowsLast /\ ObservationsHonest /\ ObservedHonest

IInv == Typed /\ LinkFits /\ NewestActs /\ CacheFits /\ PricesFit

Bounds == StreamBounds /\ SinkBounds

-----------------------------------------------------------------------------
(* Sequences                                                               *)

(* What a non-empty sequence is made of.                                   *)
LEMMA Taken ==
  ASSUME NEW S, NEW s \in Seq(S), s # <<>>
  PROVE  /\ Tail(s) \in Seq(S) /\ Head(s) \in S /\ Head(s) = s[1]
         /\ Len(s) \in Nat /\ 1 \in 1..Len(s) /\ Len(Tail(s)) = Len(s) - 1
         /\ DOMAIN s = 1..Len(s) /\ DOMAIN Tail(s) = 1..Len(Tail(s))
         /\ \A i \in 1..Len(Tail(s)) : Tail(s)[i] = s[i + 1] /\ i + 1 \in 2..Len(s)
  BY HeadTailProperties, EmptySeq, LenProperties

(* Appending an element adds one place at the end.                         *)
LEMMA Appended ==
  ASSUME NEW S, NEW s \in Seq(S), NEW e \in S
  PROVE  /\ Append(s, e) \in Seq(S) /\ Append(s, e) # <<>>
         /\ Len(Append(s, e)) = Len(s) + 1 /\ Len(s) \in Nat
         /\ DOMAIN s = 1..Len(s) /\ DOMAIN Append(s, e) = 1..(Len(s) + 1)
         /\ \A i \in 1..Len(s) : Append(s, e)[i] = s[i]
         /\ Append(s, e)[Len(s) + 1] = e
  BY AppendProperties, LenProperties

(* The elements of a concatenation come from either part.                  *)
LEMMA Joined ==
  ASSUME NEW S, NEW s \in Seq(S), NEW t \in Seq(S)
  PROVE  /\ s \o t \in Seq(S)
         /\ \A e : (\E i \in DOMAIN (s \o t) : (s \o t)[i] = e) =>
                     \/ \E i \in DOMAIN s : s[i] = e
                     \/ \E i \in DOMAIN t : t[i] = e
<1>1. /\ s \o t \in Seq(S) /\ Len(s \o t) = Len(s) + Len(t)
      /\ \A i \in 1..Len(s) + Len(t) :
           (s \o t)[i] = IF i <= Len(s) THEN s[i] ELSE t[i - Len(s)]
  BY ConcatProperties
<1>2. /\ DOMAIN s = 1..Len(s) /\ DOMAIN t = 1..Len(t) /\ DOMAIN (s \o t) = 1..Len(s \o t)
      /\ Len(s) \in Nat /\ Len(t) \in Nat
  BY <1>1, LenProperties
<1> QED BY <1>1, <1>2

(* The same for three sequences in a row.                                  *)
LEMMA ThreeJoined ==
  ASSUME NEW S, NEW s \in Seq(S), NEW t \in Seq(S), NEW u \in Seq(S)
  PROVE  /\ (s \o t) \o u \in Seq(S)
         /\ \A e : (\E i \in DOMAIN ((s \o t) \o u) : ((s \o t) \o u)[i] = e) =>
                     \/ \E i \in DOMAIN s : s[i] = e
                     \/ \E i \in DOMAIN t : t[i] = e
                     \/ \E i \in DOMAIN u : u[i] = e
<1>1. s \o t \in Seq(S)
  BY Joined
<1>2. (s \o t) \o u \in Seq(S)
  BY <1>1, Joined
<1>3. ASSUME NEW e, \E i \in DOMAIN ((s \o t) \o u) : ((s \o t) \o u)[i] = e
      PROVE  \/ \E i \in DOMAIN s : s[i] = e
             \/ \E i \in DOMAIN t : t[i] = e
             \/ \E i \in DOMAIN u : u[i] = e
  <2> DEFINE st == s \o t
  <2>1. st \in Seq(S) /\ \E i \in DOMAIN (st \o u) : (st \o u)[i] = e
    BY <1>1, <1>3
  <2> HIDE DEF st
  <2>2. (\E i \in DOMAIN st : st[i] = e) \/ \E i \in DOMAIN u : u[i] = e
    BY <2>1, Joined
  <2>3. (\E i \in DOMAIN st : st[i] = e) =>
          (\E i \in DOMAIN s : s[i] = e) \/ \E i \in DOMAIN t : t[i] = e
    BY Joined DEF st
  <2> QED BY <2>2, <2>3
<1> QED BY <1>2, <1>3

(* What comes first stays first.                                           *)
LEMMA HeadKept ==
  ASSUME NEW S, NEW s \in Seq(S), NEW t \in Seq(S), s # <<>>
  PROVE  s \o t \in Seq(S) /\ s \o t # <<>> /\ Head(s \o t) = Head(s)
<1>1. s \o t \in Seq(S) /\ Len(s \o t) = Len(s) + Len(t) /\ Len(s) \in Nat /\ Len(t) \in Nat
      /\ \A i \in 1..Len(s) + Len(t) :
           (s \o t)[i] = IF i <= Len(s) THEN s[i] ELSE t[i - Len(s)]
  BY ConcatProperties, LenProperties
<1>2. Len(s) # 0 /\ Head(s) = s[1]
  BY Taken
<1>3. s \o t # <<>>
  BY <1>1, <1>2, EmptySeq
<1>4. Head(s \o t) = (s \o t)[1]
  BY <1>1, <1>3, Taken
<1> QED BY <1>1, <1>2, <1>3, <1>4

(* A finite set is numbered without gaps.                                  *)
LEMMA Numbering ==
  ASSUME NEW S, IsFiniteSet(S)
  PROVE  /\ Cardinality(S) \in Nat
         /\ SetToSeq(S) \in [1..Cardinality(S) -> S]
         /\ \A x \in S : \E i \in 1..Cardinality(S) : SetToSeq(S)[i] = x
<1> DEFINE n == Cardinality(S)
<1>1. n \in Nat /\ ExistsBijection(1..n, S)
  BY FS_CardinalityType
<1>2. \E f \in [1..n -> S] : IsInjective(f)
  BY <1>1 DEF ExistsBijection, Bijection, Injection
<1>3. SetToSeq(S) \in [1..n -> S] /\ IsInjective(SetToSeq(S))
  BY <1>2 DEF SetToSeq
<1>4. SetToSeq(S) \in Injection(1..n, S)
  BY <1>3 DEF Injection
<1>5. Cardinality(1..n) = n
  BY <1>1, FS_Interval
<1>6. SetToSeq(S) \in Surjection(1..n, S)
  BY <1>4, <1>5, FS_Injection
<1> QED BY <1>1, <1>3, <1>6 DEF Surjection

-----------------------------------------------------------------------------
(* The wire                                                                *)

(* Two runs of frames s and t are sent on connection g.                    *)
Sends(g, s, t) ==
  /\ up' \in [Connections -> Seq(Frames)]
  /\ \A h \in Connections \ {g} : up'[h] = up[h]
  /\ up[g] # <<>> => up'[g] # <<>> /\ Head(up'[g]) = Head(up[g])
  /\ \A h \in Connections : \A frame \in OnWire(h)' :
       \/ frame \in OnWire(h)
       \/ h = g /\ \E i \in DOMAIN s : s[i] = frame
       \/ h = g /\ \E i \in DOMAIN t : t[i] = frame

(* That is what becomes of the wire.                                       *)
LEMMA WireGrows ==
  ASSUME Typed, NEW g \in Connections, NEW s \in Seq(Frames), NEW t \in Seq(Frames),
         up' = [h \in Connections |-> IF h = g THEN (up[g] \o s) \o t ELSE up[h]]
  PROVE  Sends(g, s, t)
<1>1. up[g] \in Seq(Frames) /\ up'[g] = (up[g] \o s) \o t
  BY DEF Typed
<1>2. (up[g] \o s) \o t \in Seq(Frames)
  BY <1>1, ThreeJoined
<1>3. up' \in [Connections -> Seq(Frames)] /\ \A h \in Connections \ {g} : up'[h] = up[h]
  BY <1>2 DEF Typed
<1>4. ASSUME NEW frame \in OnWire(g)'
      PROVE  frame \in OnWire(g) \/ (\E i \in DOMAIN s : s[i] = frame)
             \/ \E i \in DOMAIN t : t[i] = frame
  <2>1. \E i \in DOMAIN ((up[g] \o s) \o t) : ((up[g] \o s) \o t)[i] = frame
    BY <1>1, <1>4 DEF OnWire
  <2> QED BY <1>1, <2>1, ThreeJoined DEF OnWire
<1>5. ASSUME up[g] # <<>>
      PROVE  up'[g] # <<>> /\ Head(up'[g]) = Head(up[g])
  <2>1. up[g] \o s \in Seq(Frames) /\ up[g] \o s # <<>> /\ Head(up[g] \o s) = Head(up[g])
    BY <1>1, <1>5, HeadKept
  <2> QED BY <1>1, <2>1, HeadKept
<1>6. \A h \in Connections \ {g} : OnWire(h)' = OnWire(h)
  BY <1>3 DEF OnWire
<1> QED BY <1>3, <1>4, <1>5, <1>6 DEF Sends

(* The first frame of a connection is taken.                               *)
LEMMA WireShrinks ==
  ASSUME Typed, NEW g \in Connections, up[g] # <<>>, up' = [up EXCEPT ![g] = Tail(@)]
  PROVE  /\ up' \in [Connections -> Seq(Frames)]
         /\ Head(up[g]) \in Frames /\ Head(up[g]) \in OnWire(g)
         /\ \A h \in Connections : OnWire(h)' \subseteq OnWire(h)
<1>1. up[g] \in Seq(Frames) /\ up'[g] = Tail(up[g])
  BY DEF Typed
<1>2. /\ Tail(up[g]) \in Seq(Frames) /\ Head(up[g]) \in Frames /\ Head(up[g]) = up[g][1]
      /\ 1 \in DOMAIN up[g] /\ Len(up[g]) \in Nat
      /\ DOMAIN up[g] = 1..Len(up[g]) /\ DOMAIN Tail(up[g]) = 1..Len(Tail(up[g]))
      /\ \A i \in 1..Len(Tail(up[g])) : Tail(up[g])[i] = up[g][i + 1] /\ i + 1 \in 2..Len(up[g])
  BY <1>1, Taken
<1>3. up' \in [Connections -> Seq(Frames)] /\ \A h \in Connections \ {g} : up'[h] = up[h]
  BY <1>2 DEF Typed
<1>4. OnWire(g)' \subseteq OnWire(g)
  BY <1>1, <1>2 DEF OnWire
<1> QED BY <1>2, <1>3, <1>4 DEF OnWire

(* One frame joins a connection.                                           *)
LEMMA WireAppended ==
  ASSUME Typed, NEW g \in Connections, NEW e \in Frames,
         up' = [up EXCEPT ![g] = Append(@, e)]
  PROVE  /\ up' \in [Connections -> Seq(Frames)]
         /\ \A h \in Connections : \A frame \in OnWire(h)' : frame \in OnWire(h) \/ frame = e
<1>1. up[g] \in Seq(Frames) /\ up'[g] = Append(up[g], e)
  BY DEF Typed
<1>2. /\ Append(up[g], e) \in Seq(Frames) /\ Len(up[g]) \in Nat
      /\ DOMAIN up[g] = 1..Len(up[g]) /\ DOMAIN Append(up[g], e) = 1..(Len(up[g]) + 1)
      /\ \A i \in 1..Len(up[g]) : Append(up[g], e)[i] = up[g][i]
      /\ Append(up[g], e)[Len(up[g]) + 1] = e
  BY <1>1, Appended
<1>3. up' \in [Connections -> Seq(Frames)] /\ \A h \in Connections \ {g} : up'[h] = up[h]
  BY <1>2 DEF Typed
<1>4. \A frame \in OnWire(g)' : frame \in OnWire(g) \/ frame = e
  BY <1>1, <1>2 DEF OnWire
<1> QED BY <1>3, <1>4 DEF OnWire

(* The answers under way to a connection grow by known ones.               *)
LEMMA AnswersGrow ==
  ASSUME Typed, NEW g \in Connections, NEW s \in Seq(Answers), Reply(g, s)
  PROVE  /\ down' \in [Connections -> Seq(Answers)]
         /\ \A h \in Connections : \A i \in DOMAIN down'[h] :
              \/ \E j \in DOMAIN down[h] : down[h][j] = down'[h][i]
              \/ \E j \in DOMAIN s : s[j] = down'[h][i]
<1>1. down[g] \in Seq(Answers) /\ down'[g] = down[g] \o s
  BY DEF Typed, Reply
<1>2. down[g] \o s \in Seq(Answers)
  BY <1>1, Joined
<1>3. down' \in [Connections -> Seq(Answers)] /\ \A h \in Connections \ {g} : down'[h] = down[h]
  BY <1>2 DEF Typed, Reply
<1>4. \A i \in DOMAIN down'[g] :
        \/ \E j \in DOMAIN down[g] : down[g][j] = down'[g][i]
        \/ \E j \in DOMAIN s : s[j] = down'[g][i]
  <2> SUFFICES ASSUME NEW i \in DOMAIN (down[g] \o s)
               PROVE  \/ \E j \in DOMAIN down[g] : down[g][j] = (down[g] \o s)[i]
                      \/ \E j \in DOMAIN s : s[j] = (down[g] \o s)[i]
    BY <1>1
  <2> DEFINE e == (down[g] \o s)[i]
  <2>1. \E j \in DOMAIN (down[g] \o s) : (down[g] \o s)[j] = e
    OBVIOUS
  <2> HIDE DEF e
  <2>2. (\E j \in DOMAIN down[g] : down[g][j] = e) \/ \E j \in DOMAIN s : s[j] = e
    BY <1>1, <2>1, Joined
  <2> QED BY <2>2 DEF e
<1> QED BY <1>3, <1>4

(* Taking an answer off a connection leaves only answers it had.           *)
LEMMA AnswersTaken ==
  ASSUME Typed, NEW g \in Connections, down[g] # <<>>, down' = [down EXCEPT ![g] = Tail(@)]
  PROVE  /\ down' \in [Connections -> Seq(Answers)]
         /\ \A h \in Connections : \A i \in DOMAIN down'[h] :
              \E j \in DOMAIN down[h] : down[h][j] = down'[h][i]
<1>1. down[g] \in Seq(Answers) /\ down'[g] = Tail(down[g])
  BY DEF Typed
<1>2. /\ Tail(down[g]) \in Seq(Answers) /\ Len(down[g]) \in Nat
      /\ DOMAIN down[g] = 1..Len(down[g]) /\ DOMAIN Tail(down[g]) = 1..Len(Tail(down[g]))
      /\ \A i \in 1..Len(Tail(down[g])) :
           Tail(down[g])[i] = down[g][i + 1] /\ i + 1 \in 2..Len(down[g])
  BY <1>1, Taken
<1>3. down' \in [Connections -> Seq(Answers)] /\ \A h \in Connections \ {g} : down'[h] = down[h]
  BY <1>2 DEF Typed
<1>4. ASSUME NEW i \in DOMAIN down'[g]
      PROVE  \E j \in DOMAIN down[g] : down[g][j] = down'[g][i]
  <2>1. i + 1 \in 2..Len(down[g]) /\ down[g][i + 1] = down'[g][i]
    BY <1>1, <1>2
  <2>2. i + 1 \in DOMAIN down[g]
    BY <1>2, <2>1
  <2> QED BY <2>1, <2>2
<1> QED BY <1>3, <1>4

-----------------------------------------------------------------------------
(* The frames of an operation                                              *)

(* The frames of a snapshot: what they price is what was read.             *)
LEMMA SnapshotFrameFacts ==
  ASSUME Bounds, NEW vals \in Offer, NEW at \in 1..MaxTime
  PROVE  /\ SnapshotFrames(vals, at) \in Seq(Frames)
         /\ \A frame : (\E i \in DOMAIN SnapshotFrames(vals, at) :
                          SnapshotFrames(vals, at)[i] = frame) =>
              \/ frame.t \in {"snapshot_begin", "snapshot_commit"}
              \/ /\ frame.t = "quote_upsert_batch" /\ frame.at = at
                 /\ DOMAIN frame.vals \subseteq Fixtures
                 /\ \A f \in DOMAIN frame.vals : frame.vals[f] = vals[f]
<1> DEFINE some == Selections(vals)
           upsert == [t |-> "quote_upsert_batch", snapshot |-> TRUE, at |-> at,
                      vals |-> [f \in some |-> vals[f]]]
           begin == <<[t |-> "snapshot_begin"]>>
           middle == IF some = {} THEN <<>> ELSE <<upsert>>
           commit == <<[t |-> "snapshot_commit", at |-> at]>>
<1>1. some \in SUBSET Fixtures /\ [f \in some |-> vals[f]] \in [some -> Prices]
  BY DEF Selections, Offer
<1>2. upsert \in Frames /\ upsert.t = "quote_upsert_batch" /\ upsert.at = at
      /\ DOMAIN upsert.vals = some /\ \A f \in some : upsert.vals[f] = vals[f]
  BY <1>1 DEF Frames, PartialOffers
<1>3. begin \in Seq(Frames) /\ \A frame : (\E i \in DOMAIN begin : begin[i] = frame) =>
                                 frame = [t |-> "snapshot_begin"]
  <2>1. [t |-> "snapshot_begin"] \in Frames
    BY DEF Frames
  <2> QED BY <2>1
<1>4. commit \in Seq(Frames) /\ \A frame : (\E i \in DOMAIN commit : commit[i] = frame) =>
                                  frame = [t |-> "snapshot_commit", at |-> at]
  <2>1. [t |-> "snapshot_commit", at |-> at] \in Frames
    BY DEF Frames
  <2> QED BY <2>1
<1> HIDE DEF upsert
<1>5. middle \in Seq(Frames) /\ \A frame : (\E i \in DOMAIN middle : middle[i] = frame) =>
                                  frame = upsert
  BY <1>2
<1>6. SnapshotFrames(vals, at) = (begin \o middle) \o commit
  BY DEF SnapshotFrames, upsert
<1> HIDE DEF begin, middle, commit, some
<1>7. SnapshotFrames(vals, at) \in Seq(Frames)
  BY <1>3, <1>4, <1>5, <1>6, ThreeJoined
<1>8. ASSUME NEW frame, \E i \in DOMAIN SnapshotFrames(vals, at) :
                          SnapshotFrames(vals, at)[i] = frame
      PROVE  frame = [t |-> "snapshot_begin"] \/ frame = [t |-> "snapshot_commit", at |-> at]
             \/ frame = upsert
  <2>1. \E i \in DOMAIN ((begin \o middle) \o commit) : ((begin \o middle) \o commit)[i] = frame
    BY <1>6, <1>8
  <2>2. \/ \E i \in DOMAIN begin : begin[i] = frame
        \/ \E i \in DOMAIN middle : middle[i] = frame
        \/ \E i \in DOMAIN commit : commit[i] = frame
    BY <1>3, <1>4, <1>5, <2>1, ThreeJoined
  <2> QED BY <1>3, <1>4, <1>5, <2>2
<1>9. ASSUME NEW frame, \E i \in DOMAIN SnapshotFrames(vals, at) :
                          SnapshotFrames(vals, at)[i] = frame
      PROVE  \/ frame.t \in {"snapshot_begin", "snapshot_commit"}
             \/ /\ frame.t = "quote_upsert_batch" /\ frame.at = at
                /\ DOMAIN frame.vals \subseteq Fixtures
                /\ \A f \in DOMAIN frame.vals : frame.vals[f] = vals[f]
  <2>1. CASE frame = [t |-> "snapshot_begin"] \/ frame = [t |-> "snapshot_commit", at |-> at]
    BY <2>1
  <2>2. CASE frame = upsert
    BY <1>1, <1>2, <2>2
  <2> QED BY <1>8, <1>9, <2>1, <2>2
<1> QED BY <1>7, <1>9

(* Batches numbered up to sent, and what they become when the fixtures of  *)
(* S get new numbers and the others keep theirs.                           *)
Fits(old, sent) == old \in [Fixtures -> 0..sent]

Numbered(after, old, S, sent) ==
  /\ Cardinality(S) \in Nat
  /\ after \in [Fixtures -> 0..(sent + Cardinality(S))]
  /\ \A f \in Fixtures : (f \in S => sent < after[f]) /\ (f \notin S => after[f] = old[f])

(* That is what the batches that are held become.                          *)
LEMMA HeldAfterFacts ==
  ASSUME Bounds, Typed, NEW fs, NEW sent \in Nat, NEW old, Fits(old, sent)
  PROVE  Numbered(HeldAfter(old, fs, sent), old, fs \cap known, sent)
<1> DEFINE S == fs \cap known
           after == HeldAfter(old, fs, sent)
           order == SetToSeq(S)
           place(f) == CHOOSE i \in DOMAIN order : order[i] = f
<1>1. IsFiniteSet(S)
  BY FS_Subset DEF Bounds, StreamBounds, Typed, TypeOK
<1>a. after = [f \in Fixtures |-> IF f \in S THEN sent + place(f) ELSE old[f]]
  BY DEF HeldAfter
<1> HIDE DEF S, after
<1> DEFINE n == Cardinality(S)
<1>2. n \in Nat /\ order \in [1..n -> S] /\ \A f \in S : \E i \in 1..n : order[i] = f
  BY <1>1, Numbering
<1> HIDE DEF n
<1>3. \A f \in S : place(f) \in 1..n
  BY <1>2
<1> HIDE DEF place
<1>4. after = [f \in Fixtures |-> IF f \in S THEN sent + place(f) ELSE old[f]]
  BY <1>a
<1>5. ASSUME NEW f \in Fixtures
      PROVE  /\ after[f] \in 0..(sent + n)
             /\ (f \in S => sent < after[f]) /\ (f \notin S => after[f] = old[f])
  <2>1. CASE f \in S
    <3>1. after[f] = sent + place(f) /\ place(f) \in 1..n
      BY <1>3, <1>4, <2>1
    <3> QED BY <1>2, <2>1, <3>1
  <2>2. CASE f \notin S
    <3>1. after[f] = old[f] /\ old[f] \in 0..sent
      BY <1>4, <2>2 DEF Fits
    <3> QED BY <1>2, <2>2, <3>1
  <2> QED BY <2>1, <2>2
<1>6. after \in [Fixtures -> 0..(sent + n)]
  BY <1>4, <1>5
<1>7. Numbered(after, old, S, sent)
  BY <1>2, <1>5, <1>6 DEF n, Numbered
<1> QED BY <1>7 DEF after, S

(* What an operation consists of, by its kind.                             *)
LEMMA OperationFacts ==
  ASSUME NEW op \in Operations
  PROVE  /\ op.kind \in {"bootstrap", "delta", "observe", "heartbeat", "response"}
         /\ op.kind = "bootstrap" => op.vals \in Offer /\ op.at \in 1..MaxTime
         /\ op.kind = "delta" =>
              op.fixture \in Fixtures /\ op.val \in Prices /\ op.at \in 1..MaxTime
         /\ op.kind = "observe" => op.items \in [Fixtures -> Nat] /\ op.at \in 1..MaxTime
  BY DEF Operations

(* The head of the queue.                                                  *)
LEMMA HeadFacts ==
  ASSUME Typed, QueueHonest, queue # <<>>
  PROVE  /\ Head(queue) \in Operations /\ OperationHonest(Head(queue))
         /\ Head(queue) = queue[1] /\ 1 \in DOMAIN queue
<1>1. Head(queue) \in Operations /\ Head(queue) = queue[1] /\ 1 \in DOMAIN queue
  BY Taken DEF Typed
<1> QED BY <1>1 DEF QueueHonest

(* What was read at a moment is honest when it is dated then, or earlier.  *)
LEMMA ReadIsHonest ==
  ASSUME Typed, NEW f \in Fixtures, NEW at \in 1..MaxTime, NEW t \in at..Now
  PROVE  Honest(f, truth[t][f], at)
<1>1. OfferedSince(f, truth[t][f], at)
  BY DEF OfferedSince
<1> QED BY <1>1 DEF Honest

(* The batches an operation numbers and the ones that are held after it.   *)
LEMMA NumbersGrow ==
  ASSUME Bounds, Typed, NEW op \in Operations, Perform(op),
         NEW replayed, replayed = (IF ReplayNeeded(op) THEN known ELSE {}),
         NEW now, now = HeldAfter(held, replayed, batches),
         NEW sent, sent = batches + Cardinality(replayed)
  PROVE  /\ sent \in Nat /\ batches <= sent /\ sent <= batches' /\ batches' \in Nat
         /\ Cardinality(Renewed(op) \cap known) \in Nat
         /\ batches' = sent + Cardinality(Renewed(op) \cap known)
         /\ held' \in [Fixtures -> 0..batches'] /\ now \in [Fixtures -> 0..sent]
         /\ \A f \in Fixtures :
              /\ held'[f] = held[f] \/ (f \in known /\ batches < held'[f])
              /\ f \in Renewed(op) \cap known => batches < held'[f]
              /\ Renewed(op) = {} => held'[f] = now[f]
<1>1. held \in [Fixtures -> 0..batches] /\ batches \in Nat
  BY DEF Typed, TypeOK
<1>2. replayed = replayed \cap known
  OBVIOUS
<1>3. /\ Cardinality(replayed) \in Nat
      /\ now \in [Fixtures -> 0..(batches + Cardinality(replayed))]
      /\ \A f \in Fixtures :
           (f \in replayed => batches < now[f]) /\ (f \notin replayed => now[f] = held[f])
  <2>1. Fits(held, batches)
    BY <1>1 DEF Fits
  <2>2. Numbered(HeldAfter(held, replayed, batches), held, replayed \cap known, batches)
    BY <1>1, <2>1, HeldAfterFacts
  <2>3. Numbered(now, held, replayed, batches)
    BY <1>2, <2>2
  <2> QED BY <2>3 DEF Numbered
<1>4. sent \in Nat /\ batches <= sent /\ now \in [Fixtures -> 0..sent]
  BY <1>1, <1>3
<1>5. /\ held' = HeldAfter(now, Renewed(op), sent)
      /\ batches' = sent + Cardinality(Renewed(op) \cap known)
  BY DEF Perform
<1> DEFINE own == Renewed(op) \cap known
<1>6. /\ Cardinality(own) \in Nat
      /\ held' \in [Fixtures -> 0..(sent + Cardinality(own))]
      /\ \A f \in Fixtures :
           (f \in own => sent < held'[f]) /\ (f \notin own => held'[f] = now[f])
  <2>1. Fits(now, sent)
    BY <1>4 DEF Fits
  <2>2. Numbered(HeldAfter(now, Renewed(op), sent), now, own, sent)
    BY <1>4, <2>1, HeldAfterFacts
  <2>3. Numbered(held', now, own, sent)
    BY <1>5, <2>2
  <2> QED BY <2>3 DEF Numbered
<1>7. sent <= batches' /\ batches' \in Nat /\ held' \in [Fixtures -> 0..batches']
  <2>1. PICK n \in Nat : n = Cardinality(own)
    BY <1>6
  <2>2. batches' = sent + n /\ held' \in [Fixtures -> 0..(sent + n)]
    BY <1>5, <1>6, <2>1
  <2> QED BY <1>4, <2>2
<1>8. ASSUME NEW f \in Fixtures
      PROVE  /\ held'[f] = held[f] \/ (f \in known /\ batches < held'[f])
             /\ f \in own => batches < held'[f]
             /\ Renewed(op) = {} => held'[f] = now[f]
  <2>1. held'[f] \in Nat /\ now[f] \in Nat /\ (f \in replayed => f \in known)
    BY <1>2, <1>4, <1>7
  <2>2. CASE f \in own
    <3>1. batches < held'[f]
      BY <1>1, <1>4, <1>6, <2>1, <2>2
    <3> QED BY <2>2, <3>1
  <2>3. CASE f \notin own
    <3>1. held'[f] = now[f]
      BY <1>6, <2>3
    <3> QED BY <1>3, <2>1, <2>3, <3>1
  <2> QED BY <2>2, <2>3
<1> QED BY <1>4, <1>5, <1>6, <1>7, <1>8

(* A frame that names prices, numbered from low + 1 to high, and what it    *)
(* says of them now.                                                       *)
Priced(frame, low, high) ==
  /\ frame.t # "fixture_observed_batch"
  /\ frame.t = "quote_upsert_batch" =>
       \A f \in DOMAIN frame.vals : Honest(f, frame.vals[f], frame.at)
  /\ frame.t = "fixture_market_snapshot" =>
       /\ Honest(frame.fixture, frame.val, frame.at)
       /\ frame.val = latest[frame.fixture] /\ frame.fixture \in known
       /\ frame.batch \in (low + 1)..high

AllPriced(s, low, high) ==
  /\ s \in Seq(Frames)
  /\ \A frame : (\E i \in DOMAIN s : s[i] = frame) => Priced(frame, low, high)

(* Numbers in a narrower range are in a wider one.                         *)
LEMMA PricedWidens ==
  ASSUME NEW s, NEW low \in Nat, NEW high \in Nat, NEW low1 \in Nat, NEW high1 \in Nat,
         low1 <= low, high <= high1, AllPriced(s, low, high)
  PROVE  AllPriced(s, low1, high1)
<1>1. (low + 1)..high \subseteq (low1 + 1)..high1
  OBVIOUS
<1> QED BY <1>1 DEF AllPriced, Priced

(* Two runs of such frames make one.                                       *)
LEMMA PricedJoined ==
  ASSUME NEW s, NEW t, NEW low, NEW high, AllPriced(s, low, high), AllPriced(t, low, high)
  PROVE  AllPriced(s \o t, low, high)
<1>1. /\ s \in Seq(Frames) /\ \A frame : (\E i \in DOMAIN s : s[i] = frame) => Priced(frame, low, high)
      /\ t \in Seq(Frames) /\ \A frame : (\E i \in DOMAIN t : t[i] = frame) => Priced(frame, low, high)
  BY DEF AllPriced
<1>2. s \o t \in Seq(Frames)
  BY <1>1, Joined
<1>3. ASSUME NEW frame, \E i \in DOMAIN (s \o t) : (s \o t)[i] = frame
      PROVE  Priced(frame, low, high)
  <2>1. (\E i \in DOMAIN s : s[i] = frame) \/ \E i \in DOMAIN t : t[i] = frame
    BY <1>1, <1>3, Joined
  <2> QED BY <1>1, <2>1
<1> QED BY <1>2, <1>3 DEF AllPriced

(* What is in the cache is what is offered now.                            *)
LEMMA CacheIsHonest ==
  ASSUME Bounds, Typed, CacheFits, NEW at \in 1..MaxTime, at <= Now, NEW f \in known
  PROVE  Honest(f, latest[f], at)
<1>1. boot # 0 /\ latest = truth[Now] /\ Now \in Nat /\ Now \in at..Now
  BY DEF CacheFits, Typed, TypeOK, Bounds, SinkBounds
<1> QED BY <1>1 DEF Honest, OfferedSince

(* The frames of a snapshot of what was read.                              *)
LEMMA SnapshotIsPriced ==
  ASSUME Bounds, Typed, NEW vals \in Offer, NEW at \in 1..MaxTime, NEW low, NEW high,
         \A f \in Fixtures : Honest(f, vals[f], at)
  PROVE  AllPriced(SnapshotFrames(vals, at), low, high)
<1>1. SnapshotFrames(vals, at) \in Seq(Frames)
  BY SnapshotFrameFacts
<1>2. ASSUME NEW frame, \E i \in DOMAIN SnapshotFrames(vals, at) :
                          SnapshotFrames(vals, at)[i] = frame
      PROVE  Priced(frame, low, high)
  <2>1. \/ frame.t \in {"snapshot_begin", "snapshot_commit"}
        \/ /\ frame.t = "quote_upsert_batch" /\ frame.at = at
           /\ DOMAIN frame.vals \subseteq Fixtures
           /\ \A f \in DOMAIN frame.vals : frame.vals[f] = vals[f]
    BY <1>2, SnapshotFrameFacts
  <2> QED BY <2>1 DEF Priced
<1> QED BY <1>1, <1>2 DEF AllPriced

(* A new batch for each fixture with metadata, numbered on.                *)
LEMMA FixturesArePriced ==
  ASSUME Bounds, Typed, CacheFits, NEW fs, NEW at \in 1..MaxTime, at <= Now, NEW sent \in Nat
  PROVE  AllPriced(FixtureFrames(fs, at, sent), sent, sent + Cardinality(fs \cap known))
<1> DEFINE n == Cardinality(fs \cap known)
           order == SetToSeq(fs \cap known)
<1>1. IsFiniteSet(fs \cap known)
  BY FS_Subset DEF Bounds, StreamBounds, Typed, TypeOK
<1>2. n \in Nat /\ order \in [1..n -> fs \cap known]
  BY <1>1, Numbering
<1> HIDE DEF n, order
<1>3. FixtureFrames(fs, at, sent) = [i \in 1..n |-> FixtureFrame(order[i], at, sent + i)]
  BY <1>2 DEF FixtureFrames, order
<1>4. \A i \in 1..n : FixtureFrame(order[i], at, sent + i) \in Frames
  <2> SUFFICES ASSUME NEW i \in 1..n PROVE FixtureFrame(order[i], at, sent + i) \in Frames
    OBVIOUS
  <2>1. order[i] \in Fixtures /\ latest[order[i]] \in Prices /\ sent + i \in Nat \ {0}
    BY <1>2 DEF Typed, TypeOK, Offer
  <2> QED BY <2>1 DEF FixtureFrame, Frames
<1>5. [i \in 1..n |-> FixtureFrame(order[i], at, sent + i)] \in Seq(Frames)
  BY <1>2, <1>4
<1>6. ASSUME NEW i \in 1..n
      PROVE  /\ FixtureFrame(order[i], at, sent + i).t = "fixture_market_snapshot"
             /\ FixtureFrame(order[i], at, sent + i).fixture = order[i]
             /\ FixtureFrame(order[i], at, sent + i).val = latest[order[i]]
             /\ FixtureFrame(order[i], at, sent + i).at = at
             /\ FixtureFrame(order[i], at, sent + i).batch = sent + i
             /\ sent + i \in (sent + 1)..(sent + n)
  BY <1>2 DEF FixtureFrame
<1>7. ASSUME NEW frame, \E i \in DOMAIN FixtureFrames(fs, at, sent) :
                          FixtureFrames(fs, at, sent)[i] = frame
      PROVE  Priced(frame, sent, sent + n)
  <2>1. PICK i \in 1..n : frame = FixtureFrame(order[i], at, sent + i)
    BY <1>3, <1>7
  <2>2. /\ frame.t = "fixture_market_snapshot"
        /\ frame.fixture \in known
        /\ frame.val = latest[frame.fixture] /\ frame.at = at
        /\ frame.batch \in (sent + 1)..(sent + n)
    BY <1>2, <1>6, <2>1
  <2>3. Honest(frame.fixture, frame.val, frame.at)
    BY <2>2, CacheIsHonest
  <2> QED BY <2>2, <2>3 DEF Priced
<1>8. FixtureFrames(fs, at, sent) \in Seq(Frames)
  BY <1>3, <1>5
<1>9. AllPriced(FixtureFrames(fs, at, sent), sent, sent + n)
  BY <1>7, <1>8 DEF AllPriced
<1> QED BY <1>9 DEF n

(* A replay: the whole market as it is now.                                *)
LEMMA ReplayIsPriced ==
  ASSUME Bounds, Typed, CacheFits, boot # 0
  PROVE  AllPriced(ReplayFrames, batches, batches + Cardinality(known))
<1>1. boot \in 1..MaxTime /\ boot <= Now /\ latest \in Offer /\ latest = truth[Now]
      /\ batches \in Nat /\ Now \in Nat /\ known = known \cap known
  BY DEF CacheFits, Typed, TypeOK, Bounds, SinkBounds
<1>2. \A f \in Fixtures : Honest(f, latest[f], boot)
  <2>1. Now \in boot..Now
    BY <1>1
  <2> QED BY <1>1, <2>1 DEF Honest, OfferedSince
<1>3. AllPriced(SnapshotFrames(latest, boot), batches, batches + Cardinality(known))
  BY <1>1, <1>2, SnapshotIsPriced
<1>4. AllPriced(FixtureFrames(known, boot, batches), batches,
                batches + Cardinality(known \cap known))
  BY <1>1, FixturesArePriced
<1>5. AllPriced(FixtureFrames(known, boot, batches), batches, batches + Cardinality(known))
  BY <1>1, <1>4
<1> QED BY <1>3, <1>5, PricedJoined DEF ReplayFrames

(* What an operation writes itself, observations aside.                    *)
LEMMA OwnFramesArePriced ==
  ASSUME Bounds, Typed, CacheFits, QueueHonest, queue # <<>>, Head(queue).kind # "observe",
         NEW now, NEW sent \in Nat
  PROVE  AllPriced(OwnFrames(Head(queue), now, sent), sent,
                   sent + Cardinality(Renewed(Head(queue)) \cap known))
<1> DEFINE op == Head(queue)
           high == sent + Cardinality(Renewed(op) \cap known)
<1>1. /\ op \in Operations
      /\ op.kind = "bootstrap" => op.at <= Now /\ op.vals = truth[op.at]
      /\ op.kind = "delta" => op.at <= Now /\ op.val = truth[op.at][op.fixture]
  BY HeadFacts DEF OperationHonest
<1> HIDE DEF op
<1>2. op.kind \in {"bootstrap", "delta", "heartbeat", "response"}
  BY <1>1, OperationFacts DEF op
<1>3. CASE op.kind = "bootstrap"
  <2>1. op.vals \in Offer /\ op.at \in 1..MaxTime /\ op.at <= Now /\ op.at \in op.at..Now
        /\ op.vals = truth[op.at]
    BY <1>1, <1>3, OperationFacts DEF Typed, TypeOK, Bounds, SinkBounds
  <2>2. \A f \in Fixtures : Honest(f, op.vals[f], op.at)
    BY <2>1 DEF Honest, OfferedSince
  <2>3. AllPriced(SnapshotFrames(op.vals, op.at), sent, high)
    BY <2>1, <2>2, SnapshotIsPriced
  <2>4. AllPriced(FixtureFrames(Renewed(op), op.at, sent), sent, high)
    BY <2>1, FixturesArePriced
  <2>5. OwnFrames(op, now, sent)
          = SnapshotFrames(op.vals, op.at) \o FixtureFrames(Renewed(op), op.at, sent)
    BY <1>3 DEF OwnFrames
  <2> HIDE DEF high
  <2> QED BY <2>3, <2>4, <2>5, PricedJoined DEF op, high
<1>4. CASE op.kind = "delta"
  <2>1. op.fixture \in Fixtures /\ op.val \in Prices /\ op.at \in 1..MaxTime /\ op.at <= Now
        /\ op.at \in op.at..Now /\ op.val = truth[op.at][op.fixture]
    BY <1>1, <1>4, OperationFacts DEF Typed, TypeOK, Bounds, SinkBounds
  <2> DEFINE first == IF op.val = 0
                        THEN [t |-> "quote_remove", fixture |-> op.fixture, at |-> op.at]
                        ELSE [t |-> "quote_upsert_batch", snapshot |-> FALSE, at |-> op.at,
                              vals |-> [f \in {op.fixture} |-> op.val]]
  <2>2. first \in Frames /\ Priced(first, sent, high)
    <3>1. Honest(op.fixture, op.val, op.at)
      BY <2>1 DEF Honest, OfferedSince
    <3>2. [f \in {op.fixture} |-> op.val] \in PartialOffers
      <4>1. [f \in {op.fixture} |-> op.val] \in [{op.fixture} -> Prices]
        BY <2>1
      <4>2. {op.fixture} \in SUBSET Fixtures
        BY <2>1
      <4> QED BY <4>1, <4>2 DEF PartialOffers
    <3>3. CASE op.val = 0
      <4>1. first = [t |-> "quote_remove", fixture |-> op.fixture, at |-> op.at]
        BY <3>3
      <4>2. first \in Frames
        BY <2>1, <4>1 DEF Frames
      <4>3. first.t = "quote_remove"
        BY <4>1
      <4> HIDE DEF first
      <4> QED BY <4>2, <4>3 DEF Priced
    <3>4. CASE op.val # 0
      <4> DEFINE vals == [f \in {op.fixture} |-> op.val]
      <4>1. first = [t |-> "quote_upsert_batch", snapshot |-> FALSE, at |-> op.at, vals |-> vals]
        BY <3>4
      <4>2. vals \in PartialOffers /\ DOMAIN vals = {op.fixture} /\ vals[op.fixture] = op.val
        BY <3>2
      <4> HIDE DEF vals, first
      <4>3. first \in Frames
        BY <2>1, <4>1, <4>2 DEF Frames
      <4>4. first.t = "quote_upsert_batch" /\ first.at = op.at /\ first.vals = vals
        BY <4>1
      <4> QED BY <3>1, <4>2, <4>3, <4>4 DEF Priced
    <3> QED BY <3>3, <3>4
  <2>3. AllPriced(<<first>>, sent, high)
    <3> HIDE DEF first, high
    <3>1. <<first>> \in Seq(Frames) /\ \A e : (\E i \in DOMAIN <<first>> : <<first>>[i] = e) => e = first
      BY <2>2
    <3> QED BY <2>2, <3>1 DEF AllPriced
  <2>4. Renewed(op) = {op.fixture}
    BY <1>4 DEF Renewed
  <2>5. AllPriced(FixtureFrames({op.fixture}, op.at, sent), sent, high)
    BY <2>1, <2>4, FixturesArePriced
  <2>6. OwnFrames(op, now, sent) = <<first>> \o FixtureFrames({op.fixture}, op.at, sent)
    BY <1>4 DEF OwnFrames, DeltaFrames
  <2> HIDE DEF high, first
  <2> QED BY <2>3, <2>5, <2>6, PricedJoined DEF op, high
<1>5. CASE op.kind \in {"heartbeat", "response"}
  <2>1. OwnFrames(op, now, sent) = <<[t |-> op.kind]>>
    BY <1>5 DEF OwnFrames
  <2>2. [t |-> op.kind] \in Frames /\ Priced([t |-> op.kind], sent, high)
    BY <1>5 DEF Frames, Priced
  <2>3. AllPriced(<<[t |-> op.kind]>>, sent, high)
    BY <2>2 DEF AllPriced
  <2> QED BY <2>1, <2>3 DEF op, high
<1> QED BY <1>2, <1>3, <1>4, <1>5

(* An observation names the batches it captured that are still held.       *)
LEMMA ObserveFrameFacts ==
  ASSUME Typed, NEW op \in Operations, op.kind = "observe", NEW now \in [Fixtures -> Nat],
         NEW sent
  PROVE  /\ OwnFrames(op, now, sent) \in Seq(Frames)
         /\ \A frame : (\E i \in DOMAIN OwnFrames(op, now, sent) :
                          OwnFrames(op, now, sent)[i] = frame) =>
              /\ frame.t = "fixture_observed_batch" /\ frame.at = op.at
              /\ \A f \in Fixtures : frame.items[f] # 0 =>
                   frame.items[f] = op.items[f] /\ now[f] = op.items[f]
<1> DEFINE e == [t |-> "fixture_observed_batch", items |-> StillHeld(op, now), at |-> op.at]
<1>1. op.items \in [Fixtures -> Nat] /\ op.at \in 1..MaxTime
  BY OperationFacts
<1>2. StillHeld(op, now) \in [Fixtures -> Nat]
      /\ \A f \in Fixtures : StillHeld(op, now)[f] # 0 =>
           StillHeld(op, now)[f] = op.items[f] /\ now[f] = op.items[f]
  BY <1>1 DEF StillHeld
<1>3. e \in Frames /\ e.t = "fixture_observed_batch" /\ e.at = op.at
      /\ e.items = StillHeld(op, now)
  BY <1>1, <1>2 DEF Frames
<1>4. OwnFrames(op, now, sent) \in {<<>>, <<e>>}
  BY DEF OwnFrames, ObserveFrames
<1> HIDE DEF e
<1>5. OwnFrames(op, now, sent) \in Seq(Frames)
  <2>1. <<>> \in Seq(Frames) /\ <<e>> \in Seq(Frames)
    BY <1>3
  <2> QED BY <1>4, <2>1
<1>6. \A frame : (\E i \in DOMAIN OwnFrames(op, now, sent) :
                    OwnFrames(op, now, sent)[i] = frame) => frame = e
  BY <1>4
<1> QED BY <1>2, <1>3, <1>5, <1>6

(* What a frame written now may say.                                       *)
NewFrame(frame, op) ==
  \/ Priced(frame, batches, batches')
  \/ /\ op.kind = "observe"
     /\ frame.t = "fixture_observed_batch" /\ frame.at = op.at
     /\ \A f \in Fixtures : frame.items[f] # 0 =>
          frame.items[f] = op.items[f] /\ held'[f] = op.items[f]

(* An operation that runs sends such frames on the socket, and nothing     *)
(* else changes on the wire.                                               *)
LEMMA PerformFacts ==
  ASSUME Bounds, Typed, CacheFits, QueueHonest, queue # <<>>, cur \in Connections,
         Perform(Head(queue))
  PROVE  /\ up' \in [Connections -> Seq(Frames)]
         /\ \A h \in Connections \ {cur} : up'[h] = up[h]
         /\ up[cur] # <<>> => up'[cur] # <<>> /\ Head(up'[cur]) = Head(up[cur])
         /\ \A h \in Connections : \A frame \in OnWire(h)' :
              frame \in OnWire(h) \/ (h = cur /\ NewFrame(frame, Head(queue)))
         /\ batches' \in Nat /\ batches <= batches' /\ held' \in [Fixtures -> 0..batches']
         /\ \A f \in Fixtures :
              /\ held'[f] = held[f] \/ (f \in known /\ batches < held'[f])
              /\ f \in Renewed(Head(queue)) \cap known => batches < held'[f]
<1> DEFINE op == Head(queue)
           replayed == IF ReplayNeeded(op) THEN known ELSE {}
           replay == IF ReplayNeeded(op) THEN ReplayFrames ELSE <<>>
           now == HeldAfter(held, replayed, batches)
           sent == batches + Cardinality(replayed)
           own == OwnFrames(op, now, sent)
<1>1. up' = [up EXCEPT ![cur] = @ \o replay \o own]
  BY DEF Perform
<1>2. op \in Operations
  BY HeadFacts
<1>3. Perform(op)
  OBVIOUS
<1>4. ReplayNeeded(op) => boot # 0 /\ replayed = known /\ replay = ReplayFrames
  BY DEF ReplayNeeded
<1>5. ~ReplayNeeded(op) => replay = <<>>
  OBVIOUS
<1> DEFINE n == Cardinality(Renewed(op) \cap known)
<1> HIDE DEF op
<1>6. /\ sent \in Nat /\ batches <= sent /\ sent <= batches' /\ batches' \in Nat
      /\ n \in Nat /\ batches' = sent + n
      /\ held' \in [Fixtures -> 0..batches'] /\ now \in [Fixtures -> 0..sent]
      /\ \A f \in Fixtures :
           /\ held'[f] = held[f] \/ (f \in known /\ batches < held'[f])
           /\ f \in Renewed(op) \cap known => batches < held'[f]
           /\ Renewed(op) = {} => held'[f] = now[f]
  <2> HIDE DEF replay, own
  <2> QED BY <1>2, <1>3, NumbersGrow
<1>7. batches \in Nat
  BY DEF Typed, TypeOK
<1>8. AllPriced(replay, batches, batches')
  <2>1. CASE ReplayNeeded(op)
    <3>1. AllPriced(ReplayFrames, batches, batches + Cardinality(known))
      BY <1>4, <2>1, ReplayIsPriced
    <3>2. AllPriced(replay, batches, sent)
      BY <1>4, <2>1, <3>1
    <3> HIDE DEF sent, replay, replayed, now, own, n
    <3> QED BY <1>6, <1>7, <3>2, PricedWidens
  <2>2. CASE ~ReplayNeeded(op)
    BY <1>5, <2>2 DEF AllPriced
  <2> QED BY <2>1, <2>2
<1> HIDE DEF replay, replayed, now, sent, own
<1>9. own \in Seq(Frames) /\ \A frame : (\E i \in DOMAIN own : own[i] = frame) => NewFrame(frame, op)
  <2>1. CASE op.kind = "observe"
    <3>1. Renewed(op) = {} /\ now \in [Fixtures -> Nat]
      BY <1>6, <2>1 DEF Renewed
    <3>2. /\ own \in Seq(Frames)
          /\ \A frame : (\E i \in DOMAIN own : own[i] = frame) =>
               /\ frame.t = "fixture_observed_batch" /\ frame.at = op.at
               /\ \A f \in Fixtures : frame.items[f] # 0 =>
                    frame.items[f] = op.items[f] /\ now[f] = op.items[f]
      BY <1>2, <2>1, <3>1, ObserveFrameFacts DEF own
    <3> QED BY <1>6, <2>1, <3>1, <3>2 DEF NewFrame
  <2>2. CASE op.kind # "observe"
    <3>1. AllPriced(own, sent, sent + n)
      BY <1>6, <2>2, OwnFramesArePriced DEF op, own
    <3>2. AllPriced(own, sent, batches')
      BY <1>6, <3>1
    <3> HIDE DEF n
    <3>3. batches' <= batches'
      BY <1>6
    <3>4. AllPriced(own, batches, batches')
      BY <1>6, <1>7, <3>2, <3>3, PricedWidens
    <3> QED BY <3>4 DEF AllPriced, NewFrame
  <2> QED BY <2>1, <2>2
<1>10. replay \in Seq(Frames)
       /\ \A frame : (\E i \in DOMAIN replay : replay[i] = frame) => NewFrame(frame, op)
  BY <1>8 DEF AllPriced, NewFrame
<1>11. /\ up' \in [Connections -> Seq(Frames)]
       /\ \A h \in Connections \ {cur} : up'[h] = up[h]
       /\ up[cur] # <<>> => up'[cur] # <<>> /\ Head(up'[cur]) = Head(up[cur])
       /\ \A h \in Connections : \A frame \in OnWire(h)' :
            \/ frame \in OnWire(h)
            \/ h = cur /\ \E i \in DOMAIN replay : replay[i] = frame
            \/ h = cur /\ \E i \in DOMAIN own : own[i] = frame
  <2>1. replay \in Seq(Frames) /\ own \in Seq(Frames)
    BY <1>9, <1>10
  <2>2. up' = [h \in Connections |->
                 IF h = cur THEN (up[cur] \o replay) \o own ELSE up[h]]
    BY <1>1 DEF Typed
  <2>3. Sends(cur, replay, own)
    BY <2>1, <2>2, WireGrows
  <2> QED BY <2>3 DEF Sends
<1>12. \A h \in Connections : \A frame \in OnWire(h)' :
         frame \in OnWire(h) \/ (h = cur /\ NewFrame(frame, op))
  BY <1>9, <1>10, <1>11
<1>13. batches' \in Nat /\ batches <= batches' /\ held' \in [Fixtures -> 0..batches']
       /\ \A f \in Fixtures :
            /\ held'[f] = held[f] \/ (f \in known /\ batches < held'[f])
            /\ f \in Renewed(op) \cap known => batches < held'[f]
  <2> HIDE DEF n
  <2>1. batches <= batches'
    BY <1>6, <1>7
  <2> QED BY <1>6, <2>1
<1> QED BY <1>11, <1>12, <1>13 DEF op

-----------------------------------------------------------------------------
(* Steps that put no price on the wire and read none                       *)

(* No batch that was not sent before was sent by the step.                 *)
NothingSent ==
  \A f \in Fixtures, g \in Connections : \A b, v : Sent(f, b, g, v)' => Sent(f, b, g, v)

FramesKept ==
  \A h \in Connections : \A frame \in OnWire(h)' : frame \in OnWire(h) \/ frame.t = "hello"

QueueKept == \A i \in DOMAIN queue' : \E j \in DOMAIN queue : queue'[i] = queue[j]

(* The socket in use is the one that was, and nothing was dropped from the *)
(* queue, or no batch went out on it yet.                                  *)
LinkKept ==
  Connected' => /\ session' \in Connections
                /\ (Connected /\ session' = session /\ queue' = queue) \/ NoBatch(session')

(* Frames that are kept, and the same coherent store, send nothing.        *)
LEMMA KeptSendsNothing ==
  ASSUME FramesKept, coherent' = coherent
  PROVE  NothingSent
  BY DEF FramesKept, NothingSent, Sent

(* On a connection without a batch none was sent.                          *)
LEMMA NoBatchSent ==
  ASSUME NEW g, NoBatch(g), NEW f \in Fixtures, NEW b, NEW v
  PROVE  ~Sent(f, b, g, v)
  BY DEF NoBatch, Sent

(* Such steps preserve what is said of prices.                             *)
LEMMA QuietKeepsPrices ==
  ASSUME Bounds, PricesFit, UNCHANGED <<truth, known, held, batches>>,
         NothingSent, FramesKept, QueueKept, LinkKept, StoresHonest'
  PROVE  PricesFit'
<1>1. \A f, val, at : Honest(f, val, at)' = Honest(f, val, at)
      /\ OfferedSince(f, val, at)' = OfferedSince(f, val, at)
  BY DEF Honest, OfferedSince, Now
<1>2. FramesHonest'
  BY <1>1 DEF FramesHonest, PricesFit, FramesKept
<1>3. QueueHonest'
  <2>1. \A op : OperationHonest(op)' = OperationHonest(op)
    BY DEF OperationHonest, Now
  <2> QED BY <2>1 DEF PricesFit, QueueKept, QueueHonest
<1>4. ASSUME Connected', NEW f \in Fixtures, NEW v
      PROVE  \/ /\ Connected /\ queue' = queue
                /\ Sent(f, held[f], session, v)' => Sent(f, held[f], session, v)
             \/ ~Sent(f, held[f], session, v)'
  <2>1. PICK s \in Connections : s = session'
    BY <1>4 DEF LinkKept
  <2>6. (Connected /\ s = session /\ queue' = queue) \/ NoBatch(s)
    BY <1>4, <2>1 DEF LinkKept
  <2>7. PICK b : b = held[f]
    OBVIOUS
  <2>2. Sent(f, held[f], session, v)' <=> \/ \E frame \in OnWire(s)' :
                                              /\ frame.t = "fixture_market_snapshot"
                                              /\ frame.fixture = f /\ frame.batch = b
                                              /\ frame.val = v
                                          \/ /\ coherent'[f].session = s /\ coherent'[f].batch = b
                                             /\ coherent'[f].val = v
    BY <2>1, <2>7 DEF Sent, OnWire
  <2>8. Sent(f, b, s, v)' => Sent(f, b, s, v)
    BY DEF NothingSent
  <2>3. Sent(f, held[f], session, v)' => Sent(f, b, s, v)
    BY <2>2, <2>8 DEF Sent
  <2>4. CASE Connected /\ s = session /\ queue' = queue
    BY <2>3, <2>4, <2>7
  <2>5. CASE NoBatch(s)
    BY <2>3, <2>5, NoBatchSent
  <2> QED BY <2>4, <2>5, <2>6
<1>5. HeldShowsLast'
  <2> SUFFICES ASSUME Connected', NEW f \in Fixtures PROVE ShowsLast(f)'
    BY DEF HeldShowsLast
  <2>1. CASE \A v : ~Sent(f, held[f], session, v)'
    BY <2>1 DEF ShowsLast
  <2>2. CASE \E v : Sent(f, held[f], session, v)'
    <3>1. Connected /\ queue' = queue
      BY <1>4, <2>2
    <3>2. ShowsLast(f)
      BY <3>1 DEF PricesFit, HeldShowsLast
    <3>3. \A v : Sent(f, held[f], session, v)' => Sent(f, held[f], session, v)
      BY <1>4
    <3>4. Now' = Now
      BY DEF Now
    <3> QED BY <3>1, <3>2, <3>3, <3>4 DEF ShowsLast
  <2> QED BY <2>1, <2>2
<1>6. ObservationsHonest'
  <2> SUFFICES ASSUME Connected', NEW i \in DOMAIN queue', NEW f \in Fixtures,
                      queue'[i].kind = "observe"
               PROVE  Vouches(i, f)'
    BY DEF ObservationsHonest
  <2>1. CASE \A v : ~Sent(f, held[f], session, v)'
    BY <2>1 DEF Vouches
  <2>2. CASE \E v : Sent(f, held[f], session, v)'
    <3>1. Connected /\ queue' = queue
      BY <1>4, <2>2
    <3>2. Vouches(i, f)
      BY <3>1 DEF PricesFit, ObservationsHonest
    <3>3. \A v : Sent(f, held[f], session, v)' => Sent(f, held[f], session, v)
      BY <1>4
    <3> QED BY <1>1, <3>1, <3>2, <3>3 DEF Vouches
  <2> QED BY <2>1, <2>2
<1>7. ObservedHonest'
  <2> SUFFICES ASSUME NEW g \in Connections, NEW frame \in OnWire(g)', NEW f \in Fixtures,
                      frame.t = "fixture_observed_batch"
               PROVE  Vouched(g, frame, f)'
    BY DEF ObservedHonest
  <2>1. frame \in OnWire(g)
    BY DEF FramesKept
  <2>2. Vouched(g, frame, f)
    BY <2>1 DEF PricesFit, ObservedHonest
  <2> QED BY <1>1, <2>2 DEF Vouched, NothingSent
<1> QED BY <1>2, <1>3, <1>5, <1>6, <1>7 DEF PricesFit

-----------------------------------------------------------------------------
(* The calls                                                               *)

(* The past stays as it was.                                               *)
TimePasses ==
  /\ Now \in Nat /\ Now' \in Nat /\ Now <= Now'
  /\ \A t \in 1..Now : truth'[t] = truth[t]

(* A look adds a moment.                                                   *)
LEMMA LookAddsMoment ==
  ASSUME Bounds, Typed, NEW offer \in Offer, Look(offer)
  PROVE  /\ TimePasses /\ Now' = Now + 1 /\ Now' \in 1..MaxTime /\ Now \in 1..MaxTime
         /\ truth' \in Seq(Offer) /\ truth'[Now'] = offer
<1>1. truth \in Seq(Offer) /\ Now \in Nat /\ Now < MaxTime /\ truth' = Append(truth, offer)
  BY DEF Typed, TypeOK, Look, Now, Bounds, SinkBounds
<1>2. /\ truth' \in Seq(Offer) /\ Len(truth') = Len(truth) + 1
      /\ \A i \in 1..Len(truth) : truth'[i] = truth[i]
      /\ truth'[Len(truth) + 1] = offer
  BY <1>1, Appended
<1> QED BY <1>1, <1>2 DEF TimePasses, Now, Bounds, SinkBounds, Typed, TypeOK

(* There always is a last moment.                                          *)
LEMMA NowIsOffer ==
  ASSUME Typed
  PROVE  truth[Now] \in Offer /\ Now \in Nat /\ Now \in 1..Now
<1>1. truth \in Seq(Offer) /\ Len(truth) \in Nat /\ Len(truth) >= 1
  BY LenProperties DEF Typed, TypeOK, Now
<1> QED BY <1>1, ElementOfSeq DEF Now

(* What was offered since a moment still was.                              *)
LEMMA OfferedStays ==
  ASSUME TimePasses, NEW f, NEW v, NEW at \in Nat, at # 0, OfferedSince(f, v, at)
  PROVE  OfferedSince(f, v, at)'
<1>1. PICK t \in at..Now : truth[t][f] = v
  BY DEF OfferedSince
<1>2. t \in 1..Now /\ t \in at..Now' /\ truth'[t] = truth[t]
  BY <1>1 DEF TimePasses
<1> QED BY <1>1, <1>2 DEF OfferedSince

(* So what was honest still is.                                            *)
LEMMA HonestStays ==
  ASSUME TimePasses, NEW f, NEW v, NEW at \in Nat, Honest(f, v, at)
  PROVE  Honest(f, v, at)'
  BY OfferedStays DEF Honest

(* A call leaves the frames and the stores alone.                          *)
LEMMA CallKeepsFrames ==
  ASSUME Typed, PricesFit, TimePasses, UNCHANGED <<up, coherent, legacy, batches>>
  PROVE  FramesHonest' /\ StoresHonest' /\ ObservedHonest'
<1>1. \A g \in Connections : OnWire(g)' = OnWire(g) /\ OnWire(g) \subseteq Frames
  BY DEF OnWire, Typed
<1>2. FramesHonest'
  <2> SUFFICES ASSUME NEW g \in Connections, NEW frame \in OnWire(g)
               PROVE  /\ frame.t = "quote_upsert_batch" =>
                           \A f \in DOMAIN frame.vals : Honest(f, frame.vals[f], frame.at)'
                      /\ frame.t = "fixture_market_snapshot" =>
                           Honest(frame.fixture, frame.val, frame.at)' /\ frame.batch <= batches'
                      /\ frame.t = "fixture_observed_batch" =>
                           \A f \in Fixtures : frame.items[f] <= batches'
    BY <1>1 DEF FramesHonest
  <2>1. /\ frame.t = "quote_upsert_batch" =>
             \A f \in DOMAIN frame.vals : Honest(f, frame.vals[f], frame.at)
        /\ frame.t = "fixture_market_snapshot" =>
             Honest(frame.fixture, frame.val, frame.at) /\ frame.batch <= batches
        /\ frame.t = "fixture_observed_batch" =>
             \A f \in Fixtures : frame.items[f] <= batches
    BY DEF PricesFit, FramesHonest
  <2>2. frame.t \in {"quote_upsert_batch", "fixture_market_snapshot"} => frame.at \in Nat
    BY <1>1 DEF Frames
  <2> QED BY <2>1, <2>2, HonestStays
<1>3. StoresHonest'
  <2>1. \A f \in Fixtures : legacy[f].at \in Nat /\ coherent[f].at \in Nat
    BY DEF Typed, TypeOK
  <2> QED BY <2>1, HonestStays DEF PricesFit, StoresHonest
<1>4. ObservedHonest'
  <2> SUFFICES ASSUME NEW g \in Connections, NEW frame \in OnWire(g), NEW f \in Fixtures,
                      frame.t = "fixture_observed_batch"
               PROVE  Vouched(g, frame, f)'
    BY <1>1 DEF ObservedHonest
  <2>1. Vouched(g, frame, f) /\ frame.at \in Nat /\ frame.at # 0
    BY <1>1 DEF PricesFit, ObservedHonest, Frames
  <2>2. \A b, v : Sent(f, b, g, v)' = Sent(f, b, g, v)
    BY <1>1 DEF Sent
  <2> QED BY <2>1, <2>2, OfferedStays DEF Vouched
<1> QED BY <1>2, <1>3, <1>4

(* What an operation says stays true.                                      *)
LEMMA OperationStays ==
  ASSUME Typed, TimePasses, batches' = batches, NEW op \in Operations, OperationHonest(op)
  PROVE  OperationHonest(op)'
<1>1. op.kind \in {"bootstrap", "delta", "observe"} => op.at \in Nat /\ op.at # 0
  BY OperationFacts
<1>2. op.kind \in {"bootstrap", "delta"} => truth'[op.at] = truth[op.at]
  BY <1>1 DEF OperationHonest, TimePasses
<1> QED BY <1>1, <1>2 DEF OperationHonest, TimePasses

(* An operation that tells the truth joins the queue.                      *)
LEMMA CallKeepsQueue ==
  ASSUME Typed, QueueHonest, TimePasses, batches' = batches, NEW op \in Operations,
         OperationHonest(op)', queue' = Append(queue, op)
  PROVE  /\ QueueHonest' /\ queue' \in Seq(Operations) /\ queue' # <<>>
         /\ Len(queue) \in Nat /\ DOMAIN queue = 1..Len(queue)
         /\ DOMAIN queue' = 1..(Len(queue) + 1)
         /\ \A i \in 1..Len(queue) : queue'[i] = queue[i] /\ queue[i] \in Operations
         /\ queue'[Len(queue) + 1] = op
<1>1. /\ queue' \in Seq(Operations) /\ queue' # <<>>
      /\ Len(queue) \in Nat /\ DOMAIN queue = 1..Len(queue)
      /\ DOMAIN queue' = 1..(Len(queue) + 1)
      /\ \A i \in 1..Len(queue) : queue'[i] = queue[i] /\ queue[i] \in Operations
      /\ queue'[Len(queue) + 1] = op
  BY Appended, ElementOfSeq DEF Typed
<1>2. ASSUME NEW i \in DOMAIN queue' PROVE OperationHonest(queue[i])'
  <2>1. CASE i \in 1..Len(queue)
    <3>1. PICK old \in Operations : old = queue[i] /\ old = queue'[i]
      BY <1>1, <2>1
    <3>2. OperationHonest(old)'
      BY <1>1, <2>1, <3>1, OperationStays DEF QueueHonest
    <3> QED BY <3>1, <3>2 DEF OperationHonest
  <2>2. CASE i = Len(queue) + 1
    BY <1>1, <2>2 DEF OperationHonest
  <2> QED BY <1>1, <1>2, <2>1, <2>2
<1>3. QueueHonest'
  BY <1>2 DEF QueueHonest
<1> QED BY <1>1, <1>3

(* An observation that was queued before keeps what it vouches for, unless *)
(* the fixture is forgotten.                                               *)
LEMMA CallKeepsVouching ==
  ASSUME Typed, TimePasses, UNCHANGED <<up, coherent, held, session>>,
         known \subseteq known' \/ NoBatch(session),
         NEW i \in DOMAIN queue, queue[i] \in Operations, queue[i].kind = "observe",
         \A j \in DOMAIN queue : queue'[j] = queue[j], DOMAIN queue = 1..Len(queue),
         Len(queue) \in Nat,
         NEW f \in Fixtures, Vouches(i, f)
  PROVE  Vouches(i, f)'
<1>1. queue'[i] = queue[i] /\ queue[i].at \in Nat /\ queue[i].at # 0
  BY OperationFacts
<1>2. \A v : Sent(f, held[f], session, v)' = Sent(f, held[f], session, v)
  BY DEF Sent, OnWire
<1>3. CASE NoBatch(session)
  BY <1>2, <1>3, NoBatchSent DEF Vouches
<1>4. CASE known \subseteq known'
  <2>1. CASE queue[i].items[f] = 0 \/ queue[i].items[f] # held[f]
    BY <1>1, <2>1 DEF Vouches
  <2>2. CASE f \in known /\ \E j \in 1..(i - 1) : Renews(queue[j], f)
    <3>1. PICK j \in 1..(i - 1) : Renews(queue[j], f)
      BY <2>2
    <3>2. queue'[j] = queue[j]
      BY <3>1
    <3>3. Renews(queue[j], f)'
      BY <3>1, <3>2 DEF Renews, Renewed, Selections
    <3> QED BY <1>4, <2>2, <3>3 DEF Vouches
  <2>3. CASE \A v \in Prices \ {0} :
               Sent(f, held[f], session, v) => OfferedSince(f, v, queue[i].at)
    <3>1. PICK at \in Nat \ {0} : at = queue[i].at
      BY <1>1
    <3>2. \A v \in Prices \ {0} : Sent(f, held[f], session, v)' => OfferedSince(f, v, at)'
      BY <1>2, <2>3, <3>1, OfferedStays
    <3> QED BY <1>1, <3>1, <3>2 DEF Vouches, OfferedSince
  <2> QED BY <2>1, <2>2, <2>3 DEF Vouches
<1> QED BY <1>3, <1>4

(* What is held of a fixture that is offered as before.                    *)
LEMMA CallKeepsShowing ==
  ASSUME Typed, UNCHANGED <<up, coherent, held, session>>,
         \A j \in DOMAIN queue : j \in DOMAIN queue' /\ queue'[j] = queue[j],
         NEW f \in Fixtures, truth'[Now'][f] = truth[Now][f], ShowsLast(f)
  PROVE  ShowsLast(f)'
<1>1. \A v : Sent(f, held[f], session, v)' = Sent(f, held[f], session, v)
  BY DEF Sent, OnWire
<1>2. CASE \E j \in DOMAIN queue : Renews(queue[j], f)
  <2>1. PICK j \in DOMAIN queue : Renews(queue[j], f)
    BY <1>2
  <2>2. j \in DOMAIN queue' /\ Renews(queue[j], f)'
    BY <2>1 DEF Renews, Renewed, Selections
  <2> QED BY <2>2 DEF ShowsLast
<1>3. CASE truth[Now][f] = 0 \/ \A v \in Prices : Sent(f, held[f], session, v) => v = truth[Now][f]
  BY <1>1, <1>3 DEF ShowsLast
<1> QED BY <1>2, <1>3 DEF ShowsLast

(* Nothing happens to the connections.                                     *)
LEMMA LinkUnchanged ==
  ASSUME LinkFits, NewestActs,
         UNCHANGED <<sock, cur, session, ready, up, peer, checked, greeted, coherent, active>>
  PROVE  LinkFits' /\ NewestActs'
  BY DEF LinkFits, NewestActs, NoBatch, OnWire, Greeted

(* pushBootstrap: what was sent before is gone from the queue, or nothing  *)
(* went out on the new connection yet.                                     *)
LEMMA PushBootstrapKeeps ==
  ASSUME Bounds, IInv, NEW offer \in Offer, PushBootstrap(offer)
  PROVE  IInv'
<1>1. /\ TimePasses /\ Now' = Now + 1 /\ Now' \in 1..MaxTime /\ Now \in 1..MaxTime
      /\ truth' \in Seq(Offer) /\ truth'[Now'] = offer
  BY LookAddsMoment DEF PushBootstrap, IInv
<1>2. PICK op : op = [kind |-> "bootstrap", vals |-> offer, at |-> Now + 1]
  OBVIOUS
<1>3. op \in Operations /\ OperationHonest(op)' /\ queue' = Append(queue, op)
  BY <1>1, <1>2 DEF Operations, OperationHonest, PushBootstrap, Enqueue
<1>4. /\ QueueHonest' /\ queue' \in Seq(Operations) /\ queue' # <<>>
      /\ Len(queue) \in Nat /\ DOMAIN queue = 1..Len(queue)
      /\ DOMAIN queue' = 1..(Len(queue) + 1)
      /\ \A i \in 1..Len(queue) : queue'[i] = queue[i] /\ queue[i] \in Operations
      /\ queue'[Len(queue) + 1] = op
  <2>1. Typed /\ QueueHonest /\ batches' = batches
    BY DEF PushBootstrap, IInv, PricesFit
  <2> QED BY <1>1, <1>3, <2>1, CallKeepsQueue
<1>5. LinkFits' /\ NewestActs'
  BY LinkUnchanged DEF IInv, PushBootstrap, link, wires, backend, stores
<1>6. FramesHonest' /\ StoresHonest' /\ ObservedHonest'
  BY <1>1, CallKeepsFrames DEF IInv, PushBootstrap, wires, backend, stores
<1>7. Typed'
  <2>1. Selections(offer) \subseteq Fixtures /\ Now + 1 \in 0..MaxTime
    BY <1>1 DEF Selections
  <2>2. \A i \in DOMAIN queue' : queue'[i] \in Operations
    BY <1>3, <1>4
  <2> QED BY <1>1, <1>4, <2>1, <2>2
       DEF IInv, Typed, TypeOK, PushBootstrap, ReplaceLatest, link, wires, backend, stores
<1>8. CacheFits'
  BY <1>1 DEF CacheFits, PushBootstrap, ReplaceLatest
<1>9. HeldShowsLast'
  <2> SUFFICES ASSUME NEW f \in Fixtures PROVE ShowsLast(f)'
    BY DEF HeldShowsLast
  <2>1. CASE offer[f] = 0
    BY <1>1, <2>1 DEF ShowsLast
  <2>2. CASE offer[f] # 0
    <3>1. PICK j : j = Len(queue) + 1
      OBVIOUS
    <3>2. j \in DOMAIN queue' /\ queue'[j] = op
      BY <1>4, <3>1
    <3>3. Renews(queue[j], f)'
      BY <1>2, <2>2, <3>2 DEF Renews, Renewed, Selections
    <3> QED BY <3>2, <3>3 DEF ShowsLast
  <2> QED BY <2>1, <2>2
<1>10. ObservationsHonest'
  <2> SUFFICES ASSUME Connected', NEW i \in DOMAIN queue', queue'[i].kind = "observe",
                      NEW f \in Fixtures
               PROVE  Vouches(i, f)'
    BY DEF ObservationsHonest
  <2>1. i \in DOMAIN queue /\ queue[i].kind = "observe" /\ queue'[i] = queue[i]
        /\ queue[i] \in Operations
    BY <1>2, <1>4
  <2>2. Connected
    BY DEF Connected, PushBootstrap, link, wires
  <2>3. Vouches(i, f)
    BY <2>1, <2>2 DEF IInv, PricesFit, ObservationsHonest
  <2>4. NoBatch(session)
    BY <2>1 DEF PushBootstrap, IInv, LinkFits
  <2>5. UNCHANGED <<up, coherent, held, session>>
    BY DEF PushBootstrap, link, wires, backend, stores
  <2>6. \A j \in DOMAIN queue : queue'[j] = queue[j]
    BY <1>4
  <2> QED BY <1>1, <1>4, <2>1, <2>3, <2>4, <2>5, <2>6, CallKeepsVouching DEF IInv
<1> QED BY <1>4, <1>5, <1>6, <1>7, <1>8, <1>9, <1>10 DEF IInv, PricesFit

(* pushDelta: the fixture it prices is renewed when it is sent.            *)
LEMMA PushDeltaKeeps ==
  ASSUME Bounds, IInv, NEW x \in Fixtures, NEW price \in Prices, PushDelta(x, price)
  PROVE  IInv'
<1> DEFINE offer == [truth[Now] EXCEPT ![x] = price]
<1>a. truth[Now] \in Offer /\ offer \in Offer
  <2>1. truth[Now] \in Offer
    BY NowIsOffer DEF IInv
  <2> QED BY <2>1 DEF Offer
<1>1. /\ TimePasses /\ Now' = Now + 1 /\ Now' \in 1..MaxTime /\ Now \in 1..MaxTime
      /\ truth' \in Seq(Offer) /\ truth'[Now'] = offer
  <2>1. Look(offer)
    BY DEF PushDelta
  <2> HIDE DEF offer
  <2> QED BY <1>a, <2>1, LookAddsMoment DEF IInv
<1>b. offer[x] = price /\ \A f \in Fixtures \ {x} : offer[f] = truth[Now][f]
  BY <1>a DEF Offer
<1> HIDE DEF offer
<1>2. PICK op : op = [kind |-> "delta", fixture |-> x, val |-> price, at |-> Now + 1]
  OBVIOUS
<1>3. op \in Operations /\ OperationHonest(op)' /\ queue' = Append(queue, op)
  <2>1. op \in Operations /\ queue' = Append(queue, op)
    BY <1>1, <1>2 DEF Operations, PushDelta, Enqueue
  <2>2. op.kind = "delta" /\ op.at = Now' /\ op.val = truth'[Now'][op.fixture]
    BY <1>1, <1>2, <1>b
  <2> QED BY <1>1, <2>1, <2>2 DEF OperationHonest
<1>4. /\ QueueHonest' /\ queue' \in Seq(Operations) /\ queue' # <<>>
      /\ Len(queue) \in Nat /\ DOMAIN queue = 1..Len(queue)
      /\ DOMAIN queue' = 1..(Len(queue) + 1)
      /\ \A i \in 1..Len(queue) : queue'[i] = queue[i] /\ queue[i] \in Operations
      /\ queue'[Len(queue) + 1] = op
  <2>1. Typed /\ QueueHonest /\ batches' = batches
    BY DEF PushDelta, IInv, PricesFit
  <2> QED BY <1>1, <1>3, <2>1, CallKeepsQueue
<1>5. LinkFits' /\ NewestActs'
  BY LinkUnchanged DEF IInv, PushDelta, link, wires, backend, stores
<1>6. FramesHonest' /\ StoresHonest' /\ ObservedHonest'
  BY <1>1, CallKeepsFrames DEF IInv, PushDelta, wires, backend, stores
<1>7. /\ latest' \in Offer /\ known' \subseteq Fixtures /\ boot' \in 0..MaxTime
      /\ known \subseteq known' /\ boot' <= Now'
      /\ boot' # 0 => latest' = truth'[Now'] /\ Selections(latest') \subseteq known'
      /\ boot' = 0 => known' = {} /\ \A f \in Fixtures : held[f] = 0
  <2>1. CASE boot = 0
    <3>1. UNCHANGED cache
      BY <2>1 DEF PushDelta, ApplyLatest
    <3>2. /\ latest \in Offer /\ known = {} /\ \A f \in Fixtures : held[f] = 0
      BY <2>1 DEF IInv, CacheFits, Typed, TypeOK
    <3>3. latest' = latest /\ known' = {} /\ boot' = 0
      BY <2>1, <3>1, <3>2 DEF cache
    <3>4. Now' \in 1..MaxTime
      BY <1>1
    <3>5. 0 \in 0..MaxTime /\ 0 <= Now'
      BY <3>4 DEF Bounds, SinkBounds
    <3> QED BY <3>2, <3>3, <3>5
  <2>2. CASE boot # 0
    <3>1. latest' = [latest EXCEPT ![x] = price] /\ known' = known \cup {x} /\ boot' = Now + 1
      BY <2>2 DEF PushDelta, ApplyLatest
    <3>2. latest = truth[Now] /\ Selections(latest) \subseteq known /\ known \subseteq Fixtures
      BY <2>2 DEF IInv, CacheFits, Typed, TypeOK
    <3>3. latest' = offer
      BY <3>1, <3>2 DEF offer
    <3>4. Selections(latest') \subseteq known'
      BY <1>b, <3>1, <3>2, <3>3 DEF Selections
    <3> QED BY <1>1, <1>a, <3>1, <3>2, <3>3, <3>4
  <2> QED BY <2>1, <2>2
<1>8. Typed'
  <2>1. \A i \in DOMAIN queue' : queue'[i] \in Operations
    BY <1>3, <1>4
  <2> QED BY <1>1, <1>4, <1>7, <2>1
       DEF IInv, Typed, TypeOK, PushDelta, link, wires, backend, stores
<1>9. CacheFits'
  BY <1>7 DEF CacheFits, PushDelta
<1>10. HeldShowsLast'
  <2> SUFFICES ASSUME Connected', NEW f \in Fixtures PROVE ShowsLast(f)'
    BY DEF HeldShowsLast
  <2>1. CASE f = x
    <3>1. PICK j : j = Len(queue) + 1
      OBVIOUS
    <3>2. j \in DOMAIN queue' /\ queue'[j] = op
      BY <1>4, <3>1
    <3>3. Renews(queue[j], f)'
      BY <1>2, <2>1, <3>2 DEF Renews, Renewed
    <3> QED BY <3>2, <3>3 DEF ShowsLast
  <2>2. CASE f # x
    <3>1. truth'[Now'][f] = truth[Now][f]
      BY <1>1, <1>b, <2>2
    <3>2. Connected
      BY DEF Connected, PushDelta, link, wires
    <3>3. ShowsLast(f)
      BY <3>2 DEF IInv, PricesFit, HeldShowsLast
    <3>4. UNCHANGED <<up, coherent, held, session>>
      BY DEF PushDelta, link, wires, backend, stores
    <3>5. \A j \in DOMAIN queue : j \in DOMAIN queue' /\ queue'[j] = queue[j]
      BY <1>4
    <3> QED BY <3>1, <3>3, <3>4, <3>5, CallKeepsShowing DEF IInv
  <2> QED BY <2>1, <2>2
<1>11. ObservationsHonest'
  <2> SUFFICES ASSUME Connected', NEW i \in DOMAIN queue', queue'[i].kind = "observe",
                      NEW f \in Fixtures
               PROVE  Vouches(i, f)'
    BY DEF ObservationsHonest
  <2>1. i \in DOMAIN queue /\ queue[i].kind = "observe" /\ queue'[i] = queue[i]
        /\ queue[i] \in Operations
    BY <1>2, <1>4
  <2>2. Connected
    BY DEF Connected, PushDelta, link, wires
  <2>3. Vouches(i, f)
    BY <2>1, <2>2 DEF IInv, PricesFit, ObservationsHonest
  <2>5. UNCHANGED <<up, coherent, held, session>>
    BY DEF PushDelta, link, wires, backend, stores
  <2>6. \A j \in DOMAIN queue : queue'[j] = queue[j]
    BY <1>4
  <2> QED BY <1>1, <1>4, <1>7, <2>1, <2>3, <2>5, <2>6, CallKeepsVouching DEF IInv
<1> QED BY <1>4, <1>5, <1>6, <1>8, <1>9, <1>10, <1>11 DEF IInv, PricesFit

(* observeFixtureMarketBatches: what is held of a fixture that is seen     *)
(* shows the last look, unless a queued operation renews it first.         *)
LEMMA ObserveKeeps ==
  ASSUME Bounds, IInv, Observe
  PROVE  IInv'
<1> DEFINE seen == [f \in Fixtures |-> IF truth[Now][f] = 0 THEN 0 ELSE held[f]]
<1>a. truth[Now] \in Offer
  BY NowIsOffer DEF IInv
<1>1. /\ TimePasses /\ Now' = Now + 1 /\ Now' \in 1..MaxTime /\ Now \in 1..MaxTime
      /\ truth' \in Seq(Offer) /\ truth'[Now'] = truth[Now]
  BY <1>a, LookAddsMoment DEF Observe, IInv
<1>2. PICK op : op = [kind |-> "observe", items |-> seen, at |-> Now + 1]
  OBVIOUS
<1>3. op \in Operations /\ OperationHonest(op)' /\ batches \in Nat
  <2>1. held \in [Fixtures -> 0..batches] /\ batches \in Nat /\ batches' = batches
    BY DEF IInv, Typed, TypeOK, Observe
  <2>2. seen \in [Fixtures -> 0..batches]
    BY <2>1
  <2>3. op.kind = "observe" /\ op.at = Now' /\ op.items = seen
    BY <1>1, <1>2
  <2>4. op \in Operations
    <3>1. seen \in [Fixtures -> Nat] /\ Now + 1 \in 1..MaxTime
      BY <1>1, <2>1, <2>2
    <3> HIDE DEF seen
    <3> QED BY <1>2, <3>1 DEF Operations
  <2> HIDE DEF seen
  <2>5. \A f \in Fixtures : op.items[f] <= batches'
    BY <2>1, <2>2, <2>3
  <2> QED BY <1>1, <2>1, <2>3, <2>4, <2>5 DEF OperationHonest
<1>b. queue' = queue \/ queue' = Append(queue, op)
  BY <1>2 DEF Observe, Enqueue
<1>4. /\ QueueHonest' /\ queue' \in Seq(Operations) /\ (ready => queue' # <<>>)
      /\ Len(queue) \in Nat /\ DOMAIN queue = 1..Len(queue)
      /\ DOMAIN queue' \in {1..Len(queue), 1..(Len(queue) + 1)}
      /\ \A i \in 1..Len(queue) : queue'[i] = queue[i] /\ queue[i] \in Operations
      /\ Len(queue) + 1 \in DOMAIN queue' => queue'[Len(queue) + 1] = op
  <2>1. Typed /\ QueueHonest /\ batches' = batches
    BY DEF Observe, IInv, PricesFit
  <2>2. CASE queue' = Append(queue, op)
    BY <1>1, <1>3, <2>1, <2>2, CallKeepsQueue
  <2>3. CASE queue' = queue
    <3>1. Len(queue) \in Nat /\ DOMAIN queue = 1..Len(queue) /\ queue \in Seq(Operations)
      BY <2>1, LenProperties DEF Typed
    <3>2. \A i \in 1..Len(queue) : queue[i] \in Operations
      BY <3>1, ElementOfSeq
    <3>3. Len(queue) + 1 \notin DOMAIN queue
      BY <3>1
    <3>4. ASSUME NEW i \in DOMAIN queue' PROVE OperationHonest(queue[i])'
      <4>1. PICK old \in Operations : old = queue[i] /\ old = queue'[i]
        BY <2>3, <3>1, <3>2, <3>4
      <4>2. OperationHonest(old)'
        BY <1>1, <2>1, <2>3, <3>4, <4>1, OperationStays DEF QueueHonest
      <4> QED BY <4>1, <4>2 DEF OperationHonest
    <3>5. QueueHonest'
      BY <3>4 DEF QueueHonest
    <3>6. ready => queue # <<>>
      BY <2>1 DEF Typed, TypeOK
    <3> QED BY <2>3, <3>1, <3>2, <3>3, <3>5, <3>6
  <2> QED BY <1>b, <2>2, <2>3
<1>5. LinkFits' /\ NewestActs'
  BY LinkUnchanged DEF IInv, Observe, link, wires, backend, stores
<1>6. FramesHonest' /\ StoresHonest' /\ ObservedHonest'
  BY <1>1, CallKeepsFrames DEF IInv, Observe, wires, backend, stores
<1>7. Typed'
  <2>1. \A i \in DOMAIN queue' : queue'[i] \in Operations
    BY <1>4, ElementOfSeq
  <2> QED BY <1>1, <1>4, <2>1
       DEF IInv, Typed, TypeOK, Observe, cache, link, wires, backend, stores
<1>8. CacheFits'
  BY <1>1 DEF IInv, CacheFits, Observe, cache, Typed, TypeOK
<1>9. UNCHANGED <<up, coherent, held, session>>
  BY DEF Observe, link, wires, backend, stores
<1>10. Connected' => Connected
  BY DEF Connected, Observe, link, wires
<1>11. \A j \in DOMAIN queue : j \in DOMAIN queue' /\ queue'[j] = queue[j]
  BY <1>4
<1>12. HeldShowsLast'
  <2> SUFFICES ASSUME Connected', NEW f \in Fixtures PROVE ShowsLast(f)'
    BY DEF HeldShowsLast
  <2>1. truth'[Now'][f] = truth[Now][f]
    BY <1>1
  <2>2. ShowsLast(f)
    BY <1>10 DEF IInv, PricesFit, HeldShowsLast
  <2> QED BY <1>9, <1>11, <2>1, <2>2, CallKeepsShowing DEF IInv
<1>13. ObservationsHonest'
  <2> SUFFICES ASSUME Connected', NEW i \in DOMAIN queue', queue'[i].kind = "observe",
                      NEW f \in Fixtures
               PROVE  Vouches(i, f)'
    BY DEF ObservationsHonest
  <2>1. CASE i \in DOMAIN queue
    <3>1. queue[i].kind = "observe" /\ queue'[i] = queue[i] /\ queue[i] \in Operations
      BY <1>4, <2>1
    <3>2. Vouches(i, f)
      BY <1>10, <2>1, <3>1 DEF IInv, PricesFit, ObservationsHonest
    <3>3. \A j \in DOMAIN queue : queue'[j] = queue[j]
      BY <1>4
    <3>4. known \subseteq known'
      BY DEF Observe, cache
    <3> QED BY <1>1, <1>4, <1>9, <2>1, <3>1, <3>2, <3>3, <3>4, CallKeepsVouching DEF IInv
  <2>2. CASE i \notin DOMAIN queue
    <3>1. i = Len(queue) + 1 /\ queue'[i] = op
      BY <1>4, <2>2
    <3>2. queue'[i].at = Now' /\ queue'[i].items[f] = IF truth[Now][f] = 0 THEN 0 ELSE held[f]
      BY <1>1, <1>2, <3>1
    <3>3. ShowsLast(f)
      BY <1>10 DEF IInv, PricesFit, HeldShowsLast
    <3>4. CASE truth[Now][f] = 0
      BY <3>2, <3>4 DEF Vouches
    <3>5. CASE truth[Now][f] # 0 /\ held[f] = 0
      BY <3>2, <3>5 DEF Vouches
    <3>6. CASE truth[Now][f] # 0 /\ held[f] # 0
      <4>1. boot # 0 /\ f \in known
        BY <1>a, <3>6 DEF IInv, CacheFits, Selections
      <4>2. CASE \E j \in DOMAIN queue : Renews(queue[j], f)
        <5>1. PICK j \in DOMAIN queue : Renews(queue[j], f)
          BY <4>2
        <5>2. j \in 1..(i - 1) /\ Renews(queue[j], f)'
          BY <1>4, <3>1, <5>1 DEF Renews, Renewed, Selections
        <5>3. known' = known
          BY DEF Observe, cache
        <5> QED BY <4>1, <5>2, <5>3 DEF Vouches
      <4>3. CASE \A v \in Prices : Sent(f, held[f], session, v) => v = truth[Now][f]
        <5>1. \A v : Sent(f, held[f], session, v)' = Sent(f, held[f], session, v)
          BY <1>9 DEF Sent, OnWire
        <5>2. PICK at \in Nat : at = Now'
          BY <1>1
        <5>3. Now' \in at..Now'
          BY <1>1, <5>2
        <5>4. \A v : v = truth[Now][f] => OfferedSince(f, v, at)'
          BY <1>1, <5>3 DEF OfferedSince
        <5> QED BY <3>2, <4>3, <5>1, <5>2, <5>4 DEF Vouches, OfferedSince
      <4> QED BY <3>3, <3>6, <4>2, <4>3 DEF ShowsLast
    <3> QED BY <3>4, <3>5, <3>6
  <2> QED BY <2>1, <2>2
<1> QED BY <1>4, <1>5, <1>6, <1>7, <1>8, <1>12, <1>13 DEF IInv, PricesFit

(* heartbeat, pushAccountBalance and the responses say nothing of prices.  *)
LEMMA SendKeeps ==
  ASSUME Bounds, IInv, NEW kind \in {"heartbeat", "response"}, Send(kind)
  PROVE  IInv'
<1>1. PICK op : op = [kind |-> kind]
  OBVIOUS
<1>2. op \in Operations /\ OperationHonest(op)' /\ queue' = Append(queue, op)
  BY <1>1 DEF Operations, OperationHonest, Send, Enqueue
<1>3. TimePasses /\ Now' = Now
  BY NowIsOffer DEF TimePasses, Send, IInv, Now
<1>4. /\ QueueHonest' /\ queue' \in Seq(Operations) /\ queue' # <<>>
      /\ Len(queue) \in Nat /\ DOMAIN queue = 1..Len(queue)
      /\ DOMAIN queue' = 1..(Len(queue) + 1)
      /\ \A i \in 1..Len(queue) : queue'[i] = queue[i] /\ queue[i] \in Operations
      /\ queue'[Len(queue) + 1] = op
  <2>1. Typed /\ QueueHonest /\ batches' = batches
    BY DEF Send, IInv, PricesFit
  <2> QED BY <1>2, <1>3, <2>1, CallKeepsQueue
<1>5. LinkFits' /\ NewestActs'
  BY LinkUnchanged DEF IInv, Send, link, wires, backend, stores
<1>6. FramesHonest' /\ StoresHonest' /\ ObservedHonest'
  BY <1>3, CallKeepsFrames DEF IInv, Send, wires, backend, stores
<1>7. Typed'
  <2>1. \A i \in DOMAIN queue' : queue'[i] \in Operations
    BY <1>2, <1>4
  <2> QED BY <1>3, <1>4, <2>1
       DEF IInv, Typed, TypeOK, Send, cache, link, wires, backend, stores
<1>8. CacheFits'
  BY <1>3 DEF IInv, CacheFits, Send, cache
<1>9. UNCHANGED <<up, coherent, held, session, truth, known>>
  BY DEF Send, cache, link, wires, backend, stores
<1>10. Connected' => Connected
  BY DEF Connected, Send, link, wires
<1>11. \A j \in DOMAIN queue : j \in DOMAIN queue' /\ queue'[j] = queue[j]
  BY <1>4
<1>12. HeldShowsLast'
  <2> SUFFICES ASSUME Connected', NEW f \in Fixtures PROVE ShowsLast(f)'
    BY DEF HeldShowsLast
  <2>1. truth'[Now'][f] = truth[Now][f]
    BY <1>3, <1>9
  <2>2. ShowsLast(f)
    BY <1>10 DEF IInv, PricesFit, HeldShowsLast
  <2> QED BY <1>9, <1>11, <2>1, <2>2, CallKeepsShowing DEF IInv
<1>13. ObservationsHonest'
  <2> SUFFICES ASSUME Connected', NEW i \in DOMAIN queue', queue'[i].kind = "observe",
                      NEW f \in Fixtures
               PROVE  Vouches(i, f)'
    BY DEF ObservationsHonest
  <2>1. i \in DOMAIN queue /\ queue[i].kind = "observe" /\ queue'[i] = queue[i]
        /\ queue[i] \in Operations
    BY <1>1, <1>4
  <2>2. Vouches(i, f)
    BY <1>10, <2>1 DEF IInv, PricesFit, ObservationsHonest
  <2>3. \A j \in DOMAIN queue : queue'[j] = queue[j]
    BY <1>4
  <2> QED BY <1>3, <1>4, <1>9, <2>1, <2>2, <2>3, CallKeepsVouching DEF IInv
<1> QED BY <1>4, <1>5, <1>6, <1>7, <1>8, <1>12, <1>13 DEF IInv, PricesFit

-----------------------------------------------------------------------------
(* The work on the queue                                                   *)

(* A running operation, of an acknowledged connection or an open socket,   *)
(* sends what is honest and keeps what is said of prices.                  *)
LEMMA PerformKeepsPrices ==
  ASSUME Bounds, IInv, queue # <<>>, Connected, Perform(Head(queue)),
         UNCHANGED <<truth, cache, cur, session, sock, backend, faults>>, ready' = FALSE,
         down' \in [Connections -> Seq(Answers)]
  PROVE  /\ PricesFit' /\ cur \in Connections /\ cur = session
         /\ up' \in [Connections -> Seq(Frames)]
         /\ \A h \in Connections \ {cur} : up'[h] = up[h]
         /\ up[cur] # <<>> => up'[cur] # <<>> /\ Head(up'[cur]) = Head(up[cur])
         /\ Typed' /\ CacheFits' /\ queue' = Tail(queue)
<1>1. cur \in Connections /\ cur = session /\ session # 0
  BY DEF IInv, LinkFits, Connected, Typed, TypeOK, Connections, Bounds, StreamBounds
<1>2. PICK op : op = Head(queue)
  OBVIOUS
<1>3. /\ up' \in [Connections -> Seq(Frames)]
      /\ \A h \in Connections \ {cur} : up'[h] = up[h]
      /\ up[cur] # <<>> => up'[cur] # <<>> /\ Head(up'[cur]) = Head(up[cur])
      /\ \A h \in Connections : \A frame \in OnWire(h)' :
           frame \in OnWire(h) \/ (h = cur /\ NewFrame(frame, op))
      /\ batches' \in Nat /\ batches <= batches' /\ held' \in [Fixtures -> 0..batches']
      /\ \A f \in Fixtures :
           /\ held'[f] = held[f] \/ (f \in known /\ batches < held'[f])
           /\ f \in Renewed(op) \cap known => batches < held'[f]
  BY <1>1, <1>2, PerformFacts DEF IInv, PricesFit
<1>4. /\ op \in Operations /\ OperationHonest(op) /\ op = queue[1] /\ 1 \in DOMAIN queue
  BY <1>2, HeadFacts DEF IInv, PricesFit
<1>5. /\ queue' = Tail(queue) /\ queue' \in Seq(Operations) /\ Len(queue) \in Nat
      /\ DOMAIN queue = 1..Len(queue) /\ Len(queue') = Len(queue) - 1
      /\ DOMAIN queue' = 1..(Len(queue) - 1)
      /\ \A i \in DOMAIN queue' : queue'[i] = queue[i + 1] /\ i + 1 \in 2..Len(queue)
  BY Taken DEF IInv, Typed, Perform
<1>6. batches \in Nat /\ held \in [Fixtures -> 0..batches]
      /\ \A f \in Fixtures : coherent[f].batch \in 0..batches
  BY DEF IInv, Typed, TypeOK
<1>a. UNCHANGED <<legacy, coherent>>
  BY DEF backend, stores
<1>7. \A g \in Connections : \A frame \in OnWire(g) :
        /\ frame \in Frames
        /\ frame.t = "fixture_market_snapshot" => frame.batch <= batches /\ frame.batch \in Nat \ {0}
        /\ frame.t = "fixture_observed_batch" =>
             frame.items \in [Fixtures -> Nat] /\ \A f \in Fixtures : frame.items[f] <= batches
  <2> SUFFICES ASSUME NEW g \in Connections, NEW frame \in OnWire(g)
               PROVE  /\ frame \in Frames
                      /\ frame.t = "fixture_market_snapshot" =>
                           frame.batch <= batches /\ frame.batch \in Nat \ {0}
                      /\ frame.t = "fixture_observed_batch" =>
                           /\ frame.items \in [Fixtures -> Nat]
                           /\ \A f \in Fixtures : frame.items[f] <= batches
    OBVIOUS
  <2>1. up[g] \in Seq(Frames) /\ \E i \in DOMAIN up[g] : up[g][i] = frame
    BY DEF OnWire, IInv, Typed
  <2>2. frame \in Frames
    BY <2>1
  <2>3. /\ frame.t = "fixture_market_snapshot" => frame.batch \in Nat \ {0}
        /\ frame.t = "fixture_observed_batch" => frame.items \in [Fixtures -> Nat]
    BY <2>2 DEF Frames
  <2> QED BY <2>2, <2>3 DEF IInv, PricesFit, FramesHonest
<1>8. \A frame : NewFrame(frame, op) /\ frame.t = "fixture_market_snapshot" =>
        /\ batches < frame.batch /\ frame.batch <= batches'
        /\ frame.val = latest[frame.fixture] /\ frame.fixture \in known
  BY <1>3, <1>6 DEF NewFrame, Priced
<1>9. /\ \A f, v, at : Honest(f, v, at)' = Honest(f, v, at)
      /\ \A f, v, at : OfferedSince(f, v, at)' = OfferedSince(f, v, at)
      /\ Now' = Now /\ truth' = truth
  BY DEF Honest, OfferedSince, Now
<1>10. ASSUME NEW f \in Fixtures, NEW b \in 0..batches, NEW g \in Connections, NEW v,
              Sent(f, b, g, v)'
       PROVE  Sent(f, b, g, v)
  <2>1. CASE coherent'[f].session = g /\ coherent'[f].batch = b /\ coherent'[f].val = v
    BY <1>a, <2>1 DEF Sent
  <2>2. CASE \E frame \in OnWire(g)' :
               /\ frame.t = "fixture_market_snapshot"
               /\ frame.fixture = f /\ frame.batch = b /\ frame.val = v
    <3>1. PICK frame \in OnWire(g)' : /\ frame.t = "fixture_market_snapshot"
                                      /\ frame.fixture = f /\ frame.batch = b /\ frame.val = v
      BY <2>2
    <3>2. ~NewFrame(frame, op)
      BY <1>6, <1>8, <3>1
    <3>3. frame \in OnWire(g)
      BY <1>3, <3>1, <3>2
    <3> QED BY <3>1, <3>3 DEF Sent
  <2> QED BY <1>10, <2>1, <2>2 DEF Sent
<1>11. FramesHonest'
  <2> SUFFICES ASSUME NEW g \in Connections, NEW frame \in OnWire(g)'
               PROVE  /\ frame.t = "quote_upsert_batch" =>
                           \A f \in DOMAIN frame.vals : Honest(f, frame.vals[f], frame.at)
                      /\ frame.t = "fixture_market_snapshot" =>
                           Honest(frame.fixture, frame.val, frame.at) /\ frame.batch <= batches'
                      /\ frame.t = "fixture_observed_batch" =>
                           \A f \in Fixtures : frame.items[f] <= batches'
    BY <1>9 DEF FramesHonest
  <2>1. CASE frame \in OnWire(g)
    <3>1. /\ frame.t = "quote_upsert_batch" =>
               \A f \in DOMAIN frame.vals : Honest(f, frame.vals[f], frame.at)
          /\ frame.t = "fixture_market_snapshot" =>
               Honest(frame.fixture, frame.val, frame.at) /\ frame.batch <= batches
          /\ frame.t = "fixture_observed_batch" =>
               \A f \in Fixtures : frame.items[f] <= batches
      BY <2>1 DEF IInv, PricesFit, FramesHonest
    <3>2. \A n \in Nat : n <= batches => n <= batches'
      BY <1>3, <1>6
    <3> QED BY <1>7, <2>1, <3>1, <3>2
  <2>2. CASE NewFrame(frame, op)
    <3>1. CASE Priced(frame, batches, batches')
      BY <1>8, <2>2, <3>1 DEF Priced
    <3>2. CASE /\ op.kind = "observe" /\ frame.t = "fixture_observed_batch"
               /\ \A f \in Fixtures : frame.items[f] # 0 => frame.items[f] = op.items[f]
      <4>1. \A f \in Fixtures : op.items[f] <= batches /\ op.items[f] \in Nat
        BY <1>4, <3>2, OperationFacts DEF OperationHonest
      <4>2. ASSUME NEW f \in Fixtures PROVE frame.items[f] <= batches'
        <5>1. PICK n \in Nat : n = op.items[f] /\ n <= batches
          BY <4>1
        <5>2. frame.items[f] = 0 \/ frame.items[f] = n
          BY <3>2, <5>1
        <5>3. 0 <= batches' /\ n <= batches'
          BY <1>3, <1>6, <5>1
        <5> QED BY <5>2, <5>3
      <4> QED BY <3>2, <4>2
    <3> QED BY <2>2, <3>1, <3>2 DEF NewFrame
  <2> QED BY <1>3, <2>1, <2>2
<1>12. StoresHonest'
  BY <1>9, <1>a DEF IInv, PricesFit, StoresHonest
<1>13. QueueHonest'
  <2>1. ASSUME NEW i \in DOMAIN queue' PROVE OperationHonest(queue[i])'
    <3>1. PICK o \in Operations : o = queue[i + 1] /\ o = queue'[i] /\ i + 1 \in DOMAIN queue
      BY <1>5, ElementOfSeq DEF IInv, Typed
    <3>2. OperationHonest(o)
      BY <3>1 DEF IInv, PricesFit, QueueHonest
    <3>3. o.kind = "observe" => \A f \in Fixtures : o.items[f] \in Nat
      BY OperationFacts
    <3>4. \A n \in Nat : n <= batches => n <= batches'
      BY <1>3, <1>6
    <3>5. OperationHonest(o)'
      BY <1>9, <3>2, <3>3, <3>4 DEF OperationHonest
    <3> QED BY <3>1, <3>5 DEF OperationHonest
  <2> QED BY <2>1 DEF QueueHonest
<1>14. HeldShowsLast'
  <2> SUFFICES ASSUME NEW f \in Fixtures PROVE ShowsLast(f)'
    BY DEF HeldShowsLast
  <2>1. PICK b \in Nat : b = held'[f]
    BY <1>3
  <2>2. PICK s \in Connections : s = session
    BY <1>1
  <2>3. \A v : Sent(f, held[f], session, v)' => Sent(f, b, s, v)'
    BY <2>1, <2>2 DEF Sent, OnWire
  <2>4. ShowsLast(f)
    BY DEF IInv, PricesFit, HeldShowsLast
  <2>5. CASE truth[Now][f] = 0
    BY <1>9, <2>5 DEF ShowsLast
  <2>6. CASE \E j \in DOMAIN queue \ {1} : Renews(queue[j], f)
    <3>1. PICK j \in DOMAIN queue \ {1} : Renews(queue[j], f)
      BY <2>6
    <3>2. PICK k : k = j - 1
      OBVIOUS
    <3>3. k \in DOMAIN queue' /\ k + 1 = j
      BY <1>5, <3>1, <3>2
    <3>4. queue'[k] = queue[j]
      BY <1>5, <3>3
    <3>5. Renews(queue[k], f)'
      BY <3>1, <3>4 DEF Renews, Renewed, Selections
    <3> QED BY <3>3, <3>5 DEF ShowsLast
  <2>7. CASE truth[Now][f] # 0 /\ \A j \in DOMAIN queue \ {1} : ~Renews(queue[j], f)
    <3> SUFFICES ASSUME NEW v \in Prices, Sent(f, b, s, v)'
                 PROVE  v = truth[Now][f]
      BY <1>9, <2>3 DEF ShowsLast
    <3>1. CASE batches < b
      <4>1. coherent'[f].batch # b
        BY <1>6, <1>a, <3>1
      <4>2. PICK frame \in OnWire(s)' : /\ frame.t = "fixture_market_snapshot"
                                        /\ frame.fixture = f /\ frame.batch = b /\ frame.val = v
        BY <4>1 DEF Sent
      <4>3. frame \notin OnWire(s)
        BY <1>6, <1>7, <3>1, <4>2
      <4>4. v = latest[f] /\ f \in known
        BY <1>3, <1>8, <4>2, <4>3
      <4> QED BY <4>4 DEF IInv, CacheFits
    <3>2. CASE ~(batches < b)
      <4>1. b \in 0..batches /\ held[f] = b /\ f \notin Renewed(op) \cap known
        BY <1>3, <1>6, <2>1, <3>2
      <4>2. Sent(f, b, s, v)
        BY <1>10, <4>1
      <4>3. CASE boot = 0
        <5>1. b = 0
          BY <4>1, <4>3 DEF IInv, CacheFits
        <5>2. coherent[f].session = s => coherent[f].batch # 0
          BY <2>2 DEF IInv, PricesFit, StoresHonest, Connections
        <5> QED BY <1>7, <4>2, <5>1, <5>2 DEF Sent
      <4>4. CASE boot # 0
        <5>1. f \in known
          BY <2>7, <4>4, NowIsOffer DEF IInv, CacheFits, Selections
        <5>2. ~Renews(queue[1], f)
          BY <1>4, <4>1, <5>1 DEF Renews
        <5> QED BY <2>2, <2>4, <2>7, <4>1, <4>2, <5>2 DEF ShowsLast
      <4> QED BY <4>3, <4>4
    <3> QED BY <3>1, <3>2
  <2> QED BY <2>5, <2>6, <2>7
<1>15. ObservationsHonest'
  <2> SUFFICES ASSUME NEW i \in DOMAIN queue', queue'[i].kind = "observe", NEW f \in Fixtures
               PROVE  Vouches(i, f)'
    BY DEF ObservationsHonest
  <2>1. PICK o \in Operations : o = queue[i + 1] /\ o = queue'[i] /\ i + 1 \in DOMAIN queue
    BY <1>5, ElementOfSeq DEF IInv, Typed
  <2>2. o.kind = "observe" /\ o.items \in [Fixtures -> Nat] /\ o.items[f] <= batches
    BY <2>1, OperationFacts DEF IInv, PricesFit, QueueHonest, OperationHonest
  <2>3. CASE o.items[f] = 0 \/ o.items[f] # held'[f]
    BY <2>1, <2>3 DEF Vouches
  <2>4. CASE o.items[f] # 0 /\ o.items[f] = held'[f]
    <3>1. PICK b \in 0..batches : b = o.items[f]
      BY <1>6, <2>2
    <3>2. held'[f] = b /\ held[f] = b /\ f \notin Renewed(op) \cap known
      BY <1>3, <1>6, <2>4, <3>1
    <3>3. PICK s \in Connections : s = session
      BY <1>1
    <3>4. Vouches(i + 1, f)
      BY <2>1, <2>2 DEF IInv, PricesFit, ObservationsHonest
    <3>5. CASE f \in known /\ \E j \in 1..((i + 1) - 1) : Renews(queue[j], f)
      <4>1. PICK j \in 1..i : Renews(queue[j], f)
        BY <1>5, <3>5
      <4>2. j # 1
        BY <1>4, <3>2, <3>5, <4>1 DEF Renews
      <4>3. PICK k : k = j - 1
        OBVIOUS
      <4>4. k \in 1..(i - 1) /\ k \in DOMAIN queue' /\ k + 1 = j
        BY <1>5, <4>1, <4>2, <4>3
      <4>5. queue'[k] = queue[j] /\ known' = known
        BY <1>5, <4>4 DEF cache
      <4>6. Renews(queue[k], f)'
        BY <4>1, <4>5 DEF Renews, Renewed, Selections
      <4> QED BY <3>5, <4>4, <4>5, <4>6 DEF Vouches
    <3>6. CASE \A v \in Prices \ {0} :
                 Sent(f, held[f], session, v) => OfferedSince(f, v, queue[i + 1].at)
      <4>1. \A v : Sent(f, held[f], session, v)' => Sent(f, b, s, v)'
        BY <3>2, <3>3 DEF Sent, OnWire
      <4>2. \A v : Sent(f, b, s, v)' => Sent(f, held[f], session, v)
        BY <1>10, <3>2, <3>3
      <4>3. \A v \in Prices \ {0} : Sent(f, held[f], session, v)' => OfferedSince(f, v, o.at)
        BY <2>1, <3>6, <4>1, <4>2
      <4>4. \A v : OfferedSince(f, v, queue[i].at)' <=> OfferedSince(f, v, o.at)
        BY <1>9, <2>1 DEF OfferedSince
      <4> QED BY <4>3, <4>4 DEF Vouches
    <3> QED BY <2>1, <2>4, <3>1, <3>2, <3>4, <3>5, <3>6 DEF Vouches
  <2> QED BY <2>3, <2>4
<1>16. ObservedHonest'
  <2> SUFFICES ASSUME NEW g \in Connections, NEW frame \in OnWire(g)', NEW f \in Fixtures,
                      frame.t = "fixture_observed_batch"
               PROVE  Vouched(g, frame, f)'
    BY DEF ObservedHonest
  <2>1. CASE frame \in OnWire(g)
    <3>1. Vouched(g, frame, f) /\ frame.items[f] \in 0..batches
      BY <1>6, <1>7, <2>1 DEF IInv, PricesFit, ObservedHonest
    <3>2. \A v : Sent(f, frame.items[f], g, v)' => Sent(f, frame.items[f], g, v)
      BY <1>10, <3>1
    <3> QED BY <1>9, <3>1, <3>2 DEF Vouched
  <2>2. CASE g = cur /\ NewFrame(frame, op)
    <3>1. /\ op.kind = "observe" /\ frame.at = op.at
          /\ frame.items[f] # 0 => frame.items[f] = op.items[f] /\ held'[f] = op.items[f]
      BY <2>2 DEF NewFrame, Priced
    <3>2. CASE frame.items[f] = 0
      BY <3>2 DEF Vouched
    <3>3. CASE frame.items[f] # 0
      <4>1. op.items[f] <= batches /\ op.items[f] \in Nat
        BY <1>4, <3>1, OperationFacts DEF OperationHonest
      <4>2. PICK b \in 0..batches : b = op.items[f]
        BY <1>6, <4>1
      <4>3. held'[f] = b /\ held[f] = b /\ b # 0 /\ frame.items[f] = b
        BY <1>3, <1>6, <3>1, <3>3, <4>2
      <4>4. Vouches(1, f)
        BY <1>4, <3>1 DEF IInv, PricesFit, ObservationsHonest
      <4>5. \A v \in Prices \ {0} : Sent(f, b, session, v) => OfferedSince(f, v, op.at)
        BY <1>4, <4>2, <4>3, <4>4 DEF Vouches
      <4>6. \A v : Sent(f, frame.items[f], g, v)' => Sent(f, b, session, v)
        BY <1>1, <1>10, <2>2, <4>3
      <4> QED BY <1>9, <3>1, <4>5, <4>6 DEF Vouched
    <3> QED BY <3>2, <3>3
  <2> QED BY <1>3, <2>1, <2>2
<1>17. Typed'
  <2>1. \A f \in Fixtures : coherent'[f] \in [val : Prices, at : 0..MaxTime,
                                           session : 0..MaxConnections, batch : 0..batches']
    <3>1. 0..batches \subseteq 0..batches'
      BY <1>3, <1>6
    <3> QED BY <3>1 DEF IInv, Typed, TypeOK, backend, stores
  <2>2. \A i \in DOMAIN queue' : queue'[i] \in Operations
    BY <1>5, ElementOfSeq
  <2>3. pendingResync' \in BOOLEAN
    BY DEF Perform
  <2> QED BY <1>3, <1>5, <2>1, <2>2, <2>3 DEF IInv, Typed, TypeOK, cache, backend, stores, Now
<1>18. CacheFits'
  BY <1>3 DEF IInv, CacheFits, cache, Now
<1> QED BY <1>1, <1>3, <1>5, <1>11, <1>12, <1>13, <1>14, <1>15, <1>16, <1>17, <1>18 DEF PricesFit

(* The connection in use is open, and the backend has seen it.             *)
LEMMA WireInUse ==
  ASSUME Bounds, IInv, Connected
  PROVE  /\ cur \in Connections /\ cur = session /\ sock[cur] = "open" /\ peer[cur] # "none"
         /\ ready => NoBatch(cur)
  BY DEF IInv, LinkFits, Connected, Typed, TypeOK, Connections, Bounds, StreamBounds

(* What a running operation keeps of the connections.                      *)
LEMMA PerformKeepsLink ==
  ASSUME Bounds, IInv, Connected, cur \in Connections,
         \A h \in Connections \ {cur} : up'[h] = up[h],
         up[cur] # <<>> => up'[cur] # <<>>,
         ready' = FALSE, UNCHANGED <<cur, session, sock, backend>>
  PROVE  LinkFits' /\ NewestActs'
<1>1. NewestActs'
  BY DEF IInv, NewestActs, Greeted, backend
<1>2. \A g \in Connections \ {cur} : OnWire(g)' = OnWire(g)
  BY DEF OnWire
<1>3. peer[cur] # "none" /\ sock[cur] = "open"
  BY WireInUse
<1>4. \A g \in Connections : peer[g] = "none" => NoBatch(g)'
  BY <1>2, <1>3 DEF IInv, LinkFits, NoBatch, backend, stores
<1>5. LinkFits'
  BY <1>3, <1>4 DEF IInv, LinkFits, Greeted, backend
<1> QED BY <1>1, <1>5

(* Nothing of the cache is touched.                                        *)
LEMMA CacheUnchanged ==
  ASSUME CacheFits, UNCHANGED <<truth, latest, known, boot, held>>
  PROVE  CacheFits'
  BY DEF CacheFits, Now

(* An operation that runs.                                                 *)
LEMMA RunOperationKeeps ==
  ASSUME Bounds, IInv, RunOperation
  PROVE  IInv'
<1>1. /\ queue # <<>> /\ Connected /\ Perform(Head(queue)) /\ ready' = FALSE
      /\ UNCHANGED <<truth, cache, cur, session, sock, backend, faults>>
      /\ down' \in [Connections -> Seq(Answers)]
  BY DEF RunOperation, link, IInv, Typed, TypeOK
<1>2. /\ PricesFit' /\ Typed' /\ CacheFits' /\ cur \in Connections
      /\ \A h \in Connections \ {cur} : up'[h] = up[h]
      /\ up[cur] # <<>> => up'[cur] # <<>>
  BY <1>1, PerformKeepsPrices
<1>3. LinkFits' /\ NewestActs'
  BY <1>1, <1>2, PerformKeepsLink
<1> QED BY <1>2, <1>3 DEF IInv

(* A quiet step changes nothing an operation carries.                      *)
QuietData == UNCHANGED <<truth, cache, held, batches, stores>>

(* startConnection: nothing went out on the new connection.                *)
LEMMA StartConnectionKeeps ==
  ASSUME Bounds, IInv, StartConnection
  PROVE  IInv'
<1>1. /\ QuietData /\ UNCHANGED <<queue, up, down, backend, faults>>
      /\ queue # <<>> /\ session' = session + 1 /\ cur' = session + 1
      /\ sock' = [sock EXCEPT ![session + 1] = "connecting"] /\ ready' = TRUE
  BY DEF StartConnection, QuietData, backend, stores
<1>2. session + 1 \in Connections /\ session \in Nat
  BY DEF StartConnection, IInv, Typed, TypeOK, Connections, Bounds, StreamBounds
<1>3. sock[session + 1] = "none" /\ NoBatch(session + 1) /\ up[session + 1] = <<>>
      /\ peer[session + 1] = "none"
  BY <1>2 DEF IInv, LinkFits, Connections
<1>4. Typed'
  <2>1. session' \in 0..MaxConnections /\ cur' \in 0..session'
    BY <1>1, <1>2 DEF Connections
  <2>2. sock' \in [Connections -> {"none", "connecting", "open", "closing", "closed"}]
    BY <1>1 DEF IInv, Typed, TypeOK
  <2>3. ready' \in BOOLEAN /\ pendingResync' \in BOOLEAN /\ (ready' => queue' # <<>>)
    BY <1>1 DEF StartConnection
  <2> QED BY <1>1, <2>1, <2>2, <2>3 DEF IInv, Typed, TypeOK, QuietData, cache, backend, stores, Now
<1>5. LinkFits'
  <2>1. PICK s \in Connections : s = session + 1
    BY <1>2
  <2>2. \A g \in Connections : NoBatch(g)' = NoBatch(g) /\ Greeted' = Greeted
    BY <1>1 DEF NoBatch, OnWire, Greeted, backend, stores
  <2>3. \A g \in Connections \ {s} : sock'[g] = sock[g]
    BY <1>1, <2>1 DEF IInv, Typed, TypeOK
  <2>4. sock'[s] = "connecting" /\ s # 0
    BY <1>1, <2>1 DEF IInv, Typed, TypeOK, Connections
  <2>5. \A g \in Connections : g > s => g > session /\ g # s
    BY <1>2, <2>1 DEF Connections
  <2> QED BY <1>1, <1>3, <2>1, <2>2, <2>3, <2>4, <2>5 DEF IInv, LinkFits, NoBatch, OnWire, backend, stores
<1>6. NewestActs'
  BY <1>1 DEF IInv, NewestActs, Greeted, backend
<1>7. CacheFits'
  BY <1>1, CacheUnchanged DEF IInv, QuietData, cache
<1>8. PricesFit'
  <2>1. FramesKept /\ QueueKept
    BY <1>1 DEF FramesKept, QueueKept, OnWire
  <2>2. NothingSent
    BY <1>1, <2>1, KeptSendsNothing DEF backend, stores
  <2>3. ~Connected'
    BY <1>1, <1>2 DEF Connected, IInv, Typed, TypeOK
  <2>4. StoresHonest'
    BY <1>1 DEF IInv, PricesFit, StoresHonest, Honest, OfferedSince, Now, QuietData, stores
  <2> QED BY <1>1, <2>1, <2>2, <2>3, <2>4, QuietKeepsPrices DEF IInv, QuietData, cache, LinkKept
<1> QED BY <1>4, <1>5, <1>6, <1>7, <1>8 DEF IInv

(* The bound on connections: an operation fails and nothing else changes.  *)
LEMMA NoMoreConnectionsKeeps ==
  ASSUME Bounds, IInv, NoMoreConnections
  PROVE  IInv'
<1>1. /\ QuietData /\ UNCHANGED <<link, pendingResync, wires, backend, faults>>
      /\ queue # <<>> /\ ~ready /\ ~Connected /\ queue' = Tail(queue)
  BY DEF NoMoreConnections, QuietData, backend, stores
<1>2. /\ queue' \in Seq(Operations) /\ DOMAIN queue' = 1..Len(queue') /\ DOMAIN queue = 1..Len(queue)
      /\ \A i \in DOMAIN queue' : queue'[i] = queue[i + 1] /\ i + 1 \in DOMAIN queue
  BY <1>1, Taken DEF IInv, Typed
<1>3. Typed'
  <2>1. \A i \in DOMAIN queue' : queue'[i] \in Operations
    BY <1>2, ElementOfSeq
  <2> QED BY <1>1, <1>2, <2>1
       DEF IInv, Typed, TypeOK, QuietData, cache, link, wires, backend, stores, Now
<1>4. LinkFits' /\ NewestActs'
  BY <1>1, LinkUnchanged DEF IInv, link, wires, backend, stores
<1>5. CacheFits'
  BY <1>1, CacheUnchanged DEF IInv, QuietData, cache
<1>6. PricesFit'
  <2>1. FramesKept
    BY <1>1 DEF FramesKept, OnWire, wires
  <2>2. NothingSent
    BY <1>1, <2>1, KeptSendsNothing DEF backend, stores
  <2>3. ~Connected'
    BY <1>1 DEF Connected, link, wires
  <2>4. StoresHonest'
    BY <1>1 DEF IInv, PricesFit, StoresHonest, Honest, OfferedSince, Now, QuietData, stores
  <2>5. QueueKept
    BY <1>2 DEF QueueKept
  <2> QED BY <1>1, <2>1, <2>2, <2>3, <2>4, <2>5, QuietKeepsPrices
       DEF IInv, QuietData, cache, LinkKept
<1> QED BY <1>3, <1>4, <1>5, <1>6 DEF IInv

-----------------------------------------------------------------------------
(* The events of the sockets                                               *)

(* What readyReject leaves of the queue.                                   *)
LEMMA RejectTakesOne ==
  ASSUME Typed, Reject
  PROVE  /\ ready' = FALSE /\ queue' \in Seq(Operations)
         /\ \A i \in DOMAIN queue' : queue'[i] \in Operations
         /\ ~ready => queue' = queue
         /\ QueueKept
<1>1. CASE ready
  <2>1. queue # <<>> /\ queue' = Tail(queue) /\ queue \in Seq(Operations)
    BY <1>1 DEF Typed, TypeOK, Reject
  <2>2. /\ queue' \in Seq(Operations) /\ DOMAIN queue' = 1..Len(queue') /\ DOMAIN queue = 1..Len(queue)
        /\ \A i \in DOMAIN queue' : queue'[i] = queue[i + 1] /\ i + 1 \in DOMAIN queue
    BY <2>1, Taken
  <2> QED BY <1>1, <2>1, <2>2, ElementOfSeq DEF Reject, QueueKept
<1>2. CASE ~ready
  BY <1>2 DEF Typed, TypeOK, Reject, QueueKept
<1> QED BY <1>1, <1>2

(* "open" of a socket: at most a hello goes out, on the connection in use. *)
LEMMA SocketOpenKeeps ==
  ASSUME Bounds, IInv, NEW g \in Connections, SocketOpen(g)
  PROVE  IInv'
<1> DEFINE target == IF cur = 0 THEN "none" ELSE IF cur = g THEN "open" ELSE sock[cur]
<1>1. /\ QuietData /\ sock[g] = "connecting"
      /\ sock' = [sock EXCEPT ![g] = "open"] /\ peer' = [peer EXCEPT ![g] = "open"]
      /\ UNCHANGED <<cur, session, pendingResync, down, greeted, checked, active, members, faults>>
  BY DEF SocketOpen, QuietData, cache, stores
<1>2. \/ /\ target = "open" /\ up' = [up EXCEPT ![cur] = Append(@, [t |-> "hello"])]
         /\ UNCHANGED <<ready, queue>>
      \/ /\ up' = up /\ target # "open"
         /\ Reject \/ (UNCHANGED <<ready, queue>>)
  BY DEF SocketOpen
<1>3. /\ ~(g > session) /\ peer[g] = "none" /\ up[g] = <<>> /\ NoBatch(g)
  BY <1>1 DEF IInv, LinkFits
<1>4. cur # 0 => cur \in Connections /\ cur = session
  BY DEF IInv, LinkFits, Typed, TypeOK, Connections, Bounds, StreamBounds
<1>5. /\ up' \in [Connections -> Seq(Frames)] /\ FramesKept
      /\ \A h \in Connections : up'[h] # up[h] => h = cur /\ target = "open"
      /\ \A h \in Connections : up[h] # <<>> => up'[h] # <<>>
  <2>1. CASE target = "open" /\ up' = [up EXCEPT ![cur] = Append(@, [t |-> "hello"])]
    <3>1. cur \in Connections
      BY <1>4, <2>1
    <3>2. PICK e : e = [t |-> "hello"]
      OBVIOUS
    <3>3. e \in Frames /\ e.t = "hello" /\ up' = [up EXCEPT ![cur] = Append(@, e)]
      BY <2>1, <3>2 DEF Frames
    <3>4. /\ up' \in [Connections -> Seq(Frames)]
          /\ \A h \in Connections : \A frame \in OnWire(h)' : frame \in OnWire(h) \/ frame = e
      BY <3>1, <3>3, WireAppended DEF IInv
    <3>5. \A h \in Connections \ {cur} : up'[h] = up[h]
      BY <2>1 DEF IInv, Typed
    <3>6. up'[cur] # <<>>
      <4>1. up'[cur] = Append(up[cur], e) /\ up[cur] \in Seq(Frames)
        BY <3>1, <3>3 DEF IInv, Typed
      <4> QED BY <3>3, <4>1, Appended
    <3> QED BY <2>1, <3>3, <3>4, <3>5, <3>6 DEF FramesKept
  <2>2. CASE up' = up
    BY <2>2 DEF IInv, Typed, FramesKept, OnWire
  <2> QED BY <1>2, <2>1, <2>2
<1>6. /\ queue' \in Seq(Operations) /\ (\A i \in DOMAIN queue' : queue'[i] \in Operations)
      /\ QueueKept /\ ready' \in BOOLEAN /\ (ready' => ready /\ queue' # <<>>)
      /\ \/ ready' = ready /\ queue' = queue
         \/ ready' = FALSE /\ target # "open" /\ (~ready => queue' = queue)
  <2>1. CASE UNCHANGED <<ready, queue>>
    BY <2>1 DEF IInv, Typed, TypeOK, QueueKept
  <2>2. CASE Reject /\ target # "open"
    BY <2>2, RejectTakesOne DEF IInv
  <2> QED BY <1>2, <2>1, <2>2
<1>7. Typed'
  BY <1>1, <1>5, <1>6 DEF IInv, Typed, TypeOK, QuietData, cache, stores, Now
<1>8. NewestActs'
  BY <1>1 DEF IInv, NewestActs, Greeted
<1>9. CacheFits'
  BY <1>1, CacheUnchanged DEF IInv, QuietData, cache
<1>10. LinkFits'
  <2>1. \A h \in Connections : NoBatch(h) => NoBatch(h)'
    BY <1>1, <1>5 DEF NoBatch, FramesKept, QuietData, stores
  <2>2. \A h \in Connections \ {g} : sock'[h] = sock[h] /\ peer'[h] = peer[h]
    BY <1>1 DEF IInv, Typed, TypeOK
  <2>3. sock'[g] = "open" /\ peer'[g] = "open"
    BY <1>1 DEF IInv, Typed, TypeOK
  <2>4. \A h \in Connections : sock'[h] \in {"none", "connecting"} => up'[h] = up[h] /\ h # g
    BY <1>5, <2>2, <2>3
  <2>5. Greeted' = Greeted
    BY <1>1 DEF Greeted
  <2>6. LinkFits
    BY DEF IInv
  <2> HIDE DEF target
  <2>7. cur' \in {0, session'} /\ (ready' => cur' = session' /\ session' # 0)
    BY <1>1, <1>6, <2>6 DEF LinkFits
  <2>8. cur' = 0 /\ session' # 0 => sock'[session'] # "connecting"
    <3>1. cur' = cur /\ session' = session
      BY <1>1
    <3>2. cur = 0 /\ session # 0 => sock[session] # "connecting" /\ session \in Connections
      BY <2>6 DEF LinkFits, IInv, Typed, TypeOK, Connections, Bounds, StreamBounds
    <3> QED BY <2>2, <2>3, <3>1, <3>2
  <2>9. \A h \in Connections : h > session' => sock'[h] = "none"
    BY <1>1, <1>3, <2>2, <2>6 DEF LinkFits
  <2>10. \A h \in Connections : sock'[h] \in {"none", "connecting"} => up'[h] = <<>> /\ peer'[h] = "none"
    BY <2>2, <2>4, <2>6 DEF LinkFits
  <2>11. \A h \in Connections : sock'[h] = "open" => peer'[h] # "none"
    BY <2>2, <2>3, <2>6 DEF LinkFits
  <2>12. \A h \in Connections : h \in checked' => up'[h] # <<>> /\ peer'[h] = "open"
    BY <1>1, <1>5, <2>2, <2>3, <2>6 DEF LinkFits
  <2>13. \A h \in Connections : peer'[h] = "none" => h \notin Greeted' /\ NoBatch(h)'
    BY <2>1, <2>2, <2>3, <2>5, <2>6 DEF LinkFits
  <2>14. ready' => NoBatch(session)'
    <3>1. ready' => NoBatch(session) /\ session \in Connections
      BY <1>6, <2>6 DEF LinkFits, IInv, Typed, TypeOK, Connections, Bounds, StreamBounds
    <3>2. session' = session
      BY <1>1
    <3> QED BY <2>1, <3>1, <3>2 DEF NoBatch, OnWire
  <2> QED BY <2>7, <2>8, <2>9, <2>10, <2>11, <2>12, <2>13, <2>14 DEF LinkFits
<1>11. PricesFit'
  <2>1. NothingSent
    BY <1>1, <1>5, KeptSendsNothing DEF QuietData, stores
  <2>2. StoresHonest'
    BY <1>1 DEF IInv, PricesFit, StoresHonest, Honest, OfferedSince, Now, QuietData, stores
  <2>3. LinkKept
    <3> SUFFICES ASSUME Connected'
                 PROVE  /\ session' \in Connections
                        /\ (Connected /\ session' = session /\ queue' = queue) \/ NoBatch(session')
      BY DEF LinkKept
    <3>1. cur # 0 /\ sock'[cur] = "open" /\ cur \in Connections /\ cur = session /\ session' = session
      BY <1>1, <1>4 DEF Connected
    <3>2. CASE cur = g
      BY <1>3, <3>1, <3>2
    <3>3. CASE cur # g
      <4>1. sock[cur] = "open"
        BY <1>1, <3>1, <3>3 DEF IInv, Typed, TypeOK
      <4> QED BY <1>6, <3>1, <3>3, <4>1 DEF Connected
    <3> QED BY <3>2, <3>3
  <2> QED BY <1>1, <1>5, <1>6, <2>1, <2>2, <2>3, QuietKeepsPrices DEF IInv, QuietData, cache
<1> QED BY <1>7, <1>8, <1>9, <1>10, <1>11 DEF IInv

(* handleIncomingFrame, hello_ack: the operation that waits runs.          *)
LEMMA AcknowledgedKeeps ==
  ASSUME Bounds, IInv, NEW g \in Connections, Acknowledged(g)
  PROVE  IInv'
<1>1. /\ sock[g] = "open" /\ down[g] # <<>> /\ down' = [down EXCEPT ![g] = Tail(@)]
      /\ ready' = (ready /\ g # session)
      /\ UNCHANGED <<truth, cache, cur, session, sock, backend, faults>>
  BY DEF Acknowledged
<1>2. down' \in [Connections -> Seq(Answers)]
  BY <1>1, AnswersTaken DEF IInv
<1>3. CASE ready /\ g = session
  <2>1. Perform(Head(queue)) /\ ready' = FALSE /\ queue # <<>>
    BY <1>1, <1>3 DEF Acknowledged, IInv, Typed, TypeOK
  <2>2. Connected
    BY <1>1, <1>3 DEF Connected, IInv, LinkFits
  <2>3. /\ PricesFit' /\ Typed' /\ CacheFits' /\ cur \in Connections
        /\ \A h \in Connections \ {cur} : up'[h] = up[h]
        /\ up[cur] # <<>> => up'[cur] # <<>>
    BY <1>1, <1>2, <2>1, <2>2, PerformKeepsPrices
  <2>4. LinkFits' /\ NewestActs'
    BY <1>1, <2>1, <2>2, <2>3, PerformKeepsLink
  <2> QED BY <2>3, <2>4 DEF IInv
<1>4. CASE ~(ready /\ g = session)
  <2>1. QuietData /\ UNCHANGED <<up, pendingResync, queue, ready>>
    BY <1>1, <1>4 DEF Acknowledged, QuietData, backend, stores, IInv, Typed, TypeOK
  <2>2. Typed'
    BY <1>1, <1>2, <2>1 DEF IInv, Typed, TypeOK, QuietData, cache, backend, stores, Now
  <2>3. LinkFits' /\ NewestActs'
    BY <1>1, <2>1, LinkUnchanged DEF IInv, backend, stores
  <2>4. CacheFits'
    BY <2>1, CacheUnchanged DEF IInv, QuietData, cache
  <2>5. PricesFit'
    <3>1. FramesKept
      BY <2>1 DEF FramesKept, OnWire
    <3>2. NothingSent
      BY <2>1, <3>1, KeptSendsNothing DEF QuietData, stores
    <3>3. LinkKept
      BY <1>1, <2>1, WireInUse DEF LinkKept, Connected
    <3>4. StoresHonest'
      BY <2>1 DEF IInv, PricesFit, StoresHonest, Honest, OfferedSince, Now, QuietData, stores
    <3>5. QueueKept
      BY <2>1 DEF QueueKept
    <3> QED BY <2>1, <3>1, <3>2, <3>3, <3>4, <3>5, QuietKeepsPrices DEF IInv, QuietData, cache
  <2> QED BY <2>2, <2>3, <2>4, <2>5 DEF IInv
<1> QED BY <1>3, <1>4

(* handleIncomingFrame, error: the socket in use may be closed.            *)
LEMMA ErrorFrameKeeps ==
  ASSUME Bounds, IInv, NEW g \in Connections, ErrorFrame(g)
  PROVE  IInv'
<1>1. /\ QuietData /\ UNCHANGED <<queue, link, up, backend, faults>>
      /\ down[g] # <<>> /\ down' = [down EXCEPT ![g] = Tail(@)] /\ pendingResync' = TRUE
      /\ sock' = sock \/ (cur # 0 /\ sock' = [sock EXCEPT ![cur] = "closing"])
  BY DEF ErrorFrame, QuietData, backend, stores
<1>2. down' \in [Connections -> Seq(Answers)]
  BY <1>1, AnswersTaken DEF IInv
<1>3. cur # 0 => cur \in Connections /\ cur = session
  BY DEF IInv, LinkFits, Typed, TypeOK, Connections, Bounds, StreamBounds
<1>4. /\ sock' \in [Connections -> {"none", "connecting", "open", "closing", "closed"}]
      /\ \A h \in Connections : sock'[h] = sock[h] \/ (sock'[h] = "closing" /\ h = cur /\ cur # 0)
  BY <1>1 DEF IInv, Typed, TypeOK
<1>5. Typed'
  BY <1>1, <1>2, <1>4 DEF IInv, Typed, TypeOK, QuietData, cache, link, backend, stores, Now
<1>6. NewestActs'
  BY <1>1 DEF IInv, NewestActs, Greeted, backend
<1>7. LinkFits'
  <2>1. \A h \in Connections : NoBatch(h)' = NoBatch(h)
    BY <1>1 DEF NoBatch, OnWire, QuietData, stores
  <2>2. LinkFits
    BY DEF IInv
  <2>3. cur' \in {0, session'} /\ (ready' => cur' = session' /\ session' # 0)
    BY <1>1, <2>2 DEF LinkFits, link
  <2>4. cur' = 0 /\ session' # 0 => sock'[session'] # "connecting"
    <3>1. session \in Connections \/ session = 0
      BY DEF IInv, Typed, TypeOK, Connections, Bounds, StreamBounds
    <3> QED BY <1>1, <1>4, <2>2, <3>1 DEF LinkFits, link
  <2>5. \A h \in Connections : h > session' => sock'[h] = "none"
    <3>1. \A h \in Connections : h > session => h # cur \/ cur = 0
      BY <1>3 DEF Connections
    <3> QED BY <1>1, <1>4, <2>2, <3>1 DEF LinkFits, link
  <2>6. \A h \in Connections : sock'[h] \in {"none", "connecting"} => up'[h] = <<>> /\ peer'[h] = "none"
    BY <1>1, <1>4, <2>2 DEF LinkFits, backend
  <2>7. \A h \in Connections : sock'[h] = "open" => peer'[h] # "none"
    BY <1>1, <1>4, <2>2 DEF LinkFits, backend
  <2>8. \A h \in Connections : h \in checked' => up'[h] # <<>> /\ peer'[h] = "open"
    BY <1>1, <2>2 DEF LinkFits, backend
  <2>9. \A h \in Connections : peer'[h] = "none" => h \notin Greeted' /\ NoBatch(h)'
    BY <1>1, <2>1, <2>2 DEF LinkFits, Greeted, backend
  <2>10. ready' => NoBatch(session)'
    BY <1>1, <2>2 DEF LinkFits, NoBatch, OnWire, QuietData, stores, link
  <2> QED BY <2>3, <2>4, <2>5, <2>6, <2>7, <2>8, <2>9, <2>10 DEF LinkFits
<1>8. CacheFits'
  BY <1>1, CacheUnchanged DEF IInv, QuietData, cache
<1>9. PricesFit'
  <2>1. FramesKept
    BY <1>1 DEF FramesKept, OnWire
  <2>2. NothingSent
    BY <1>1, <2>1, KeptSendsNothing DEF QuietData, stores
  <2>3. LinkKept
    <3>1. Connected' => Connected
      BY <1>1, <1>3, <1>4 DEF Connected, link
    <3> QED BY <1>1, <3>1, WireInUse DEF LinkKept, link
  <2>4. StoresHonest'
    BY <1>1 DEF IInv, PricesFit, StoresHonest, Honest, OfferedSince, Now, QuietData, stores
  <2>5. QueueKept
    BY <1>1 DEF QueueKept
  <2> QED BY <1>1, <2>1, <2>2, <2>3, <2>4, <2>5, QuietKeepsPrices DEF IInv, QuietData, cache
<1> QED BY <1>5, <1>6, <1>7, <1>8, <1>9 DEF IInv

(* "error" and "close": the operation that waits fails, whatever connection*)
(* it waits for.                                                           *)
LEMMA SocketCloseKeeps ==
  ASSUME Bounds, IInv, NEW g \in Connections, sock[g] # "none", SocketClose(g),
         faults' \in 0..MaxFaults
  PROVE  IInv'
<1>1. /\ QuietData /\ Reject /\ UNCHANGED <<session, up, backend>>
      /\ sock' = [sock EXCEPT ![g] = "closed"] /\ down' = [down EXCEPT ![g] = <<>>]
      /\ pendingResync' = TRUE /\ cur' = IF cur = g THEN 0 ELSE cur
  BY DEF SocketClose, QuietData, backend, stores
<1>2. down' \in [Connections -> Seq(Answers)]
  BY <1>1 DEF IInv, Typed
<1>3. /\ ready' = FALSE /\ queue' \in Seq(Operations)
      /\ \A i \in DOMAIN queue' : queue'[i] \in Operations
      /\ ~ready => queue' = queue
      /\ QueueKept
  BY <1>1, RejectTakesOne DEF IInv
<1>4. /\ sock' \in [Connections -> {"none", "connecting", "open", "closing", "closed"}]
      /\ sock'[g] = "closed" /\ \A h \in Connections \ {g} : sock'[h] = sock[h]
  BY <1>1 DEF IInv, Typed, TypeOK
<1>5. cur' \in {0, cur} /\ session \in Nat /\ (cur # 0 => cur \in Connections /\ cur = session)
      /\ (session # 0 => session \in Connections)
  BY <1>1 DEF IInv, LinkFits, Typed, TypeOK, Connections, Bounds, StreamBounds
<1>6. Typed'
  <2>1. cur' \in 0..session'
    BY <1>1, <1>5
  <2> QED BY <1>1, <1>2, <1>3, <1>4, <2>1 DEF IInv, Typed, TypeOK, QuietData, cache, backend, stores, Now
<1>7. NewestActs'
  BY <1>1 DEF IInv, NewestActs, Greeted, backend
<1>8. LinkFits'
  <2>1. \A h \in Connections : NoBatch(h)' = NoBatch(h)
    BY <1>1 DEF NoBatch, OnWire, QuietData, stores
  <2>2. LinkFits
    BY DEF IInv
  <2>3. cur' \in {0, session'} /\ (ready' => cur' = session' /\ session' # 0)
    BY <1>1, <1>3, <1>5, <2>2 DEF LinkFits
  <2>4. cur' = 0 /\ session' # 0 => sock'[session'] # "connecting"
    BY <1>1, <1>4, <1>5, <2>2 DEF LinkFits
  <2>5. \A h \in Connections : h > session' => sock'[h] = "none"
    BY <1>1, <1>4, <2>2 DEF LinkFits
  <2>6. \A h \in Connections : sock'[h] \in {"none", "connecting"} => up'[h] = <<>> /\ peer'[h] = "none"
    BY <1>1, <1>4, <2>2 DEF LinkFits, backend
  <2>7. \A h \in Connections : sock'[h] = "open" => peer'[h] # "none"
    BY <1>1, <1>4, <2>2 DEF LinkFits, backend
  <2>8. \A h \in Connections : h \in checked' => up'[h] # <<>> /\ peer'[h] = "open"
    BY <1>1, <2>2 DEF LinkFits, backend
  <2>9. \A h \in Connections : peer'[h] = "none" => h \notin Greeted' /\ NoBatch(h)'
    BY <1>1, <2>1, <2>2 DEF LinkFits, Greeted, backend
  <2> QED BY <1>3, <2>3, <2>4, <2>5, <2>6, <2>7, <2>8, <2>9 DEF LinkFits
<1>9. CacheFits'
  BY <1>1, CacheUnchanged DEF IInv, QuietData, cache
<1>10. PricesFit'
  <2>1. FramesKept
    BY <1>1 DEF FramesKept, OnWire
  <2>2. NothingSent
    BY <1>1, <2>1, KeptSendsNothing DEF QuietData, stores
  <2>3. LinkKept
    <3> SUFFICES ASSUME Connected'
                 PROVE  /\ session' \in Connections
                        /\ (Connected /\ session' = session /\ queue' = queue) \/ NoBatch(session')
      BY DEF LinkKept
    <3>1. cur' = cur /\ cur # 0 /\ cur # g /\ sock'[cur] = "open"
      BY <1>1, <1>5 DEF Connected
    <3>2. Connected
      BY <1>4, <1>5, <3>1 DEF Connected
    <3>3. ready => NoBatch(session)
      BY DEF IInv, LinkFits
    <3> QED BY <1>1, <1>3, <1>5, <3>1, <3>2, <3>3
  <2>4. StoresHonest'
    BY <1>1 DEF IInv, PricesFit, StoresHonest, Honest, OfferedSince, Now, QuietData, stores
  <2> QED BY <1>1, <1>3, <2>1, <2>2, <2>3, <2>4, QuietKeepsPrices DEF IInv, QuietData, cache
<1> QED BY <1>6, <1>7, <1>8, <1>9, <1>10 DEF IInv

(* Both ways a socket ends.                                                *)
LEMMA ClosedKeeps ==
  ASSUME Bounds, IInv, NEW g \in Connections, Closed(g) \/ Dropped(g)
  PROVE  IInv'
<1>1. sock[g] # "none" /\ SocketClose(g) /\ faults' \in 0..MaxFaults
  BY DEF Closed, Dropped, IInv, Typed, Bounds, StreamBounds
<1> QED BY <1>1, SocketCloseKeeps

-----------------------------------------------------------------------------
(* The backend                                                             *)

(* The wire loses frames of g, or none.                                    *)
WireOnlyShrinks(g) ==
  /\ up' \in [Connections -> Seq(Frames)]
  /\ \A h \in Connections : OnWire(h)' \subseteq OnWire(h)
  /\ \A h \in Connections \ {g} : up'[h] = up[h]

(* The head frame of g is read.                                            *)
LEMMA HeadIsRead ==
  ASSUME Typed, NEW g \in Connections, up[g] # <<>>, up' = [up EXCEPT ![g] = Tail(@)]
  PROVE  /\ WireOnlyShrinks(g) /\ Head(up[g]) \in OnWire(g) /\ Head(up[g]) \in Frames
<1>1. \A h \in Connections \ {g} : up'[h] = up[h]
  BY DEF Typed
<1> QED BY <1>1, WireShrinks DEF WireOnlyShrinks

(* No frame is read.                                                       *)
LEMMA NoFrameIsRead ==
  ASSUME Typed, NEW g \in Connections, up' = up
  PROVE  WireOnlyShrinks(g)
  BY DEF Typed, WireOnlyShrinks, OnWire

(* A step of the backend that leaves the coherent store alone.             *)
LEMMA ServingKeepsPrices ==
  ASSUME Bounds, IInv, NEW g \in Connections, WireOnlyShrinks(g),
         UNCHANGED <<sinkVars, sock, stores>>
  PROVE  /\ PricesFit' /\ CacheFits'
         /\ \A h \in Connections : NoBatch(h) => NoBatch(h)'
<1>1. QuietData /\ UNCHANGED <<queue, cur, session>>
  BY DEF QuietData, sinkVars, cache, link
<1>2. FramesKept
  BY DEF FramesKept, WireOnlyShrinks
<1>3. NothingSent
  BY <1>2, KeptSendsNothing DEF stores
<1>4. LinkKept
  BY <1>1, WireInUse DEF LinkKept, Connected
<1>5. StoresHonest'
  BY <1>1 DEF IInv, PricesFit, StoresHonest, Honest, OfferedSince, Now, QuietData, stores
<1>6. QueueKept
  BY <1>1 DEF QueueKept
<1>7. PricesFit'
  BY <1>1, <1>2, <1>3, <1>4, <1>5, <1>6, QuietKeepsPrices DEF IInv, QuietData, cache
<1>8. CacheFits'
  BY <1>1, CacheUnchanged DEF IInv, QuietData, cache
<1>9. \A h \in Connections : NoBatch(h) => NoBatch(h)'
  BY DEF NoBatch, WireOnlyShrinks, stores
<1> QED BY <1>7, <1>8, <1>9

(* A step of the backend on a connection it reads.                         *)
LEMMA ServingKeepsLink ==
  ASSUME Bounds, IInv, NEW g \in Connections, WireOnlyShrinks(g),
         UNCHANGED <<sinkVars, sock>>, peer[g] = "open",
         \A h \in Connections : NoBatch(h) => NoBatch(h)',
         \A h \in Connections \ {g} : peer'[h] = peer[h], peer'[g] \in {"open", "ended"},
         Greeted' \subseteq Greeted \cup {g}, checked' \subseteq checked \cup {g},
         g \in checked' => up'[g] # <<>> /\ peer'[g] = "open"
  PROVE  LinkFits'
<1>1. LinkFits
  BY DEF IInv
<1>2. UNCHANGED <<cur, session, ready, sock>>
  BY DEF sinkVars, link
<1>3. \A h \in Connections \ {g} : up'[h] = up[h] /\ peer'[h] = peer[h]
  BY DEF WireOnlyShrinks
<1>4. sock[g] \notin {"none", "connecting"}
  BY <1>1 DEF LinkFits
<1>5. cur' \in {0, session'} /\ (ready' => cur' = session' /\ session' # 0)
      /\ (cur' = 0 /\ session' # 0 => sock'[session'] # "connecting")
      /\ \A h \in Connections : h > session' => sock'[h] = "none"
  BY <1>1, <1>2 DEF LinkFits
<1>6. \A h \in Connections : sock'[h] \in {"none", "connecting"} => up'[h] = <<>> /\ peer'[h] = "none"
  BY <1>1, <1>2, <1>3, <1>4 DEF LinkFits
<1>7. \A h \in Connections : sock'[h] = "open" => peer'[h] # "none"
  BY <1>1, <1>2, <1>3 DEF LinkFits
<1>8. \A h \in Connections : h \in checked' => up'[h] # <<>> /\ peer'[h] = "open"
  BY <1>1, <1>3 DEF LinkFits
<1>9. \A h \in Connections : peer'[h] = "none" => h \notin Greeted' /\ NoBatch(h)'
  BY <1>1, <1>3 DEF LinkFits
<1>10. ready' => NoBatch(session)'
  <2>1. ready' => NoBatch(session) /\ session \in Connections
    BY <1>1, <1>2 DEF LinkFits, IInv, Typed, TypeOK, Connections, Bounds, StreamBounds
  <2> QED BY <1>2, <2>1 DEF NoBatch, OnWire
<1> QED BY <1>5, <1>6, <1>7, <1>8, <1>9, <1>10 DEF LinkFits

(* The newest greeting comes last.                                         *)
LEMMA GreetingIsLast ==
  ASSUME Typed, NEW g \in Connections, greeted' = Append(greeted, g)
  PROVE  /\ greeted' \in Seq(Connections) /\ greeted' # <<>> /\ Last(greeted') = g
         /\ Greeted' = Greeted \cup {g}
<1>1. /\ greeted' \in Seq(Connections) /\ greeted' # <<>>
      /\ Len(greeted') = Len(greeted) + 1 /\ Len(greeted) \in Nat
      /\ DOMAIN greeted = 1..Len(greeted) /\ DOMAIN greeted' = 1..(Len(greeted) + 1)
      /\ \A i \in 1..Len(greeted) : greeted'[i] = greeted[i]
      /\ greeted'[Len(greeted) + 1] = g
  <2>1. greeted \in Seq(Connections)
    BY DEF Typed, TypeOK
  <2> QED BY <2>1, Appended
<1>2. Last(greeted') = g
  BY <1>1 DEF Last
<1>3. Greeted' = Greeted \cup {g}
  BY <1>1 DEF Greeted, ToSet
<1> QED BY <1>1, <1>2, <1>3

(* handleHello.                                                            *)
LEMMA HelloKeeps ==
  ASSUME Bounds, IInv, NEW g \in Connections, Hello(g), UNCHANGED sinkVars
  PROVE  IInv'
<1>1. /\ peer[g] = "open" /\ g \notin checked /\ up[g] # <<>> /\ (Overlap \/ checked = {})
      /\ up' = [up EXCEPT ![g] = Tail(@)]
      /\ UNCHANGED <<sock, peer, checked, members, stores, faults>>
      /\ \/ Reply(g, <<"duplicate_hello">>) /\ UNCHANGED <<greeted, active>>
         \/ Reply(g, <<"hello_ack">>) /\ greeted' = Append(greeted, g) /\ active' = g
  BY DEF Hello
<1>2. WireOnlyShrinks(g)
  BY <1>1, HeadIsRead DEF IInv
<1>3. down' \in [Connections -> Seq(Answers)]
  <2>1. <<"duplicate_hello">> \in Seq(Answers) /\ <<"hello_ack">> \in Seq(Answers)
    BY DEF Answers
  <2> QED BY <1>1, <2>1, AnswersGrow DEF IInv
<1>4. /\ greeted' \in Seq(Connections) /\ active' \in 0..Rival /\ Greeted' \subseteq Greeted \cup {g}
      /\ Greeted \subseteq Greeted'
      /\ \/ greeted' = greeted /\ active' = active
         \/ greeted' # <<>> /\ Last(greeted') = g /\ active' = g
  <2>1. CASE UNCHANGED <<greeted, active>>
    BY <2>1 DEF IInv, Typed, TypeOK, Greeted
  <2>2. CASE greeted' = Append(greeted, g) /\ active' = g
    BY <2>2, GreetingIsLast DEF IInv, Connections, Rival, Bounds, StreamBounds
  <2> QED BY <1>1, <2>1, <2>2
<1>5. Typed'
  BY <1>1, <1>2, <1>3, <1>4
  DEF IInv, Typed, TypeOK, WireOnlyShrinks, sinkVars, cache, link, stores, Now
<1>6. PricesFit' /\ CacheFits' /\ \A h \in Connections : NoBatch(h) => NoBatch(h)'
  BY <1>1, <1>2, ServingKeepsPrices
<1>7. LinkFits'
  BY <1>1, <1>2, <1>4, <1>6, ServingKeepsLink
<1>8. NewestActs'
  BY <1>1, <1>4 DEF IInv, NewestActs
<1> QED BY <1>5, <1>6, <1>7, <1>8 DEF IInv

(* A hello that is refused.                                                *)
LEMMA HelloRefusedKeeps ==
  ASSUME Bounds, IInv, NEW g \in Connections, HelloRefused(g), UNCHANGED sinkVars
  PROVE  IInv'
<1>1. /\ peer[g] = "open" /\ g \notin checked /\ up[g] # <<>>
      /\ up' = [up EXCEPT ![g] = Tail(@)] /\ Reply(g, <<"unauthorized_source">>)
      /\ UNCHANGED <<sock, peer, greeted, checked, active, members, stores, faults>>
  BY DEF HelloRefused
<1>2. WireOnlyShrinks(g)
  BY <1>1, HeadIsRead DEF IInv
<1>3. down' \in [Connections -> Seq(Answers)]
  <2>1. <<"unauthorized_source">> \in Seq(Answers)
    BY DEF Answers
  <2> QED BY <1>1, <2>1, AnswersGrow DEF IInv
<1>4. Typed'
  BY <1>1, <1>2, <1>3
  DEF IInv, Typed, TypeOK, WireOnlyShrinks, sinkVars, cache, link, stores, Now
<1>5. PricesFit' /\ CacheFits' /\ \A h \in Connections : NoBatch(h) => NoBatch(h)'
  BY <1>1, <1>2, ServingKeepsPrices
<1>6. Greeted' = Greeted
  BY <1>1 DEF Greeted
<1>7. LinkFits'
  BY <1>1, <1>2, <1>5, <1>6, ServingKeepsLink
<1>8. NewestActs'
  BY <1>1, <1>6 DEF IInv, NewestActs
<1> QED BY <1>4, <1>5, <1>7, <1>8 DEF IInv

(* The connection ends.                                                    *)
LEMMA HangupFacts ==
  ASSUME Bounds, Typed, NewestActs, NEW g \in Connections, Hangup(g), greeted' = greeted
  PROVE  /\ peer' \in [Connections -> {"none", "open", "ended"}] /\ peer'[g] = "ended"
         /\ \A h \in Connections \ {g} : peer'[h] = peer[h]
         /\ checked' = checked \ {g} /\ active' \in 0..Rival /\ Greeted' = Greeted
         /\ NewestActs'
<1>1. active \in 0..Rival /\ 0 \in 0..Rival
  BY DEF Typed, TypeOK, Rival, Bounds, StreamBounds
<1>2. active' \in {0, active} /\ Greeted' = Greeted
  BY DEF Hangup, Greeted
<1> QED BY <1>1, <1>2 DEF Typed, TypeOK, Hangup, NewestActs

(* requireActiveSession.                                                   *)
LEMMA CheckSessionKeeps ==
  ASSUME Bounds, IInv, NEW g \in Connections, CheckSession(g), UNCHANGED sinkVars
  PROVE  IInv'
<1>1. /\ peer[g] = "open" /\ g \notin checked /\ up[g] # <<>>
      /\ UNCHANGED <<sock, greeted, members, stores, faults>>
  BY DEF CheckSession
<1>2. CASE g \in Greeted /\ active = g
  <2>1. checked' = checked \cup {g} /\ UNCHANGED <<up, down, peer, active>>
    BY <1>2 DEF CheckSession
  <2>2. WireOnlyShrinks(g)
    BY <2>1, NoFrameIsRead DEF IInv
  <2>3. Typed'
    BY <1>1, <2>1 DEF IInv, Typed, TypeOK, sinkVars, cache, link, stores, Now
  <2>4. PricesFit' /\ CacheFits' /\ \A h \in Connections : NoBatch(h) => NoBatch(h)'
    BY <1>1, <2>2, ServingKeepsPrices
  <2>5. Greeted' = Greeted
    BY <1>1 DEF Greeted
  <2>6. LinkFits'
    BY <1>1, <2>1, <2>2, <2>4, <2>5, ServingKeepsLink
  <2>7. active \notin {0, Rival}
    BY <1>2 DEF Connections, Rival, Bounds, StreamBounds
  <2>8. NewestActs'
    BY <1>1, <1>2, <2>1, <2>5, <2>7 DEF IInv, NewestActs
  <2> QED BY <2>3, <2>4, <2>6, <2>8 DEF IInv
<1>3. CASE ~(g \in Greeted /\ active = g)
  <2> DEFINE answers == <<IF g \in Greeted THEN "stale_session" ELSE "invalid_session",
                          "internal_error">>
  <2>1. /\ Reply(g, answers) /\ up' = [up EXCEPT ![g] = Tail(@)] /\ Hangup(g)
    BY <1>3 DEF CheckSession
  <2>2. WireOnlyShrinks(g)
    BY <1>1, <2>1, HeadIsRead DEF IInv
  <2>3. down' \in [Connections -> Seq(Answers)]
    <3>1. answers \in Seq(Answers)
      BY DEF Answers
    <3> HIDE DEF answers
    <3> QED BY <2>1, <3>1, AnswersGrow DEF IInv
  <2>4. /\ peer' \in [Connections -> {"none", "open", "ended"}] /\ peer'[g] = "ended"
        /\ \A h \in Connections \ {g} : peer'[h] = peer[h]
        /\ checked' = checked \ {g} /\ active' \in 0..Rival /\ Greeted' = Greeted
        /\ NewestActs'
    BY <1>1, <2>1, HangupFacts DEF IInv
  <2>5. Typed'
    BY <1>1, <2>2, <2>3, <2>4
    DEF IInv, Typed, TypeOK, WireOnlyShrinks, sinkVars, cache, link, stores, Now
  <2>6. PricesFit' /\ CacheFits' /\ \A h \in Connections : NoBatch(h) => NoBatch(h)'
    BY <1>1, <2>2, ServingKeepsPrices
  <2>7. LinkFits'
    BY <1>1, <2>2, <2>4, <2>6, ServingKeepsLink
  <2> QED BY <2>4, <2>5, <2>6, <2>7 DEF IInv
<1> QED BY <1>2, <1>3

(* The connection is found broken.                                         *)
LEMMA PeerGoneKeeps ==
  ASSUME Bounds, IInv, NEW g \in Connections, PeerGone(g), UNCHANGED sinkVars
  PROVE  IInv'
<1>1. /\ peer[g] = "open" /\ Hangup(g) /\ up' = [up EXCEPT ![g] = <<>>]
      /\ UNCHANGED <<sock, down, greeted, members, stores, faults>>
  BY DEF PeerGone
<1>2. WireOnlyShrinks(g)
  <2>1. up' \in [Connections -> Seq(Frames)] /\ up'[g] = <<>>
        /\ \A h \in Connections \ {g} : up'[h] = up[h]
    BY <1>1 DEF IInv, Typed
  <2>2. \A h \in Connections \ {g} : OnWire(h)' = OnWire(h)
    BY <2>1 DEF OnWire
  <2>3. OnWire(g)' = {}
    BY <2>1 DEF OnWire
  <2> QED BY <2>1, <2>2, <2>3 DEF WireOnlyShrinks
<1>3. /\ peer' \in [Connections -> {"none", "open", "ended"}] /\ peer'[g] = "ended"
      /\ \A h \in Connections \ {g} : peer'[h] = peer[h]
      /\ checked' = checked \ {g} /\ active' \in 0..Rival /\ Greeted' = Greeted
      /\ NewestActs'
  BY <1>1, HangupFacts DEF IInv
<1>4. Typed'
  BY <1>1, <1>2, <1>3
  DEF IInv, Typed, TypeOK, WireOnlyShrinks, sinkVars, cache, link, stores, Now
<1>5. PricesFit' /\ CacheFits' /\ \A h \in Connections : NoBatch(h) => NoBatch(h)'
  BY <1>1, <1>2, ServingKeepsPrices
<1>6. LinkFits'
  BY <1>1, <1>2, <1>3, <1>5, ServingKeepsLink
<1> QED BY <1>3, <1>4, <1>5, <1>6 DEF IInv

(* The store refuses.                                                      *)
LEMMA ApplyFailsKeeps ==
  ASSUME Bounds, IInv, NEW g \in Connections, ApplyFails(g), UNCHANGED sinkVars
  PROVE  IInv'
<1>1. /\ g \in checked /\ up' = [up EXCEPT ![g] = Tail(@)] /\ faults' \in 0..MaxFaults
      /\ UNCHANGED <<sock, greeted, members, stores>>
      /\ \/ Reply(g, <<"rejected">>) /\ checked' = checked \ {g} /\ UNCHANGED <<peer, active>>
         \/ Reply(g, <<"internal_error">>) /\ Hangup(g)
  BY DEF ApplyFails, IInv, Typed, Bounds, StreamBounds
<1>2. up[g] # <<>> /\ peer[g] = "open"
  BY <1>1 DEF IInv, LinkFits
<1>3. WireOnlyShrinks(g)
  BY <1>1, <1>2, HeadIsRead DEF IInv
<1>4. down' \in [Connections -> Seq(Answers)]
  <2>1. <<"rejected">> \in Seq(Answers) /\ <<"internal_error">> \in Seq(Answers)
    BY DEF Answers
  <2> QED BY <1>1, <2>1, AnswersGrow DEF IInv
<1>5. /\ peer' \in [Connections -> {"none", "open", "ended"}] /\ peer'[g] \in {"open", "ended"}
      /\ \A h \in Connections \ {g} : peer'[h] = peer[h]
      /\ checked' = checked \ {g} /\ active' \in 0..Rival /\ Greeted' = Greeted
      /\ NewestActs'
  <2>1. CASE Hangup(g)
    BY <1>1, <2>1, HangupFacts DEF IInv
  <2>2. CASE checked' = checked \ {g} /\ UNCHANGED <<peer, active>>
    BY <1>1, <1>2, <2>2 DEF IInv, Typed, TypeOK, NewestActs, Greeted
  <2> QED BY <1>1, <2>1, <2>2
<1>6. Typed'
  BY <1>1, <1>3, <1>4, <1>5
  DEF IInv, Typed, TypeOK, WireOnlyShrinks, sinkVars, cache, link, stores, Now
<1>7. PricesFit' /\ CacheFits' /\ \A h \in Connections : NoBatch(h) => NoBatch(h)'
  BY <1>1, <1>3, ServingKeepsPrices
<1>8. LinkFits'
  BY <1>1, <1>2, <1>3, <1>5, <1>7, ServingKeepsLink
<1> QED BY <1>5, <1>6, <1>7, <1>8 DEF IInv

(* A rival takes the source over.                                          *)
LEMMA SupersededKeeps ==
  ASSUME Bounds, IInv, Superseded
  PROVE  IInv'
<1>1. /\ active' = Rival /\ faults' \in 0..MaxFaults
      /\ UNCHANGED <<sinkVars, wires, peer, greeted, checked, members, stores>>
  BY DEF Superseded, Usurp, IInv, Typed, Bounds, StreamBounds
<1>2. 1 \in Connections /\ Rival \in 0..Rival
  BY DEF Connections, Rival, Bounds, StreamBounds
<1>3. WireOnlyShrinks(1)
  BY <1>1, <1>2, NoFrameIsRead DEF IInv, wires
<1>4. Typed'
  BY <1>1, <1>2 DEF IInv, Typed, TypeOK, sinkVars, cache, link, wires, stores, Now
<1>5. PricesFit' /\ CacheFits'
  BY <1>1, <1>2, <1>3, ServingKeepsPrices DEF wires
<1>6. LinkFits' /\ NewestActs'
  BY <1>1 DEF IInv, LinkFits, NewestActs, NoBatch, OnWire, Greeted, sinkVars, link, wires, stores
<1> QED BY <1>4, <1>5, <1>6 DEF IInv

(* What the v1 store makes of an honest observation is honest.             *)
LEMMA PreparedIsHonest ==
  ASSUME NEW f, NEW old \in [val : Prices, at : 0..MaxTime], NEW v \in Prices,
         NEW at \in 1..MaxTime, Honest(f, old.val, old.at), Honest(f, v, at)
  PROVE  /\ Prepared(old, v, at) \in [val : Prices, at : 0..MaxTime]
         /\ Honest(f, Prepared(old, v, at).val, Prepared(old, v, at).at)
<1>1. [val |-> v, at |-> at] \in [val : Prices, at : 0..MaxTime]
  OBVIOUS
<1> QED BY <1>1 DEF Prepared

(* So is what it makes of a quote that is gone.                            *)
LEMMA SuspendedIsHonest ==
  ASSUME Bounds, NEW f, NEW old \in [val : Prices, at : 0..MaxTime],
         NEW at \in 1..MaxTime, Honest(f, old.val, old.at)
  PROVE  /\ Suspended(old, at) \in [val : Prices, at : 0..MaxTime]
         /\ Honest(f, Suspended(old, at).val, Suspended(old, at).at)
         /\ Swept(old, at) \in [val : Prices, at : 0..MaxTime]
         /\ Honest(f, Swept(old, at).val, Swept(old, at).at)
<1>1. 0 \in Prices /\ Honest(f, 0, at)
  BY DEF Prices, Honest, Bounds, StreamBounds
<1>2. /\ Prepared(old, 0, at) \in [val : Prices, at : 0..MaxTime]
      /\ Honest(f, Prepared(old, 0, at).val, Prepared(old, 0, at).at)
  BY <1>1, PreparedIsHonest
<1> QED BY <1>2 DEF Suspended, Swept

(* handleMessage for a frame whose session was active when it was checked. *)
LEMMA ApplyKeeps ==
  ASSUME Bounds, IInv, NEW g \in Connections, Apply(g), UNCHANGED sinkVars
  PROVE  IInv'
<1>1. PICK frame : frame = Head(up[g])
  OBVIOUS
<1>2. up[g] # <<>> /\ peer[g] = "open" /\ g \in checked
  BY DEF Apply, IInv, LinkFits
<1>3. /\ checked' = checked \ {g} /\ up' = [up EXCEPT ![g] = Tail(@)]
      /\ UNCHANGED <<sock, down, peer, greeted, active, faults>>
      /\ members' = [members EXCEPT ![g] =
           CASE frame.t = "snapshot_begin" -> {}
             [] frame.t = "quote_upsert_batch" /\ frame.snapshot -> @ \cup DOMAIN frame.vals
             [] OTHER -> @]
      /\ legacy' = [f \in Fixtures |->
           CASE frame.t = "quote_upsert_batch" /\ f \in DOMAIN frame.vals ->
                  Prepared(legacy[f], frame.vals[f], frame.at)
             [] frame.t = "quote_remove" /\ f = frame.fixture -> Suspended(legacy[f], frame.at)
             [] frame.t = "snapshot_commit" /\ f \notin members[g] -> Swept(legacy[f], frame.at)
             [] OTHER -> legacy[f]]
      /\ coherent' = [f \in Fixtures |->
           CASE frame.t = "fixture_market_snapshot" /\ f = frame.fixture ->
                  Replaced(coherent[f], g, frame)
             [] frame.t = "fixture_observed_batch" /\ frame.items[f] # 0 ->
                  Refreshed(coherent[f], g, frame.items[f], frame.at)
             [] OTHER -> coherent[f]]
  BY <1>1 DEF Apply
<1>4. WireOnlyShrinks(g) /\ frame \in OnWire(g) /\ frame \in Frames
  BY <1>1, <1>2, <1>3, HeadIsRead DEF IInv
<1>5. /\ frame.t = "quote_upsert_batch" =>
           /\ frame.at \in 1..MaxTime /\ frame.vals \in PartialOffers
           /\ \A f \in DOMAIN frame.vals : Honest(f, frame.vals[f], frame.at)
      /\ frame.t = "quote_remove" => frame.at \in 1..MaxTime /\ frame.fixture \in Fixtures
      /\ frame.t = "snapshot_commit" => frame.at \in 1..MaxTime
      /\ frame.t = "fixture_market_snapshot" =>
           /\ frame.at \in 1..MaxTime /\ frame.fixture \in Fixtures /\ frame.val \in Prices
           /\ frame.batch \in Nat \ {0} /\ frame.batch <= batches
           /\ Honest(frame.fixture, frame.val, frame.at)
      /\ frame.t = "fixture_observed_batch" =>
           frame.at \in 1..MaxTime /\ frame.items \in [Fixtures -> Nat]
  <2>1. /\ frame.t = "quote_upsert_batch" =>
             \A f \in DOMAIN frame.vals : Honest(f, frame.vals[f], frame.at)
        /\ frame.t = "fixture_market_snapshot" =>
             Honest(frame.fixture, frame.val, frame.at) /\ frame.batch <= batches
    BY <1>4 DEF IInv, PricesFit, FramesHonest
  <2> QED BY <1>4, <2>1 DEF Frames
<1>6. \A f \in Fixtures :
        /\ legacy[f] \in [val : Prices, at : 0..MaxTime] /\ Honest(f, legacy[f].val, legacy[f].at)
        /\ coherent[f] \in [val : Prices, at : 0..MaxTime, session : 0..MaxConnections,
                            batch : 0..batches]
        /\ Honest(f, coherent[f].val, coherent[f].at)
        /\ coherent[f].session = 0 <=> coherent[f].batch = 0
  BY DEF IInv, Typed, TypeOK, PricesFit, StoresHonest
<1>7. ASSUME NEW f \in Fixtures
      PROVE  legacy'[f] \in [val : Prices, at : 0..MaxTime] /\ Honest(f, legacy'[f].val, legacy'[f].at)
  <2>1. CASE frame.t = "quote_upsert_batch" /\ f \in DOMAIN frame.vals
    <3>1. legacy'[f] = Prepared(legacy[f], frame.vals[f], frame.at)
      BY <1>3, <2>1
    <3>2. frame.vals[f] \in Prices
      BY <1>5, <2>1 DEF PartialOffers
    <3> QED BY <1>5, <1>6, <2>1, <3>1, <3>2, PreparedIsHonest
  <2>2. CASE frame.t = "quote_remove" /\ f = frame.fixture
    <3>1. legacy'[f] = Suspended(legacy[f], frame.at)
      BY <1>3, <2>2
    <3> QED BY <1>5, <1>6, <2>2, <3>1, SuspendedIsHonest
  <2>3. CASE frame.t = "snapshot_commit" /\ f \notin members[g]
    <3>1. legacy'[f] = Swept(legacy[f], frame.at)
      BY <1>3, <2>3
    <3>2. frame.at \in 1..MaxTime
      BY <1>5, <2>3
    <3>3. /\ Swept(legacy[f], frame.at) \in [val : Prices, at : 0..MaxTime]
          /\ Honest(f, Swept(legacy[f], frame.at).val, Swept(legacy[f], frame.at).at)
      BY <1>6, <3>2, SuspendedIsHonest
    <3> QED BY <3>1, <3>3
  <2>4. CASE /\ ~(frame.t = "quote_upsert_batch" /\ f \in DOMAIN frame.vals)
             /\ ~(frame.t = "quote_remove" /\ f = frame.fixture)
             /\ ~(frame.t = "snapshot_commit" /\ f \notin members[g])
    <3>1. legacy'[f] = legacy[f]
      BY <1>3, <2>4
    <3> QED BY <1>6, <3>1
  <2> QED BY <2>1, <2>2, <2>3, <2>4
<1>8. ASSUME NEW f \in Fixtures
      PROVE  /\ coherent'[f] \in [val : Prices, at : 0..MaxTime, session : 0..MaxConnections,
                                  batch : 0..batches]
             /\ Honest(f, coherent'[f].val, coherent'[f].at)
             /\ coherent'[f].session = 0 <=> coherent'[f].batch = 0
             /\ \/ /\ coherent'[f].session = coherent[f].session
                   /\ coherent'[f].batch = coherent[f].batch /\ coherent'[f].val = coherent[f].val
                \/ /\ frame.t = "fixture_market_snapshot" /\ frame.fixture = f
                   /\ coherent'[f].session = g /\ coherent'[f].batch = frame.batch
                   /\ coherent'[f].val = frame.val
  <2>1. CASE frame.t = "fixture_market_snapshot" /\ f = frame.fixture
    <3>1. coherent'[f] = Replaced(coherent[f], g, frame)
      BY <1>3, <2>1
    <3>2. CASE coherent'[f] = coherent[f]
      BY <1>6, <3>2
    <3>3. CASE coherent'[f] = [val |-> frame.val, at |-> frame.at, session |-> g, batch |-> frame.batch]
      <4>1. batches \in Nat /\ g \in 1..MaxConnections /\ MaxConnections \in Nat
        BY DEF IInv, Typed, TypeOK, Connections, Bounds, StreamBounds
      <4>2. frame.batch \in 1..batches /\ frame.at \in 0..MaxTime /\ frame.val \in Prices
            /\ Honest(f, frame.val, frame.at)
        BY <1>5, <2>1, <4>1
      <4>3. coherent'[f] \in [val : Prices, at : 0..MaxTime, session : 0..MaxConnections,
                              batch : 0..batches]
        BY <3>3, <4>1, <4>2
      <4>4. /\ coherent'[f].val = frame.val /\ coherent'[f].at = frame.at
            /\ coherent'[f].session = g /\ coherent'[f].batch = frame.batch
        BY <3>3
      <4> QED BY <2>1, <4>1, <4>2, <4>3, <4>4
    <3> QED BY <3>1, <3>2, <3>3 DEF Replaced
  <2>2. CASE frame.t = "fixture_observed_batch" /\ frame.items[f] # 0
    <3>1. coherent'[f] = Refreshed(coherent[f], g, frame.items[f], frame.at)
      BY <1>3, <2>2
    <3>2. CASE coherent'[f] = coherent[f]
      BY <1>6, <3>2
    <3>3. CASE /\ coherent[f].session = g /\ coherent[f].batch = frame.items[f]
               /\ coherent[f].val # 0
               /\ coherent'[f] = [coherent[f] EXCEPT !.at = frame.at]
      <4>1. Vouched(g, frame, f)
        BY <1>4, <2>2 DEF IInv, PricesFit, ObservedHonest
      <4>2. Sent(f, frame.items[f], g, coherent[f].val)
        BY <3>3 DEF Sent
      <4>3. coherent[f].val \in Prices \ {0}
        BY <1>6, <3>3
      <4>4. OfferedSince(f, coherent[f].val, frame.at)
        BY <2>2, <4>1, <4>2, <4>3 DEF Vouched
      <4>5. frame.at \in 0..MaxTime /\ frame.at # 0
        BY <1>5, <2>2
      <4>6. coherent'[f] \in [val : Prices, at : 0..MaxTime, session : 0..MaxConnections,
                              batch : 0..batches]
            /\ coherent'[f].val = coherent[f].val /\ coherent'[f].at = frame.at
            /\ coherent'[f].session = coherent[f].session /\ coherent'[f].batch = coherent[f].batch
        BY <1>6, <3>3, <4>5
      <4> QED BY <1>6, <4>4, <4>5, <4>6 DEF Honest
    <3> QED BY <3>1, <3>2, <3>3 DEF Refreshed
  <2>3. CASE /\ ~(frame.t = "fixture_market_snapshot" /\ f = frame.fixture)
             /\ ~(frame.t = "fixture_observed_batch" /\ frame.items[f] # 0)
    <3>1. coherent'[f] = coherent[f]
      BY <1>3, <2>3
    <3> QED BY <1>6, <3>1
  <2> QED BY <2>1, <2>2, <2>3
<1>9. Typed'
  <2>1. members' \in [Connections -> SUBSET Fixtures]
    <3>1. frame.t = "quote_upsert_batch" => DOMAIN frame.vals \subseteq Fixtures
      BY <1>5 DEF PartialOffers
    <3>2. members \in [Connections -> SUBSET Fixtures]
      BY DEF IInv, Typed, TypeOK
    <3> QED BY <1>3, <3>1, <3>2
  <2>2. legacy' \in [Fixtures -> [val : Prices, at : 0..MaxTime]]
    BY <1>3, <1>7
  <2>3. coherent' \in [Fixtures -> [val : Prices, at : 0..MaxTime, session : 0..MaxConnections,
                                    batch : 0..batches]]
    BY <1>3, <1>8
  <2>4. checked' \subseteq Connections
    BY <1>3 DEF IInv, Typed, TypeOK
  <2> QED BY <1>3, <1>4, <2>1, <2>2, <2>3, <2>4
       DEF IInv, Typed, TypeOK, WireOnlyShrinks, sinkVars, cache, link, Now
<1>10. NothingSent
  <2> SUFFICES ASSUME NEW f \in Fixtures, NEW h \in Connections, NEW b, NEW v, Sent(f, b, h, v)'
               PROVE  Sent(f, b, h, v)
    BY DEF NothingSent
  <2>1. CASE \E e \in OnWire(h)' : /\ e.t = "fixture_market_snapshot"
                                   /\ e.fixture = f /\ e.batch = b /\ e.val = v
    BY <1>4, <2>1 DEF WireOnlyShrinks, Sent
  <2>2. CASE coherent'[f].session = h /\ coherent'[f].batch = b /\ coherent'[f].val = v
    BY <1>4, <1>8, <2>2 DEF Sent
  <2> QED BY <2>1, <2>2 DEF Sent
<1>11. \A h \in Connections : NoBatch(h) => NoBatch(h)'
  <2> SUFFICES ASSUME NEW h \in Connections, NoBatch(h) PROVE NoBatch(h)'
    OBVIOUS
  <2>1. \A e \in OnWire(h)' : e.t # "fixture_market_snapshot"
    BY <1>4 DEF WireOnlyShrinks, NoBatch
  <2>2. \A f \in Fixtures : coherent'[f].session # h
    BY <1>4, <1>8 DEF NoBatch
  <2> QED BY <2>1, <2>2 DEF NoBatch
<1>12. PricesFit' /\ CacheFits'
  <2>1. UNCHANGED <<truth, latest, known, boot, held, batches, queue, cur, session>>
    BY DEF sinkVars, cache, link
  <2>2. FramesKept
    BY <1>4 DEF FramesKept, WireOnlyShrinks
  <2>3. LinkKept
    BY <1>3, <2>1, WireInUse DEF LinkKept, Connected
  <2>4. StoresHonest'
    <3>1. \A f, v, at : Honest(f, v, at)' = Honest(f, v, at)
      BY <2>1 DEF Honest, OfferedSince, Now
    <3> QED BY <1>7, <1>8, <3>1 DEF StoresHonest
  <2>5. QueueKept
    BY <2>1 DEF QueueKept
  <2>6. PricesFit'
    BY <1>10, <2>1, <2>2, <2>3, <2>4, <2>5, QuietKeepsPrices DEF IInv
  <2>7. CacheFits'
    BY <2>1, CacheUnchanged DEF IInv
  <2> QED BY <2>6, <2>7
<1>13. LinkFits'
  <2>1. Greeted' = Greeted
    BY <1>3 DEF Greeted
  <2> QED BY <1>2, <1>3, <1>4, <1>11, <2>1, ServingKeepsLink
<1>14. NewestActs'
  BY <1>3 DEF IInv, NewestActs, Greeted
<1> QED BY <1>9, <1>12, <1>13, <1>14 DEF IInv

-----------------------------------------------------------------------------
(* The first frame                                                         *)

NoInvalidSession ==
  \A g \in Connections : \A i \in DOMAIN down[g] : down[g][i] # "invalid_session"

(* What a step may do to a connection whose hello is not accepted yet:     *)
(* nothing, put frames behind its hello, or drop frames nobody will read.  *)
HelloStays(g) ==
  \/ up'[g] = up[g] /\ (g = cur' /\ sock'[g] = "open" => g = cur /\ sock[g] = "open")
  \/ up'[g] # <<>> /\ up[g] # <<>> /\ Head(up'[g]) = Head(up[g])
  \/ up'[g] # <<>> /\ Head(up'[g]).t = "hello"
  \/ up'[g] = <<>> /\ ~(g = cur' /\ sock'[g] = "open")

(* Such a step leaves every hello in front.                                *)
LEMMA HelloStaysInFront ==
  ASSUME HelloLeads, Greeted \subseteq Greeted', NoInvalidSession',
         \A g \in Connections : g \notin Greeted' => HelloStays(g)
  PROVE  HelloLeads'
  BY DEF HelloLeads, NoInvalidSession, HelloStays

(* A step that touches no connection does.                                 *)
LEMMA QuietLeavesHello ==
  ASSUME HelloLeads, UNCHANGED <<sock, up, down, cur, greeted>>
  PROVE  HelloLeads'
  BY DEF HelloLeads, Greeted

(* What an operation sends goes behind the hello.                          *)
LEMMA OperationFollowsHello ==
  ASSUME Bounds, IInv, HelloLeads, queue # <<>>, Connected, Perform(Head(queue)),
         NoInvalidSession', UNCHANGED <<cur, sock, greeted>>
  PROVE  HelloLeads'
<1>1. cur \in Connections /\ sock[cur] = "open"
  BY WireInUse
<1>2. /\ \A h \in Connections \ {cur} : up'[h] = up[h]
      /\ up[cur] # <<>> => up'[cur] # <<>> /\ Head(up'[cur]) = Head(up[cur])
  BY <1>1, PerformFacts DEF IInv, PricesFit
<1>3. cur \notin Greeted => up[cur] # <<>>
  BY <1>1 DEF HelloLeads
<1>4. Greeted' = Greeted
  BY DEF Greeted
<1>5. \A g \in Connections : g \notin Greeted' => HelloStays(g)
  BY <1>2, <1>3, <1>4 DEF HelloStays
<1> QED BY <1>4, <1>5, HelloStaysInFront

(* The collector's own steps.                                              *)
LEMMA CollectorLeavesHello ==
  ASSUME Bounds, IInv, HelloLeads, RunOperation \/ StartConnection
  PROVE  HelloLeads'
<1>1. CASE RunOperation
  <2>1. NoInvalidSession'
    BY <1>1 DEF RunOperation, HelloLeads, NoInvalidSession
  <2>2. UNCHANGED <<cur, sock, greeted>> /\ queue # <<>> /\ Connected /\ Perform(Head(queue))
    BY <1>1 DEF RunOperation, link, backend
  <2> QED BY <2>1, <2>2, OperationFollowsHello
<1>2. CASE StartConnection
  <2>1. NoInvalidSession' /\ Greeted' = Greeted
    BY <1>2 DEF StartConnection, HelloLeads, NoInvalidSession, Greeted, backend
  <2>2. /\ session + 1 \in Connections /\ cur' = session + 1 /\ up' = up
        /\ sock' = [sock EXCEPT ![session + 1] = "connecting"]
    BY <1>2 DEF StartConnection, IInv, Typed, TypeOK, Connections, Bounds, StreamBounds
  <2>3. \A g \in Connections : HelloStays(g)
    BY <2>2 DEF HelloStays, IInv, Typed, TypeOK
  <2> QED BY <2>1, <2>3, HelloStaysInFront
<1> QED BY <1>1, <1>2

(* The events of the sockets: the first thing said on one is the hello.    *)
LEMMA EventsLeaveHello ==
  ASSUME Bounds, IInv, HelloLeads, NEW g \in Connections, Event(g) \/ Dropped(g)
  PROVE  HelloLeads'
<1>1. CASE SocketOpen(g)
  <2>1. /\ NoInvalidSession' /\ Greeted' = Greeted /\ cur' = cur
        /\ sock' = [sock EXCEPT ![g] = "open"] /\ sock[g] = "connecting"
    BY <1>1 DEF SocketOpen, HelloLeads, NoInvalidSession, Greeted
  <2>2. CASE up' = up
    <3>1. cur # g
      <4> SUFFICES ASSUME cur = g PROVE FALSE
        OBVIOUS
      <4>0. cur # 0
        BY DEF Connections, Bounds, StreamBounds
      <4>1. up' = [up EXCEPT ![cur] = Append(@, [t |-> "hello"])]
        BY <1>1, <4>0 DEF SocketOpen
      <4>2. up[g] = <<>> /\ up \in [Connections -> Seq(Frames)]
        BY <2>1 DEF IInv, LinkFits, Typed
      <4>3. up'[g] = Append(up[g], [t |-> "hello"])
        BY <4>1, <4>2
      <4> QED BY <2>2, <4>2, <4>3
    <3>2. \A h \in Connections : HelloStays(h)
      BY <2>1, <2>2, <3>1 DEF HelloStays, IInv, Typed, TypeOK
    <3> QED BY <2>1, <3>2, HelloStaysInFront
  <2>3. CASE up' # up
    <3>1. up' = [up EXCEPT ![cur] = Append(@, [t |-> "hello"])]
      BY <1>1, <2>3 DEF SocketOpen
    <3>2. \A h \in Connections \ {g} : sock'[h] = sock[h]
      BY <2>1 DEF IInv, Typed, TypeOK
    <3>3. up \in [Connections -> Seq(Frames)] /\ [t |-> "hello"] \in Frames
      BY DEF IInv, Typed, Frames
    <3>4. \A h \in Connections \ {cur} : up'[h] = up[h]
      BY <3>1, <3>3
    <3>5. cur \in Connections => HelloStays(cur)
      <4> SUFFICES ASSUME cur \in Connections PROVE HelloStays(cur)
        OBVIOUS
      <4>1. up'[cur] = Append(up[cur], [t |-> "hello"]) /\ up[cur] \in Seq(Frames)
        BY <3>1, <3>3
      <4>2. up'[cur] \in Seq(Frames) /\ up'[cur] # <<>>
            /\ (up[cur] = <<>> => up'[cur][1] = [t |-> "hello"])
            /\ (up[cur] # <<>> => up'[cur][1] = up[cur][1])
        BY <3>3, <4>1, Appended, EmptySeq
      <4>3. Head(up'[cur]) = up'[cur][1] /\ (up[cur] # <<>> => Head(up[cur]) = up[cur][1])
        BY <4>1, <4>2, Taken
      <4> QED BY <4>2, <4>3 DEF HelloStays
    <3>6. \A h \in Connections : HelloStays(h)
      BY <2>1, <3>4, <3>5 DEF HelloStays
    <3> QED BY <2>1, <3>6, HelloStaysInFront
  <2> QED BY <2>2, <2>3
<1>2. CASE Acknowledged(g)
  <2>1. down[g] # <<>> /\ down' = [down EXCEPT ![g] = Tail(@)] /\ UNCHANGED <<cur, sock, greeted>>
    BY <1>2 DEF Acknowledged, backend
  <2>a. \A h \in Connections : \A i \in DOMAIN down'[h] :
          \E j \in DOMAIN down[h] : down[h][j] = down'[h][i]
    BY <2>1, AnswersTaken DEF IInv
  <2>2. NoInvalidSession'
    BY <2>a DEF HelloLeads, NoInvalidSession
  <2>3. CASE ready /\ g = session
    <3>1. queue # <<>> /\ cur = g /\ Connected /\ Perform(Head(queue))
      BY <1>2, <2>3 DEF Acknowledged, IInv, Typed, TypeOK, LinkFits, Connected, Connections
    <3> QED BY <2>1, <2>2, <3>1, OperationFollowsHello
  <2>4. CASE ~(ready /\ g = session)
    <3>1. up' = up /\ Greeted' = Greeted
      BY <1>2, <2>1, <2>4 DEF Acknowledged, Greeted
    <3>2. \A h \in Connections : HelloStays(h)
      BY <2>1, <3>1 DEF HelloStays
    <3> QED BY <2>2, <3>1, <3>2, HelloStaysInFront
  <2> QED BY <2>3, <2>4
<1>3. CASE ErrorFrame(g)
  <2>1. /\ down[g] # <<>> /\ down' = [down EXCEPT ![g] = Tail(@)] /\ UNCHANGED <<cur, up, greeted>>
        /\ \A h \in Connections : sock'[h] = "open" => sock[h] = "open"
    BY <1>3 DEF ErrorFrame, link, backend, IInv, Typed, TypeOK
  <2>a. \A h \in Connections : \A i \in DOMAIN down'[h] :
          \E j \in DOMAIN down[h] : down[h][j] = down'[h][i]
    BY <2>1, AnswersTaken DEF IInv
  <2>2. NoInvalidSession' /\ Greeted' = Greeted
    BY <2>1, <2>a DEF HelloLeads, NoInvalidSession, Greeted
  <2>3. \A h \in Connections : HelloStays(h)
    BY <2>1 DEF HelloStays
  <2> QED BY <2>2, <2>3, HelloStaysInFront
<1>4. CASE Closed(g) \/ Dropped(g)
  <2>1. /\ sock' = [sock EXCEPT ![g] = "closed"] /\ down' = [down EXCEPT ![g] = <<>>]
        /\ UNCHANGED <<up, greeted>> /\ cur' \in {cur, 0}
    BY <1>4 DEF Closed, Dropped, SocketClose, backend
  <2>2. NoInvalidSession' /\ Greeted' = Greeted
    BY <2>1 DEF IInv, Typed, HelloLeads, NoInvalidSession, Greeted
  <2>3. \A h \in Connections : HelloStays(h)
    BY <2>1 DEF HelloStays, IInv, Typed, TypeOK, Connections
  <2> QED BY <2>2, <2>3, HelloStaysInFront
<1> QED BY <1>1, <1>2, <1>3, <1>4 DEF Event

(* The backend: what it reads before it accepts a hello is a hello.        *)
LEMMA BackendLeavesHello ==
  ASSUME Bounds, IInv, HelloLeads, ~RefuseHello, NEW g \in Connections, Served(g)
  PROVE  HelloLeads'
<1>1. UNCHANGED <<cur, session, ready>>
  BY DEF Served, sinkVars, link
<1>2. Greeted \subseteq Greeted' /\ sock' = sock
  <2>1. CASE greeted' = greeted
    BY <2>1 DEF Served, Backend, Hello, HelloRefused, CheckSession, Apply, ApplyFails, PeerGone,
                Greeted
  <2>2. CASE greeted' = Append(greeted, g)
    <3>1. greeted \in Seq(Connections)
      BY DEF IInv, Typed, TypeOK
    <3>2. /\ DOMAIN greeted = 1..Len(greeted) /\ DOMAIN Append(greeted, g) = 1..(Len(greeted) + 1)
          /\ Len(greeted) \in Nat
          /\ \A i \in 1..Len(greeted) : Append(greeted, g)[i] = greeted[i]
      BY <3>1, Appended
    <3>3. \A i \in DOMAIN greeted : i \in DOMAIN greeted' /\ greeted'[i] = greeted[i]
      BY <2>2, <3>2
    <3> QED BY <3>3 DEF Served, Backend, Hello, HelloRefused, CheckSession, Apply, ApplyFails,
                        PeerGone, Greeted, ToSet
  <2> QED BY <2>1, <2>2 DEF Served, Backend, Hello, HelloRefused, CheckSession, Apply, ApplyFails,
                            PeerGone
<1>3. \A h \in Connections \ {g} : up'[h] = up[h]
  BY DEF Served, Backend, Hello, HelloRefused, CheckSession, Apply, ApplyFails, PeerGone, IInv,
         Typed
<1>4. g \in Greeted' \/ HelloStays(g)
  <2>1. CASE g \in Greeted
    BY <1>2, <2>1
  <2>2. CASE g \notin Greeted /\ Hello(g)
    <3>1. greeted' = Append(greeted, g) /\ greeted \in Seq(Connections)
      BY <2>2 DEF Hello, IInv, Typed, TypeOK
    <3>2. Len(greeted) + 1 \in DOMAIN greeted' /\ greeted'[Len(greeted) + 1] = g
      BY <3>1, Appended
    <3> QED BY <3>2 DEF Greeted, ToSet
  <2>3. CASE g \notin Greeted /\ PeerGone(g)
    BY <1>1, <1>2, <2>3 DEF PeerGone, HelloStays, IInv, Typed
  <2>4. ~(g \notin Greeted /\ (HelloRefused(g) \/ CheckSession(g) \/ Apply(g) \/ ApplyFails(g)))
    BY DEF HelloRefused, CheckSession, Apply, ApplyFails, IInv, NewestActs, HelloLeads
  <2> QED BY <2>1, <2>2, <2>3, <2>4 DEF Served, Backend
<1>5. NoInvalidSession'
  <2>1. NoInvalidSession
    BY DEF HelloLeads, NoInvalidSession
  <2>2. CASE down' = down
    BY <2>1, <2>2 DEF NoInvalidSession
  <2>3. ASSUME NEW s \in Seq(Answers), Reply(g, s), \A j \in DOMAIN s : s[j] # "invalid_session"
        PROVE  NoInvalidSession'
    BY <2>1, <2>3, AnswersGrow DEF IInv, NoInvalidSession
  <2>4. CASE Hello(g)
    <3>1. \A a \in {"duplicate_hello", "hello_ack"} :
            <<a>> \in Seq(Answers) /\ \A j \in DOMAIN <<a>> : <<a>>[j] # "invalid_session"
      BY DEF Answers
    <3> QED BY <2>3, <2>4, <3>1 DEF Hello
  <2>5. CASE CheckSession(g) /\ down' # down
    <3>1. g \in Greeted
      BY <2>5 DEF CheckSession, HelloLeads
    <3>2. Reply(g, <<"stale_session", "internal_error">>)
      BY <2>5, <3>1 DEF CheckSession
    <3>3. <<"stale_session", "internal_error">> \in Seq(Answers)
      BY DEF Answers
    <3>4. \A j \in DOMAIN <<"stale_session", "internal_error">> :
            <<"stale_session", "internal_error">>[j] # "invalid_session"
      OBVIOUS
    <3> QED BY <2>3, <3>2, <3>3, <3>4
  <2>6. CASE ApplyFails(g)
    <3>1. \A a \in {"rejected", "internal_error"} :
            <<a>> \in Seq(Answers) /\ \A j \in DOMAIN <<a>> : <<a>>[j] # "invalid_session"
      BY DEF Answers
    <3> QED BY <2>3, <2>6, <3>1 DEF ApplyFails
  <2>7. Apply(g) \/ PeerGone(g) => down' = down
    BY DEF Apply, PeerGone
  <2>8. ~HelloRefused(g)
    BY DEF HelloRefused
  <2> QED BY <2>2, <2>4, <2>5, <2>6, <2>7, <2>8 DEF Served, Backend
<1>6. \A h \in Connections : h \notin Greeted' => HelloStays(h)
  BY <1>1, <1>2, <1>3, <1>4 DEF HelloStays
<1> QED BY <1>2, <1>5, <1>6, HelloStaysInFront

(* Every step does.                                                        *)
LEMMA StepLeavesHello ==
  ASSUME Bounds, IInv, HelloLeads, ~RefuseHello, [Next]_vars
  PROVE  HelloLeads'
<1>1. CASE UNCHANGED vars
  <2>1. UNCHANGED <<sock, up, down, cur, greeted>>
    BY <1>1 DEF vars, sinkVars, link, wires, backend
  <2> QED BY <2>1, QuietLeavesHello
<1>2. CASE Call \/ NoMoreConnections \/ Superseded
  <2>1. UNCHANGED <<sock, up, down, cur, greeted>>
    BY <1>2 DEF Call, PushBootstrap, PushDelta, Observe, Send, NoMoreConnections, Superseded, Usurp,
                sinkVars, link, wires, backend
  <2> QED BY <2>1, QuietLeavesHello
<1> QED BY <1>1, <1>2, CollectorLeavesHello, EventsLeaveHello, BackendLeavesHello DEF Next, Work

-----------------------------------------------------------------------------
(* The theorems                                                            *)

(* The invariant holds at the start.                                       *)
LEMMA InitFits ==
  ASSUME Bounds, Init
  PROVE  IInv
<1>1. PICK blank : blank = [f \in Fixtures |-> 0]
  OBVIOUS
<1>2. 0 \in Prices /\ blank \in Offer /\ MaxTime \in Nat \ {0} /\ MaxConnections \in Nat \ {0}
      /\ MaxFaults \in Nat
  BY <1>1 DEF Prices, Offer, Bounds, StreamBounds, SinkBounds
<1>3. truth = <<blank>> /\ truth \in Seq(Offer) /\ Now = 1 /\ truth[Now] = blank
  BY <1>1, <1>2 DEF Init, Now
<1>4. queue = <<>> /\ queue \in Seq(Operations) /\ greeted = <<>> /\ greeted \in Seq(Connections)
      /\ DOMAIN queue = {} /\ Greeted = {}
  BY DEF Init, StreamInit, Greeted, ToSet
<1>5. /\ up = [g \in Connections |-> <<>>] /\ up \in [Connections -> Seq(Frames)]
      /\ down = [g \in Connections |-> <<>>] /\ down \in [Connections -> Seq(Answers)]
      /\ \A g \in Connections : OnWire(g) = {}
  BY DEF Init, StreamInit, OnWire
<1>6. /\ \A f \in Fixtures : latest[f] = 0 /\ held[f] = 0
      /\ \A f \in Fixtures : legacy[f] = [val |-> 0, at |-> 0]
      /\ \A f \in Fixtures : coherent[f] = [val |-> 0, at |-> 0, session |-> 0, batch |-> 0]
      /\ known = {} /\ boot = 0 /\ batches = 0 /\ ready = FALSE /\ cur = 0 /\ session = 0
      /\ latest = blank /\ held = blank /\ pendingResync = TRUE
      /\ active = 0 /\ checked = {} /\ faults = 0
      /\ \A g \in Connections : sock[g] = "none" /\ peer[g] = "none" /\ members[g] = {}
  BY <1>1 DEF Init, StreamInit
<1>7. Typed
  <2>1. /\ sock \in [Connections -> {"none", "connecting", "open", "closing", "closed"}]
        /\ peer \in [Connections -> {"none", "open", "ended"}]
        /\ members \in [Connections -> SUBSET Fixtures]
    BY DEF Init, StreamInit
  <2>2. legacy \in [Fixtures -> [val : Prices, at : 0..MaxTime]]
    BY <1>2 DEF Init, StreamInit
  <2>3. coherent \in [Fixtures -> [val : Prices, at : 0..MaxTime, session : 0..MaxConnections,
                                   batch : 0..batches]]
    BY <1>2, <1>6 DEF Init, StreamInit
  <2>4. held \in [Fixtures -> 0..batches]
    BY <1>1, <1>6
  <2>5. active \in 0..Rival /\ cur \in 0..session /\ session \in 0..MaxConnections
        /\ boot \in 0..MaxTime /\ faults \in 0..MaxFaults /\ Now \in 1..MaxTime
    BY <1>2, <1>3, <1>6 DEF Rival
  <2>6. /\ ready \in BOOLEAN /\ pendingResync \in BOOLEAN /\ batches \in Nat
        /\ latest \in Offer /\ known \subseteq Fixtures /\ checked \subseteq Connections
        /\ \A i \in DOMAIN queue : queue[i] \in Operations
        /\ (ready => queue # <<>>)
    BY <1>2, <1>4, <1>6
  <2> QED BY <1>3, <1>4, <1>5, <2>1, <2>2, <2>3, <2>4, <2>5, <2>6 DEF Typed, TypeOK
<1>8. \A g \in Connections : NoBatch(g)
  BY <1>5, <1>6 DEF NoBatch, Connections
<1>9. LinkFits
  BY <1>4, <1>5, <1>6, <1>8 DEF LinkFits
<1>10. NewestActs
  BY <1>6 DEF NewestActs
<1>11. CacheFits
  BY <1>3, <1>6 DEF CacheFits
<1>12. PricesFit
  <2>1. FramesHonest /\ ObservedHonest
    BY <1>5 DEF FramesHonest, ObservedHonest
  <2>2. StoresHonest
    BY <1>6 DEF StoresHonest, Honest
  <2>3. QueueHonest /\ ObservationsHonest
    BY <1>4 DEF QueueHonest, ObservationsHonest
  <2>4. HeldShowsLast
    BY <1>6 DEF HeldShowsLast, Connected
  <2> QED BY <2>1, <2>2, <2>3, <2>4 DEF PricesFit
<1> QED BY <1>7, <1>9, <1>10, <1>11, <1>12 DEF IInv

(* Every step keeps it.                                                    *)
LEMMA StepKeeps ==
  ASSUME Bounds, IInv, [Next]_vars
  PROVE  IInv'
<1>1. CASE UNCHANGED vars
  <2>1. UNCHANGED <<sinkVars, wires, backend, faults>>
    BY <1>1 DEF vars
  <2>2. UNCHANGED <<truth, latest, known, boot, held, batches, queue, ready, cur, session,
                    pendingResync, sock, up, down, peer, greeted, checked, active, members,
                    legacy, coherent, faults>>
    BY <2>1 DEF sinkVars, cache, link, wires, backend
  <2>3. Typed'
    BY <2>2 DEF IInv, Typed, TypeOK, Now
  <2>4. LinkFits' /\ NewestActs'
    BY <2>2, LinkUnchanged DEF IInv
  <2>5. CacheFits'
    BY <2>2, CacheUnchanged DEF IInv
  <2>6. PricesFit'
    BY <2>2 DEF IInv, PricesFit, FramesHonest, StoresHonest, QueueHonest, HeldShowsLast,
             ObservationsHonest, ObservedHonest, Honest, OfferedSince, OnWire, Now, Connected,
             ShowsLast, Sent, Vouches, Vouched, OperationHonest, Renews, Renewed
  <2> QED BY <2>3, <2>4, <2>5, <2>6 DEF IInv
<1>2. CASE Next
  BY <1>2, PushBootstrapKeeps, PushDeltaKeeps, ObserveKeeps, SendKeeps, RunOperationKeeps,
     StartConnectionKeeps, NoMoreConnectionsKeeps, SupersededKeeps, SocketOpenKeeps,
     AcknowledgedKeeps, ErrorFrameKeeps, ClosedKeeps, HelloKeeps, HelloRefusedKeeps,
     CheckSessionKeeps, ApplyKeeps, ApplyFailsKeeps, PeerGoneKeeps
  DEF Next, Call, Work, Event, Served, Backend
<1> QED BY <1>1, <1>2

(* The invariant holds throughout.                                         *)
LEMMA EverythingFits == ASSUME Bounds PROVE Spec => []IInv
<1>1. Init => IInv
  BY InitFits
<1>2. IInv /\ [Next]_vars => IInv'
  BY StepKeeps
<1> QED BY <1>1, <1>2, PTL DEF Spec

(* The variables keep their types: a hello awaited means an operation that *)
(* waits for it, so the rejected promise has an operation to fail.         *)
THEOREM TypeCorrect == ASSUME Bounds PROVE Spec => []TypeOK
<1>1. IInv => TypeOK
  BY DEF IInv, Typed
<1> QED BY <1>1, EverythingFits, PTL

(* A price in either store never carries an observation time later than the*)
(* last moment the bookmaker offered it, whatever is lost, refused, resent *)
(* or applied late, two processes of the same source included.             *)
(* (observeFixtureMarketBatches, ObserveFixtureBatches, prepareQuoteWrite)  *)
THEOREM FreshnessIsTrue == ASSUME Bounds PROVE Spec => []NoFalseFreshness
<1>1. IInv => DOMAIN legacy = Fixtures
  BY DEF IInv, Typed, TypeOK
<1>2. IInv => NoFalseFreshness
  BY <1>1 DEF IInv, PricesFit, StoresHonest, Honest, NoFalseFreshness
<1> QED BY <1>2, EverythingFits, PTL

(* The session that takes over a fixture of the coherent store is the one  *)
(* whose hello was accepted last, as long as no hello comes between a check*)
(* and its write. (requireActiveSession, ApplyFixtureMarketSnapshot)       *)
THEOREM NewestSessionWrites == ASSUME Bounds PROVE Spec => SessionsAdvance
<1>1. ASSUME IInv, Next, ~Overlap
      PROVE  TakeoverByNewest
  <2>1. CASE coherent' = coherent
    BY <2>1 DEF TakeoverByNewest
  <2>2. ASSUME NEW g \in Connections, Apply(g)
        PROVE  TakeoverByNewest
    <3>1. g = Last(greeted)
      BY <1>1, <2>2 DEF IInv, NewestActs, Apply
    <3>2. PICK frame : frame = Head(up[g])
      OBVIOUS
    <3>3. coherent' = [f \in Fixtures |->
            CASE frame.t = "fixture_market_snapshot" /\ f = frame.fixture ->
                   Replaced(coherent[f], g, frame)
              [] frame.t = "fixture_observed_batch" /\ frame.items[f] # 0 ->
                   Refreshed(coherent[f], g, frame.items[f], frame.at)
              [] OTHER -> coherent[f]]
      BY <2>2, <3>2 DEF Apply
    <3>4. DOMAIN coherent = Fixtures /\ \A f \in Fixtures : "at" \in DOMAIN coherent[f]
          /\ coherent \in [Fixtures -> [val : Prices, at : 0..MaxTime,
                                        session : 0..MaxConnections, batch : 0..batches]]
      BY <1>1 DEF IInv, Typed, TypeOK
    <3>5. ASSUME NEW f \in Fixtures
          PROVE  coherent'[f].session = coherent[f].session \/ coherent'[f].session = g
      <4>1. Replaced(coherent[f], g, frame).session \in {coherent[f].session, g}
        BY DEF Replaced
      <4>2. Refreshed(coherent[f], g, frame.items[f], frame.at).session = coherent[f].session
        BY <3>4 DEF Refreshed
      <4> QED BY <3>3, <4>1, <4>2
    <3> QED BY <3>1, <3>4, <3>5 DEF TakeoverByNewest
  <2> QED BY <1>1, <2>1, <2>2
       DEF Next, Call, PushBootstrap, PushDelta, Observe, Send, Work, RunOperation,
           StartConnection, NoMoreConnections, Superseded, Usurp, Event, SocketOpen, Acknowledged,
           ErrorFrame, Closed, Dropped, SocketClose, Served, Backend, Hello, HelloRefused,
           CheckSession, ApplyFails, PeerGone, backend, stores
<1>2. ASSUME IInv, [Next]_vars
      PROVE  [~Overlap => TakeoverByNewest]_vars
  BY <1>1, <1>2
<1> QED BY <1>2, EverythingFits, PTL DEF Spec, SessionsAdvance

(* While no hello is refused, the first frame of a connection is its hello *)
(* and the backend never answers invalid_session: an operation may go out  *)
(* on a socket that is open but not acknowledged, and still goes behind it. *)
(* (ensureConnected, startConnection)                                       *)
THEOREM HelloGoesFirst == ASSUME Bounds, ~RefuseHello PROVE Spec => []HelloFirst
<1>1. Init => HelloLeads
  BY DEF Init, StreamInit, HelloLeads
<1>2. IInv /\ HelloLeads /\ [Next]_vars => HelloLeads'
  BY StepLeavesHello
<1>3. HelloLeads => HelloFirst
  BY DEF HelloLeads, HelloFirst
<1> QED BY <1>1, <1>2, <1>3, EverythingFits, PTL DEF Spec
=============================================================================
