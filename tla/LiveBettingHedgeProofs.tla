------------------------- MODULE LiveBettingHedgeProofs -------------------------
(***************************************************************************)
(* On a reliable wire, for any actions, roles and bounds and whatever      *)
(* crashes, TicketInv is an inductive invariant of LiveBetting: a commit   *)
(* passes through its stages once (no trace, about to be written, queued,  *)
(* handled).  QuietKeeps says that a step that advances no commit keeps    *)
(* it; the few steps that do have a lemma each.  An aborted action is      *)
(* empty, and an action never has two Jun88 tickets.                       *)
(*                                                                         *)
(* HedgeInv is inductive relative to SafetyInv and CommitInv.  With them   *)
(* an action never gets two tickets of one bookmaker, an exposure that was *)
(* closed stays unhedged, the matcher sends nothing while a hedge is       *)
(* unresolved, and live betting implements TwoLegBet.                      *)
(***************************************************************************)
EXTENDS LiveBettingHedges, LiveBettingProofs


-----------------------------------------------------------------------------
(* Steps that advance no commit                                            *)

KeyPoints == {"mark", "send", "ask", "wait", "answer"}

(* Thread u is elsewhere, or about to ask for a commit that nobody sends,  *)
(* or where it was with what it knew.                                      *)
Resumes(u) ==
  \/ thr'[u].pc \notin KeyPoints
  \/ /\ thr'[u].pc = "ask"
     /\ \A v \in Threads : SameCommit(u, v, thr') => thr'[v].pc # "send"
  \/ /\ thr'[u].pc = thr[u].pc /\ thr'[u].key = thr[u].key /\ thr'[u].rsp = thr[u].rsp
     /\ thr[u].attStale => thr'[u].attStale

(* The same commands, perhaps awaited by fewer threads.                    *)
SameCommands(q, p) ==
  /\ DOMAIN p = DOMAIN q
  /\ \A i \in DOMAIN q :
       /\ p[i].kind = q[i].kind /\ p[i].key = q[i].key
       /\ p[i].to = q[i].to \/ p[i].to \notin Threads

(* The row of a commit is as it was, or it is no longer fresh, whoever was *)
(* to mark it will find it changed, and it says the truth.                 *)
RowStep(a, k) ==
  \/ attempt'[a][k] = attempt[a][k]
  \/ /\ attempt'[a][k].st \notin {"none", "before_send"}
     /\ \A u \in Threads :
          Subject(u) = a /\ thr'[u].pc = "mark" /\ thr'[u].key = k => thr'[u].attStale
     /\ attempt'[a][k].st = "response_received" /\ attempt'[a][k].res \in Negative =>
          Hopeless(thr', inbox[k[1]], tickets, a, k)

(* A thread with an answer waits for it, with a key.                       *)
LEMMA AnswersAwaited ==
  ASSUME IInv, NEW t \in Threads, thr[t].rsp # "none"
  PROVE  thr[t].pc \in WaitPoints /\ thr[t].key \in Keys /\ thr[t].key[1] \in Bookmakers
<1>1. Fits(t, thr[t], expo, tickets)
  BY DEF IInv, ThreadsFit
<1>2. QED
  BY <1>1 DEF Fits, KnowsKey, KnowsTicket, WaitPoints, KeyedPoints, CommitPoints, ReconcilePoints, Keys

(* Such a step keeps the invariant.                                        *)
LEMMA QuietKeeps ==
  ASSUME IInv, IInv', CommitInv, UNCHANGED <<journal, tickets>>,
         \A u \in Threads : Resumes(u),
         \A bm \in Bookmakers : SameCommands(inbox[bm], inbox'[bm]),
         \A a \in Actions, k \in Keys : RowStep(a, k)
  PROVE  CommitInv'
<1>1. ASSUME NEW a, NEW k, Sending(thr', a, k)
      PROVE  Sending(thr, a, k)
  <2>1. PICK t \in Threads : Subject(t) = a /\ thr'[t].pc = "send" /\ thr'[t].key = k
    BY <1>1 DEF Sending
  <2>2. thr[t].pc = "send" /\ thr[t].key = k
    BY <2>1 DEF Resumes, KeyPoints
  <2>3. QED
    BY <2>1, <2>2 DEF Sending
<1>2. ASSUME NEW a, NEW k \in Keys
      PROVE  Queued(inbox'[k[1]], a, k) <=> Queued(inbox[k[1]], a, k)
  <2>1. k[1] \in Bookmakers
    BY DEF Keys
  <2>2. SameCommands(inbox[k[1]], inbox'[k[1]])
    BY <2>1
  <2>3. QED
    BY <2>2 DEF SameCommands, Queued
<1>3. ASSUME NEW a, NEW k \in Keys, Hopeless(thr, inbox[k[1]], tickets, a, k)
      PROVE  Hopeless(thr', inbox'[k[1]], tickets', a, k)
  BY <1>1, <1>2, <1>3 DEF Hopeless
<1>4. CommitsFit'
  <2> SUFFICES ASSUME NEW a \in Actions, NEW k \in Keys
               PROVE  CommitOf(a, k, attempt'[a][k], thr', inbox'[k[1]], journal', tickets')
    BY DEF CommitsFit
  <2>1. CommitOf(a, k, attempt[a][k], thr, inbox[k[1]], journal, tickets)
    BY DEF CommitInv, CommitsFit
  <2>2. RowStep(a, k)
    OBVIOUS
  <2>3. CASE attempt'[a][k] = attempt[a][k]
    BY <1>1, <1>2, <1>3, <2>1, <2>3 DEF CommitOf
  <2>4. CASE attempt'[a][k] # attempt[a][k]
    <3>1. /\ attempt'[a][k].st \notin {"none", "before_send"}
          /\ attempt'[a][k].st = "response_received" /\ attempt'[a][k].res \in Negative =>
               Hopeless(thr', inbox[k[1]], tickets, a, k)
      BY <2>2, <2>4 DEF RowStep
    <3>2. Hopeless(thr', inbox[k[1]], tickets, a, k) =>
            Hopeless(thr', inbox'[k[1]], tickets', a, k)
      BY <1>2 DEF Hopeless
    <3>3. QED
      BY <1>1, <1>2, <2>1, <3>1, <3>2 DEF CommitOf
  <2>5. QED
    BY <2>3, <2>4
<1>5. ASSUME NEW t \in Threads
      PROVE  KnowsCommit(thr'[t], attempt'[Subject(t)])
  <2>1. KnowsCommit(thr[t], attempt[Subject(t)]) /\ Subject(t) \in Actions /\ Resumes(t)
    BY ThreadFacts DEF CommitInv, ThreadsCommit
  <2>2. CASE thr'[t].pc \in {"mark", "send"}
    <3>1. /\ thr'[t].pc = thr[t].pc /\ thr'[t].key = thr[t].key
          /\ thr[t].attStale => thr'[t].attStale
      BY <2>1, <2>2 DEF Resumes, KeyPoints
    <3>2. thr'[t].key \in Keys
      <4>1. Fits(t, thr[t], expo, tickets)
        BY DEF IInv, ThreadsFit
      <4>2. QED
        BY <4>1, <3>1, <2>2 DEF Fits, KnowsKey, KeyedPoints, CommitPoints
    <3>3. RowStep(Subject(t), thr'[t].key)
      BY <2>1, <3>2
    <3>4. QED
      BY <2>1, <2>2, <3>1, <3>3 DEF KnowsCommit, RowStep
  <2>3. QED
    BY <2>2 DEF KnowsCommit
<1>6. ASSUME NEW t \in Threads
      PROVE  Refused(t, thr', inbox', tickets')
  <2>1. SUFFICES ASSUME thr'[t].rsp \in Negative, ~thr'[t].attStale
                 PROVE  Hopeless(thr', inbox'[thr'[t].key[1]], tickets', Subject(t), thr'[t].key)
    BY DEF Refused
  <2>2. thr'[t].pc \in WaitPoints /\ thr'[t].key \in Keys
    <3>1. (thr[t].rsp # "none" => thr[t].pc \in WaitPoints /\ thr[t].key \in Keys)'
      <4>1. Fits(t, thr[t], expo, tickets)'
        BY DEF IInv, ThreadsFit
      <4>2. QED
        BY <4>1 DEF Fits, KnowsKey, KnowsTicket, WaitPoints, KeyedPoints, CommitPoints, ReconcilePoints, Keys
    <3>2. thr'[t].rsp # "none"
      BY <2>1 DEF Negative
    <3>3. QED
      BY <3>1, <3>2
  <2>3. thr'[t].key = thr[t].key /\ thr'[t].rsp = thr[t].rsp /\ ~thr[t].attStale
    BY <2>1, <2>2 DEF Resumes, WaitPoints, KeyPoints
  <2>4. Hopeless(thr, inbox[thr[t].key[1]], tickets, Subject(t), thr[t].key)
    BY <2>1, <2>3 DEF CommitInv, ThreadsCommit, Refused
  <2>5. QED
    BY <1>3, <2>2, <2>3, <2>4
<1>7. ASSUME NEW t \in Threads, NEW u \in Threads
      PROVE  SendsAlone(t, u, thr')
  <2>1. SendsAlone(t, u, thr) /\ Resumes(t) /\ Resumes(u)
    BY DEF CommitInv, ThreadsCommit
  <2>2. QED
    BY <2>1 DEF SendsAlone, SameCommit, Resumes, KeyPoints
<1>8. QueuesOrdered'
  <2> SUFFICES ASSUME NEW bm \in Bookmakers PROVE WrittenOnce(inbox'[bm], thr')
    BY DEF QueuesOrdered
  <2>1. WrittenOnce(inbox[bm], thr) /\ SameCommands(inbox[bm], inbox'[bm])
    BY DEF CommitInv, QueuesOrdered
  <2>2. ASSUME NEW i \in DOMAIN inbox'[bm], inbox'[bm][i].to \in Threads,
               ~thr'[inbox'[bm][i].to].attStale
        PROVE  inbox[bm][i].to \in Threads /\ ~thr[inbox[bm][i].to].attStale
    <3>1. inbox'[bm][i].to = inbox[bm][i].to
      BY <2>1, <2>2 DEF SameCommands
    <3>2. thr'[inbox'[bm][i].to].pc \in WaitPoints
      BY <2>2 DEF IInv, QueuesFit, CommandFits
    <3>3. QED
      BY <2>2, <3>1, <3>2 DEF Resumes, WaitPoints, KeyPoints
  <2>3. QED
    BY <2>1, <2>2 DEF WrittenOnce, SameCommands
<1>9. QED
  BY <1>4, <1>5, <1>6, <1>7, <1>8 DEF CommitInv, ThreadsCommit
(* What a step of thread t, to whatever it becomes, does to the others.    *)
LEMMA OthersResume ==
  ASSUME TypeOK, NEW t \in Threads, NEW self, NEW written, Advance(t, self, written)
  PROVE  /\ thr'[t] = self
         /\ \A u \in Threads : u # t =>
              /\ Resumes(u)
              /\ thr'[u].pc = thr[u].pc /\ thr'[u].key = thr[u].key /\ thr'[u].rsp = thr[u].rsp
              /\ thr[u].attStale => thr'[u].attStale
              /\ /\ Subject(u) = Subject(t) /\ thr[u].pc # "idle" /\ thr[u].key \in written
                 => thr'[u].attStale
<1>1. thr \in [Threads -> ThreadState]
  BY DEF TypeOK
<1>2. thr'[t] = self
  BY DEF Advance
<1>3. ASSUME NEW u \in Threads, u # t
      PROVE  /\ thr'[u].pc = thr[u].pc /\ thr'[u].key = thr[u].key /\ thr'[u].rsp = thr[u].rsp
             /\ thr[u].attStale => thr'[u].attStale
             /\ /\ Subject(u) = Subject(t) /\ thr[u].pc # "idle" /\ thr[u].key \in written
                => thr'[u].attStale
  <2>1. thr[u] \in ThreadState
    BY <1>1
  <2>2. CASE Subject(u) = Subject(t) /\ thr[u].pc # "idle"
    <3>1. thr'[u] = Outdated(thr[u], written)
      BY <1>3, <2>2 DEF Advance
    <3>2. /\ Outdated(thr[u], written).pc = thr[u].pc /\ Outdated(thr[u], written).key = thr[u].key
          /\ Outdated(thr[u], written).rsp = thr[u].rsp
      BY <2>1, OutdatedFacts
    <3>3. Outdated(thr[u], written).attStale = IF thr[u].key \in written THEN TRUE ELSE thr[u].attStale
      BY <2>1 DEF Outdated, ThreadState
    <3>4. QED
      BY <3>1, <3>2, <3>3
  <2>3. CASE ~(Subject(u) = Subject(t) /\ thr[u].pc # "idle")
    <3>1. thr'[u] = thr[u]
      BY <1>3, <2>3 DEF Advance
    <3>2. QED
      BY <2>3, <3>1
  <2>4. QED
    BY <2>2, <2>3
<1>4. QED
  BY <1>2, <1>3 DEF Resumes

(* Commands that nobody awaits any more are still the same commands.       *)
LEMMA ForgottenCommands ==
  ASSUME TypeOK, NEW ts, NEW bm \in Bookmakers
  PROVE  /\ SameCommands(inbox[bm], inbox[bm])
         /\ SameCommands(inbox[bm], Forgotten(ts)[bm])
<1>1. ASSUME NEW i \in DOMAIN inbox[bm]
      PROVE  inbox[bm][i] \in Message
  BY <1>1, QueueElements
<1>2. DOMAIN Forgotten(ts)[bm] = DOMAIN inbox[bm]
  BY ForgottenFacts
<1>3. ASSUME NEW i \in DOMAIN inbox[bm]
      PROVE  /\ Forgotten(ts)[bm][i].kind = inbox[bm][i].kind
             /\ Forgotten(ts)[bm][i].key = inbox[bm][i].key
             /\ \/ Forgotten(ts)[bm][i].to = inbox[bm][i].to
                \/ Forgotten(ts)[bm][i].to \notin Threads
  <2>1. Forgotten(ts)[bm][i] = IF inbox[bm][i].to \in ts THEN [inbox[bm][i] EXCEPT !.to = NoThread]
                               ELSE inbox[bm][i]
    BY DEF Forgotten
  <2>2. NoThread \notin Threads
    BY ThreadFacts
  <2>3. QED
    BY <1>1, <2>1, <2>2 DEF Message
<1>4. QED
  BY <1>2, <1>3 DEF SameCommands

(* A thread moves on and saves no attempt.                                 *)
LEMMA ThreadMovesOn ==
  ASSUME IInv, IInv', CommitInv, NEW t \in Threads, NEW self, NEW written,
         Advance(t, self, written), self.pc \notin KeyPoints,
         UNCHANGED <<attempt, journal, tickets>>,
         UNCHANGED inbox \/ inbox' = Forgotten({t})
  PROVE  CommitInv'
<1>1. TypeOK
  BY DEF IInv
<1>2. \A u \in Threads : Resumes(u)
  BY <1>1, OthersResume DEF Resumes
<1>3. \A bm \in Bookmakers : SameCommands(inbox[bm], inbox'[bm])
  BY <1>1, ForgottenCommands
<1>4. \A a \in Actions, k \in Keys : RowStep(a, k)
  BY DEF RowStep
<1>5. QED
  BY <1>2, <1>3, <1>4, QuietKeeps

(* Where a thread goes from a row or an answer.                            *)
AwayPoints == (Points \ KeyPoints) \cup {"return"}

(* There it works on no key, and nor does it when it has ended.            *)
LEMMA GoesAway ==
  ASSUME IInv, NEW t \in Threads, NEW p \in AwayPoints
  PROVE  /\ Goto(t, p).pc \notin KeyPoints /\ Returned(t).pc \notin KeyPoints
         /\ Idle.pc \notin KeyPoints
<1>1. thr[t] \in ThreadState
  BY DEF IInv, TypeOK
<1>2. Returned(t).pc \notin KeyPoints /\ Idle.pc \notin KeyPoints
  BY DEF Returned, Idle, KeyPoints
<1>3. CASE p = "return"
  BY <1>2, <1>3 DEF Goto
<1>4. CASE p # "return"
  <2>1. Goto(t, p) = [thr[t] EXCEPT !.pc = p, !.rsp = "none"] /\ p \notin KeyPoints
    BY <1>4 DEF Goto, AwayPoints, KeyPoints
  <2>2. QED
    BY <1>1, <1>2, <2>1 DEF ThreadState
<1>5. QED
  BY <1>3, <1>4

(* It moves the action, or the exposure, or saves the exposure, or takes   *)
(* the account.                                                            *)
LEMMA RowMovesOn ==
  ASSUME IInv, IInv', CommitInv, NEW t \in Threads, NEW to, NEW p \in AwayPoints,
         UNCHANGED <<attempt, wire>>,
         \/ TransitionAction(t, to, p) \/ TransitionExposure(t, to, p) \/ SaveExposure(t, p)
         \/ Reserve(t, p)
  PROVE  CommitInv'
<1>1. /\ Goto(t, p).pc \notin KeyPoints /\ Returned(t).pc \notin KeyPoints
  BY GoesAway
<1>2. UNCHANGED <<attempt, journal, tickets>> /\ UNCHANGED inbox
  BY DEF wire
<1>3. \/ Advance(t, Goto(t, p), {ActionRow}) \/ Advance(t, Returned(t), {})
      \/ Advance(t, Goto(t, p), {ExposureRow})
  BY Zenon DEF TransitionAction, TransitionExposure, SaveExposure, Reserve
<1>4. QED
  BY <1>1, <1>2, <1>3, ThreadMovesOn

(* A thread writes the row of its attempt and moves on; if the row then    *)
(* says that there is no ticket, there is none.                            *)
LEMMA AttemptWritten ==
  ASSUME IInv, IInv', CommitInv, NEW t \in Threads, NEW st, NEW res, NEW self, NEW written,
         KeyOf(t) \in Keys, Advance(t, self, written), self.pc \notin KeyPoints,
         attempt' = [attempt EXCEPT ![Subject(t)][KeyOf(t)] = [st |-> st, res |-> res]],
         KeyOf(t) \in written, st \notin {"none", "before_send"},
         st = "response_received" /\ res \in Negative =>
           /\ TicketAt(Subject(t), KeyOf(t)) \notin tickets
           /\ ~Queued(inbox[KeyOf(t)[1]], Subject(t), KeyOf(t))
           /\ \A u \in Threads : SameCommit(t, u, thr) /\ thr[u].pc = "send" => u = t,
         UNCHANGED <<journal, tickets>>,
         UNCHANGED inbox \/ inbox' = Forgotten({t})
  PROVE  CommitInv'
<1>1. TypeOK /\ Subject(t) \in Actions /\ attempt \in [Actions -> [Keys -> AttemptState]]
  BY ThreadFacts DEF IInv, TypeOK
<1>2. /\ thr'[t] = self
      /\ \A u \in Threads : u # t =>
           /\ Resumes(u) /\ thr'[u].pc = thr[u].pc /\ thr'[u].key = thr[u].key
           /\ /\ Subject(u) = Subject(t) /\ thr[u].pc # "idle" /\ thr[u].key \in written
              => thr'[u].attStale
  BY <1>1, OthersResume
<1>3. \A u \in Threads : Resumes(u)
  BY <1>2 DEF Resumes
<1>4. \A bm \in Bookmakers : SameCommands(inbox[bm], inbox'[bm])
  BY <1>1, ForgottenCommands
<1>5. /\ attempt'[Subject(t)][KeyOf(t)] = [st |-> st, res |-> res]
      /\ \A j \in Keys \ {KeyOf(t)} : attempt'[Subject(t)][j] = attempt[Subject(t)][j]
      /\ \A b \in Actions \ {Subject(t)} : attempt'[b] = attempt[b]
  BY <1>1
<1>6. ASSUME NEW a \in Actions, NEW k \in Keys
      PROVE  RowStep(a, k)
  <2>1. CASE a = Subject(t) /\ k = KeyOf(t)
    <3>1. attempt'[a][k] = [st |-> st, res |-> res]
      BY <1>5, <2>1
    <3>2. ASSUME NEW u \in Threads, Subject(u) = a, thr'[u].pc = "mark", thr'[u].key = k
          PROVE  thr'[u].attStale
      BY <1>2, <2>1, <3>2 DEF KeyPoints
    <3>3. ASSUME st = "response_received", res \in Negative
          PROVE  Hopeless(thr', inbox[k[1]], tickets, a, k)
      <4>1. /\ TicketAt(a, k) \notin tickets /\ ~Queued(inbox[k[1]], a, k)
            /\ \A u \in Threads : SameCommit(t, u, thr) /\ thr[u].pc = "send" => u = t
        BY <2>1, <3>3
      <4>2. ~Sending(thr', a, k)
        BY <1>2, <2>1, <4>1 DEF Sending, SameCommit, KeyOf, KeyPoints
      <4>3. QED
        BY <4>1, <4>2 DEF Hopeless
    <3>4. QED
      BY <3>1, <3>2, <3>3 DEF RowStep
  <2>2. CASE ~(a = Subject(t) /\ k = KeyOf(t))
    <3>1. attempt'[a][k] = attempt[a][k]
      BY <1>5, <2>2
    <3>2. QED
      BY <3>1 DEF RowStep
  <2>3. QED
    BY <2>1, <2>2
<1>7. QED
  BY <1>3, <1>4, <1>6, QuietKeeps

(* The same for a thread that saves its attempt if nobody else has.        *)
LEMMA AttemptMovesOn ==
  ASSUME IInv, IInv', CommitInv, NEW t \in Threads, NEW st, NEW res, NEW p \in AwayPoints,
         NEW q \in AwayPoints, SaveAttempt(t, st, res, p, q), KeyOf(t) \in Keys,
         st \notin {"none", "before_send"},
         ~thr[t].attStale /\ st = "response_received" /\ res \in Negative =>
           /\ TicketAt(Subject(t), KeyOf(t)) \notin tickets
           /\ ~Queued(inbox[KeyOf(t)[1]], Subject(t), KeyOf(t))
           /\ \A u \in Threads : SameCommit(t, u, thr) /\ thr[u].pc = "send" => u = t,
         UNCHANGED <<journal, tickets>>,
         UNCHANGED inbox \/ inbox' = Forgotten({t})
  PROVE  CommitInv'
<1>1. Goto(t, p).pc \notin KeyPoints /\ Goto(t, q).pc \notin KeyPoints
  BY GoesAway
<1>2. CASE thr[t].attStale
  BY <1>1, <1>2, ThreadMovesOn DEF SaveAttempt
<1>3. CASE ~thr[t].attStale
  <2>1. /\ attempt' = [attempt EXCEPT ![Subject(t)][KeyOf(t)] = [st |-> st, res |-> res]]
        /\ Advance(t, Goto(t, p), {KeyOf(t)})
    BY <1>3 DEF SaveAttempt
  <2>2. QED
    BY <1>1, <1>3, <2>1, AttemptWritten
<1>4. QED
  BY <1>2, <1>3

(* An answer that there is no ticket may be saved.                         *)
LEMMA RefusedFacts ==
  ASSUME CommitInv, NEW t \in Threads, thr[t].rsp \in Negative, ~thr[t].attStale
  PROVE  /\ TicketAt(Subject(t), KeyOf(t)) \notin tickets
         /\ ~Queued(inbox[KeyOf(t)[1]], Subject(t), KeyOf(t))
         /\ \A u \in Threads : SameCommit(t, u, thr) /\ thr[u].pc = "send" => u = t
<1>1. Hopeless(thr, inbox[thr[t].key[1]], tickets, Subject(t), thr[t].key)
  BY DEF CommitInv, ThreadsCommit, Refused
<1>2. QED
  BY <1>1 DEF Hopeless, Sending, SameCommit, KeyOf

(* The thread has a key where it saves its attempt.                        *)
LEMMA SavesItsKey ==
  ASSUME IInv, NEW t \in Threads,
         thr[t].pc \in CommitPoints \cup TicketPoints \cup EvidencePoints \cup ReconcilePoints
                         \cup {"hedge_unknown_attempt"}
  PROVE  KeyOf(t) \in Keys
<1>1. Fits(t, thr[t], expo, tickets)
  BY DEF IInv, ThreadsFit
<1>2. QED
  BY <1>1 DEF Fits, KnowsKey, KeyedPoints, HedgePoints, KeyOf

(* A Jun88 ticket is saved with its exposure.                              *)
LEMMA TicketMovesOn ==
  ASSUME IInv, IInv', CommitInv, NEW t \in Threads, NEW self, CommitJun88Ticket(t, self),
         thr[t].pc \in TicketPoints, self \in ThreadState, self.pc \notin KeyPoints, UNCHANGED wire
  PROVE  CommitInv'
<1>1. UNCHANGED <<journal, tickets>> /\ UNCHANGED inbox
  BY DEF wire
<1>2. KeyOf(t) \in Keys
  BY SavesItsKey
<1>3. CASE /\ attempt' = [attempt EXCEPT ![Subject(t)][KeyOf(t)] =
                           [st |-> "response_received", res |-> "ticket_accepted"]]
           /\ Advance(t, [self EXCEPT !.link = "own"], {ActionRow, KeyOf(t)})
  <2> DEFINE own == [self EXCEPT !.link = "own"]
             written == {ActionRow, KeyOf(t)}
             st == "response_received"
             res == "ticket_accepted"
  <2>1. own.pc \notin KeyPoints /\ KeyOf(t) \in written
    BY DEF ThreadState
  <2>2. st \notin {"none", "before_send"} /\ res \notin Negative
    BY DEF Negative
  <2>3. /\ attempt' = [attempt EXCEPT ![Subject(t)][KeyOf(t)] = [st |-> st, res |-> res]]
        /\ Advance(t, own, written)
    BY <1>3
  <2> HIDE DEF own, written, st, res
  <2>4. QED
    BY <1>1, <1>2, <2>1, <2>2, <2>3, AttemptWritten
<1>4. CASE UNCHANGED rows /\
           Advance(t, [self EXCEPT !.link = "lost", !.lag = IF @ > 0 THEN @ - 1 ELSE 0], {})
  <2>1. [self EXCEPT !.link = "lost", !.lag = IF @ > 0 THEN @ - 1 ELSE 0].pc \notin KeyPoints
    BY DEF ThreadState
  <2>2. QED
    BY <1>1, <1>4, <2>1, ThreadMovesOn DEF rows
<1>5. CASE UNCHANGED rows /\ Advance(t, Returned(t), {})
  <2>1. Returned(t).pc \notin KeyPoints
    BY DEF Returned, Idle, KeyPoints
  <2>2. QED
    BY <1>1, <1>5, <2>1, ThreadMovesOn DEF rows
<1>6. QED
  BY <1>3, <1>4, <1>5 DEF CommitJun88Ticket

-----------------------------------------------------------------------------
(* The executor                                                            *)

(* No step of the executor but those it shares advances a commit.          *)
LEMMA ExecutorCommits ==
  ASSUME IInv, IInv', CommitInv, NEW t \in Threads, ExecutorStep(t)
  PROVE  CommitInv'
<1>0. thr[t] \in ThreadState
  BY DEF IInv, TypeOK
<1>1. {"reserve", "prepare", "release", "jun_start", "dry_run", "jun_renew", "return", "jun_ticket",
       "jun_unknown", "abort", "jun_changed", "jun_reallocate"} \subseteq AwayPoints
  BY DEF AwayPoints, Points, KeyPoints
<1>2. ASSUME NEW to, NEW p \in AwayPoints, TransitionAction(t, to, p) \/ Reserve(t, p),
             UNCHANGED <<attempt, wire>>
      PROVE  CommitInv'
  BY <1>2, RowMovesOn
<1>3. ASSUME NEW self, NEW written, Advance(t, self, written), self.pc \notin KeyPoints,
             UNCHANGED <<attempt, wire>>
      PROVE  CommitInv'
  BY <1>3, ThreadMovesOn DEF wire
<1>4. Goto(t, "reserve").pc \notin KeyPoints /\ Goto(t, "jun_ticket").pc \notin KeyPoints
      /\ Returned(t).pc \notin KeyPoints
  BY <1>1, GoesAway
<1>5. CASE CreateAction(t)
  BY <1>3, <1>4, <1>5 DEF CreateAction
<1>6. CASE ReserveAccount(t)
  BY <1>1, <1>2, <1>6, Zenon DEF ReserveAccount
<1>7. CASE PrepareBoth(t) \/ DryRun(t) \/ JunStart(t)
  BY <1>1, <1>2, <1>7 DEF PrepareBoth, DryRun, JunStart
<1>8. CASE JunRenew(t)
  <2>1. [thr[t] EXCEPT !.pc = "new", !.key = <<"jun88", thr[t].round + 1>>].pc \notin KeyPoints
    BY <1>0 DEF ThreadState, KeyPoints
  <2>2. QED
    BY <1>1, <1>2, <1>3, <1>8, <2>1, Zenon DEF JunRenew
<1>9. CASE JunAccepted(t) \/ JunOddsChanged(t) \/ JunRejected(t)
  <2>1. KeyOf(t) \in Keys
    BY <1>9, SavesItsKey DEF JunAccepted, JunOddsChanged, JunRejected, At, CommitPoints
  <2>2. UNCHANGED <<journal, tickets>> /\ UNCHANGED inbox
    BY <1>9 DEF JunAccepted, JunOddsChanged, JunRejected, wire
  <2>3. CASE JunAccepted(t)
    <3>1. CASE Advance(t, Goto(t, "jun_ticket"), {}) /\ UNCHANGED attempt
      BY <1>4, <2>2, <3>1, ThreadMovesOn
    <3>2. CASE SaveAttempt(t, "awaiting_reconcile", "submission_unknown", "jun_unknown", "jun_unknown")
      BY <1>1, <2>1, <2>2, <3>2, AttemptMovesOn
    <3>3. QED
      BY <2>3, <3>1, <3>2 DEF JunAccepted
  <2>4. CASE JunOddsChanged(t)
    <3>1. PICK p \in {"jun_unknown", "abort", "jun_changed"} :
                 SaveAttempt(t, "response_received", "odds_changed", p, "jun_unknown")
      BY <2>4 DEF JunOddsChanged
    <3>2. p \in AwayPoints
      BY <1>1
    <3>3. thr[t].rsp \in Negative
      BY <2>4 DEF JunOddsChanged, Negative
    <3>4. QED
      BY <1>1, <2>1, <2>2, <3>1, <3>2, <3>3, RefusedFacts, AttemptMovesOn
  <2>5. CASE JunRejected(t)
    <3>1. SaveAttempt(t, "response_received", "rejected", "abort", "jun_unknown")
      BY <2>5 DEF JunRejected
    <3>2. thr[t].rsp \in Negative
      BY <2>5 DEF JunRejected, Negative
    <3>3. QED
      BY <1>1, <2>1, <2>2, <3>1, <3>2, RefusedFacts, AttemptMovesOn
  <2>6. QED
    BY <1>9, <2>3, <2>4, <2>5
<1>10. CASE JunChanged(t) \/ JunUnknown(t) \/ Abort(t)
  BY <1>1, <1>2, <1>10 DEF JunChanged, JunUnknown, Abort
<1>11. CASE JunReallocate(t)
  <2>1. [thr[t] EXCEPT !.pc = "jun_start", !.round = @ + 1, !.key = NoKey].pc \notin KeyPoints
    BY <1>0 DEF ThreadState, KeyPoints
  <2>2. QED
    BY <1>1, <1>2, <1>3, <1>11, <2>1, Zenon DEF JunReallocate
<1>12. CASE JunTicket(t)
  <2> DEFINE self == [thr[t] EXCEPT !.pc = "evaluate", !.key = <<"8xbet", 1>>, !.round = 0,
                                    !.expoStale = FALSE]
  <2>1. self.pc \notin KeyPoints
    BY <1>0 DEF ThreadState, KeyPoints
  <2>2. CommitJun88Ticket(t, self) /\ UNCHANGED wire /\ thr[t].pc \in TicketPoints
    BY <1>12 DEF JunTicket, At, TicketPoints
  <2>3. self \in ThreadState
    <3>1. <<"8xbet", 1>> \in Keys /\ 0 \in 0 .. MaxCommits
      BY Bounds DEF Keys, Bookmakers
    <3>2. "evaluate" \in Points
      BY DEF Points
    <3>3. QED
      BY <1>0, <3>1, <3>2 DEF ThreadState
  <2> HIDE DEF self
  <2>4. QED
    BY <2>1, <2>2, <2>3, TicketMovesOn
<1>13. CASE Release(t)
  BY <1>3, <1>4, <1>13, Zenon DEF Release
<1>14. QED
  BY <1>5, <1>6, <1>7, <1>8, <1>9, <1>10, <1>11, <1>12, <1>13 DEF ExecutorStep, Abort

-----------------------------------------------------------------------------
(* The hedge, the matcher, reconciliation and the operator                 *)

(* Nor does a step of the hedge.                                           *)
LEMMA HedgeCommits ==
  ASSUME IInv, IInv', CommitInv, NEW t \in Threads, HedgeStep(t)
  PROVE  CommitInv'
<1>0. thr[t] \in ThreadState
  BY DEF IInv, TypeOK
<1>1. {"open", "hedging", "placing", "hedge_renew", "new", "hedge_done", "hedge_unknown_attempt",
       "hedge_changed", "hedge_rejected", "complete", "release", "hedge_reprice", "open_action",
       "return", "hedge_unknown", "hedge_unknown_action"} \subseteq AwayPoints
  BY DEF AwayPoints, Points, KeyPoints
<1>2. ASSUME NEW to, NEW p \in AwayPoints, UNCHANGED <<attempt, wire>>,
             \/ TransitionAction(t, to, p) \/ TransitionExposure(t, to, p) \/ SaveExposure(t, p)
             \/ Reserve(t, p)
      PROVE  CommitInv'
  BY <1>2, RowMovesOn
<1>3. ASSUME NEW self, NEW written, Advance(t, self, written), self.pc \notin KeyPoints,
             UNCHANGED <<attempt, wire>>
      PROVE  CommitInv'
  BY <1>3, ThreadMovesOn DEF wire
<1>4. /\ Goto(t, "open").pc \notin KeyPoints /\ Goto(t, "complete").pc \notin KeyPoints
      /\ Returned(t).pc \notin KeyPoints
  BY <1>1, GoesAway
<1>5. CASE Evaluate(t)
  <2>1. PICK p \in {"open", "hedging"} : SaveExposure(t, p)
    BY <1>5 DEF Evaluate
  <2>2. UNCHANGED <<attempt, wire>>
    BY <1>5 DEF Evaluate
  <2>3. QED
    BY <1>1, <1>2, <2>1, <2>2
<1>6. CASE Hedging(t) \/ Placing(t) \/ HedgeChanged(t) \/ HedgeRejected(t) \/ Complete(t)
           \/ OpenExposureRow(t) \/ HedgeUnknown(t) \/ HedgeUnknownAction(t)
  BY <1>1, <1>2, <1>6 DEF Hedging, Placing, HedgeChanged, HedgeRejected, Complete,
     OpenExposureRow, HedgeUnknown, HedgeUnknownAction
<1>7. CASE HedgeRenew(t)
  BY <1>1, <1>2, <1>3, <1>4, <1>7, Zenon DEF HedgeRenew
<1>8. CASE HedgeAnswered(t)
  <2>1. KeyOf(t) \in Keys
    BY <1>8, SavesItsKey DEF HedgeAnswered, At, CommitPoints
  <2>2. UNCHANGED <<journal, tickets>> /\ UNCHANGED inbox
    BY <1>8 DEF HedgeAnswered, wire
  <2>3. PICK p \in {"hedge_done", "hedge_unknown_attempt", "hedge_changed", "hedge_rejected"} :
               SaveAttempt(t, "response_received", thr[t].rsp, p, "hedge_unknown_attempt")
    BY <1>8 DEF HedgeAnswered
  <2>4. p \in AwayPoints /\ "hedge_unknown_attempt" \in AwayPoints
    BY <1>1
  <2>5. QED
    BY <2>1, <2>2, <2>3, <2>4, RefusedFacts, AttemptMovesOn
<1>9. CASE HedgeDone(t)
  BY <1>3, <1>4, <1>9, Zenon DEF HedgeDone
<1>10. CASE HedgeReprice(t)
  <2> DEFINE again == [thr[t] EXCEPT !.pc = "evaluate", !.round = @ + 1,
                         !.key = <<KeyOf(t)[1], KeyOf(t)[2] + 1>>]
             more == thr[t].round < MaxHedgeRounds
  <2>1. again.pc \notin KeyPoints
    BY <1>0 DEF ThreadState, KeyPoints
  <2>2. \/ Advance(t, IF more THEN again ELSE Goto(t, "open"), {ActionRow})
        \/ Advance(t, Returned(t), {})
    BY <1>10, Zenon DEF HedgeReprice
  <2>3. (IF more THEN again ELSE Goto(t, "open")).pc \notin KeyPoints
    BY <1>4, <2>1
  <2>4. UNCHANGED <<attempt, wire>>
    BY <1>10 DEF HedgeReprice
  <2> HIDE DEF again, more
  <2>5. QED
    BY <1>3, <1>4, <2>2, <2>3, <2>4, Zenon
<1>11. CASE OpenAction(t)
  <2>1. UNCHANGED <<attempt, wire>>
    BY <1>11 DEF OpenAction
  <2>2. \/ TransitionAction(t, "exposure_open", "return")
        \/ Advance(t, Returned(t), IF thr[t].lag = 0 THEN {ActionRow} ELSE {})
    BY <1>11, Zenon DEF OpenAction
  <2>3. QED
    BY <1>1, <1>2, <1>3, <1>4, <2>1, <2>2
<1>12. CASE HedgeUnknownAttempt(t)
  <2>1. KeyOf(t) \in Keys
    BY <1>12, SavesItsKey DEF HedgeUnknownAttempt, At
  <2>2. UNCHANGED <<journal, tickets>> /\ UNCHANGED inbox
    BY <1>12 DEF HedgeUnknownAttempt, wire
  <2>3. SaveAttempt(t, "awaiting_reconcile", "submission_unknown", "hedge_unknown", "return")
    BY <1>12 DEF HedgeUnknownAttempt
  <2>4. "hedge_unknown" \in AwayPoints /\ "return" \in AwayPoints
    BY <1>1
  <2>5. QED
    BY <2>1, <2>2, <2>3, <2>4, AttemptMovesOn
<1>13. QED
  BY <1>5, <1>6, <1>7, <1>8, <1>9, <1>10, <1>11, <1>12 DEF HedgeStep

(* Nor does one of the matcher.                                            *)
LEMMA MatcherCommits ==
  ASSUME IInv, IInv', CommitInv, NEW t \in Threads, MatcherStep(t)
  PROVE  CommitInv'
<1>0. thr[t] \in ThreadState
  BY DEF IInv, TypeOK
<1>1. {"match", "hedge_prepare", "close_action", "release", "close", "hedge_reserve",
       "return"} \subseteq AwayPoints
  BY DEF AwayPoints, Points, KeyPoints
<1>2. ASSUME NEW to, NEW p \in AwayPoints, UNCHANGED <<attempt, wire>>,
             TransitionAction(t, to, p) \/ TransitionExposure(t, to, p) \/ Reserve(t, p)
      PROVE  CommitInv'
  BY <1>2, RowMovesOn
<1>3. ASSUME NEW self, NEW written, Advance(t, self, written), self.pc \notin KeyPoints,
             UNCHANGED <<attempt, wire>>
      PROVE  CommitInv'
  BY <1>3, ThreadMovesOn DEF wire
<1>4. /\ Goto(t, "match").pc \notin KeyPoints
      /\ Returned(t).pc \notin KeyPoints /\ Idle.pc \notin KeyPoints
  BY <1>1, GoesAway
<1>5. CASE HedgeLease(t)
  BY <1>3, <1>4, <1>5, Zenon DEF HedgeLease
<1>6. CASE HedgeMatch(t)
  <2>1. PICK p \in {"close", "return", "hedge_reserve"} :
               Advance(t, IF p = "return" THEN Returned(t)
                          ELSE Reading(t, [thr[t] EXCEPT !.pc = p]), {})
    BY <1>6 DEF HedgeMatch
  <2>2. ASSUME p # "return"
        PROVE  Reading(t, [thr[t] EXCEPT !.pc = p]).pc \notin KeyPoints
    BY <1>0, <2>2 DEF Reading, ThreadState, KeyPoints
  <2>3. (IF p = "return" THEN Returned(t) ELSE Reading(t, [thr[t] EXCEPT !.pc = p])).pc
          \notin KeyPoints
    BY <1>4, <2>2
  <2>4. UNCHANGED <<attempt, wire>>
    BY <1>6 DEF HedgeMatch, rows
  <2>5. QED
    BY <1>3, <2>1, <2>3, <2>4, Zenon
<1>7. CASE HedgeReserve(t)
  BY <1>1, <1>2, <1>3, <1>4, <1>7, Zenon DEF HedgeReserve
<1>8. CASE HedgePrepare(t)
  <2>1. UNCHANGED <<attempt, wire>>
    BY <1>8 DEF HedgePrepare, rows
  <2>2. CASE \E n \in FirstOfRounds(Subject(t)) :
                Advance(t, [thr[t] EXCEPT !.pc = "evaluate", !.key = <<"8xbet", n>>], {})
    <3>1. PICK n : Advance(t, [thr[t] EXCEPT !.pc = "evaluate", !.key = <<"8xbet", n>>], {})
      BY <2>2
    <3>2. [thr[t] EXCEPT !.pc = "evaluate", !.key = <<"8xbet", n>>].pc \notin KeyPoints
      BY <1>0 DEF ThreadState, KeyPoints
    <3>3. QED
      BY <1>3, <2>1, <3>1, <3>2, Zenon
  <2>3. CASE Advance(t, Returned(t), IF thr[t].expoStale THEN {} ELSE {ExposureRow})
    BY <1>3, <1>4, <2>1, <2>3, Zenon
  <2>4. QED
    BY <1>8, <2>2, <2>3 DEF HedgePrepare
<1>9. CASE Unlease(t)
  BY <1>3, <1>4, <1>9, Zenon DEF Unlease
<1>10. CASE CloseExposure(t) \/ CloseAction(t)
  BY <1>1, <1>2, <1>10 DEF CloseExposure, CloseAction
<1>11. QED
  BY <1>5, <1>6, <1>7, <1>8, <1>9, <1>10 DEF MatcherStep

(* Nor one of the operator.                                                *)
LEMMA OperatorCommits ==
  ASSUME IInv, IInv', CommitInv, NEW t \in Threads, OperatorStep(t)
  PROVE  CommitInv'
<1>0. thr[t] \in ThreadState
  BY DEF IInv, TypeOK
<1>1. {"return", "complete", "evidence_exposure"} \subseteq AwayPoints
  BY DEF AwayPoints, Points, KeyPoints
<1>2. ASSUME NEW to, TransitionExposure(t, to, "return"), UNCHANGED <<attempt, wire>>
      PROVE  CommitInv'
  BY <1>1, <1>2, RowMovesOn
<1>3. ASSUME NEW self, NEW written, Advance(t, self, written), self.pc \notin KeyPoints,
             UNCHANGED <<attempt, wire>>
      PROVE  CommitInv'
  BY <1>3, ThreadMovesOn DEF wire
<1>4. /\ Goto(t, "complete").pc \notin KeyPoints
      /\ Returned(t).pc \notin KeyPoints /\ Idle.pc \notin KeyPoints
  BY <1>1, GoesAway
<1>5. CASE OperatorReview(t) \/ ReopenExposure(t)
  BY <1>2, <1>5 DEF OperatorReview, ReopenExposure
<1>6. CASE OperatorReopen(t) \/ OperatorClose(t)
  <2>1. PICK p \in {"reopen", "close"} : Advance(t, Reading(t, [thr[t] EXCEPT !.pc = p]), {})
    BY <1>6 DEF OperatorReopen, OperatorClose
  <2>2. Reading(t, [thr[t] EXCEPT !.pc = p]).pc \notin KeyPoints
    BY <1>0 DEF Reading, ThreadState, KeyPoints
  <2>3. UNCHANGED <<attempt, wire>>
    BY <1>6 DEF OperatorReopen, OperatorClose, rows
  <2>4. QED
    BY <1>3, <2>1, <2>2, <2>3, Zenon
<1>7. CASE OperatorTicket(t)
  <2>1. PICK n \in CommitNumbers(Subject(t), "8xbet") :
               LET k == <<"8xbet", n>>
                   row == attempt[Subject(t)][k] IN
               Advance(t, Reading(t, [thr[t] EXCEPT !.key = k, !.attStale = FALSE,
                                        !.pc = IF row.st = "response_received"
                                               THEN "evidence_exposure"
                                               ELSE "evidence_attempt"]), {})
    BY <1>7, Zenon DEF OperatorTicket
  <2> DEFINE k == <<"8xbet", n>>
             p == IF attempt[Subject(t)][k].st = "response_received" THEN "evidence_exposure"
                  ELSE "evidence_attempt"
  <2>2. Reading(t, [thr[t] EXCEPT !.key = k, !.attStale = FALSE, !.pc = p]).pc \notin KeyPoints
    BY <1>0 DEF Reading, ThreadState, KeyPoints
  <2>3. UNCHANGED <<attempt, wire>>
    BY <1>7 DEF OperatorTicket, rows
  <2>4. Advance(t, Reading(t, [thr[t] EXCEPT !.key = k, !.attStale = FALSE, !.pc = p]), {})
    BY <2>1
  <2> HIDE DEF k, p
  <2>5. QED
    BY <1>3, <2>2, <2>3, <2>4, Zenon
<1>8. CASE EvidenceAttempt(t)
  <2>1. KeyOf(t) \in Keys
    BY <1>8, SavesItsKey DEF EvidenceAttempt, At, EvidencePoints
  <2>2. UNCHANGED <<journal, tickets>> /\ UNCHANGED inbox
    BY <1>8 DEF EvidenceAttempt, wire
  <2>3. SaveAttempt(t, "response_received", "ticket_accepted", "evidence_exposure", "return")
    BY <1>8 DEF EvidenceAttempt
  <2>4. "evidence_exposure" \in AwayPoints /\ "return" \in AwayPoints
    BY <1>1
  <2>5. "ticket_accepted" \notin Negative
    BY DEF Negative
  <2>6. QED
    BY <2>1, <2>2, <2>3, <2>4, <2>5, AttemptMovesOn
<1>9. CASE EvidenceExposure(t)
  <2>1. Advance(t, IF thr[t].expoStale THEN Returned(t) ELSE Goto(t, "complete"),
                IF thr[t].expoStale THEN {} ELSE {ExposureRow})
    BY <1>9, Zenon DEF EvidenceExposure
  <2>2. (IF thr[t].expoStale THEN Returned(t) ELSE Goto(t, "complete")).pc \notin KeyPoints
    BY <1>4
  <2>3. UNCHANGED <<attempt, wire>>
    BY <1>9 DEF EvidenceExposure
  <2>4. QED
    BY <1>3, <2>1, <2>2, <2>3, Zenon
<1>10. CASE OperatorRefused(t)
  BY <1>3, <1>4, <1>10, Zenon DEF OperatorRefused, rows
<1>11. QED
  BY <1>5, <1>6, <1>7, <1>8, <1>9, <1>10 DEF OperatorStep

-----------------------------------------------------------------------------
(* Reconciliation                                                          *)

(* A pass asks for a commit that is not about to be written.               *)
LEMMA PickedCommits ==
  ASSUME IInv, IInv', CommitInv, ReliableWire, NEW t \in Threads, PickAttempt(t)
  PROVE  CommitInv'
<1>0. thr[t] \in ThreadState /\ TypeOK
  BY DEF IInv, TypeOK
<1>1. UNCHANGED <<attempt, journal, tickets, inbox>>
  BY DEF PickAttempt, rows, wire
<1>2. CASE Advance(t, Idle, {})
  <2>1. Idle.pc \notin KeyPoints
    BY DEF Idle, KeyPoints
  <2>2. QED
    BY <1>1, <1>2, <2>1, ThreadMovesOn
<1>3. CASE \E k \in PendingKeys(Subject(t)) :
             /\ Overtake \/ ~Unwritten(Subject(t), k)
             /\ Advance(t, [Goto(t, "ask") EXCEPT !.key = k], {})
  <2>1. PICK k \in PendingKeys(Subject(t)) :
             /\ ~Unwritten(Subject(t), k)
             /\ Advance(t, [Goto(t, "ask") EXCEPT !.key = k], {})
    BY <1>3, Zenon DEF ReliableWire
  <2>2. thr'[t] = [Goto(t, "ask") EXCEPT !.key = k]
    BY <1>0, <2>1, OthersResume, Zenon
  <2>3. thr'[t].pc = "ask" /\ thr'[t].key = k
    BY <1>0, <2>2 DEF Goto, ThreadState
  <2>4. \A u \in Threads : u # t => Resumes(u) /\ thr'[u].pc = thr[u].pc /\ thr'[u].key = thr[u].key
    BY <1>0, <2>1, OthersResume, Zenon
  <2>5. \A v \in Threads : SameCommit(t, v, thr') => thr'[v].pc # "send"
    BY <2>1, <2>3, <2>4 DEF SameCommit, Unwritten, At, KeyOf
  <2>6. \A u \in Threads : Resumes(u)
    BY <2>3, <2>4, <2>5 DEF Resumes
  <2>7. \A bm \in Bookmakers : SameCommands(inbox[bm], inbox'[bm])
    BY <1>0, <1>1, ForgottenCommands
  <2>8. \A a \in Actions, j \in Keys : RowStep(a, j)
    BY <1>1 DEF RowStep
  <2>9. QED
    BY <1>1, <2>6, <2>7, <2>8, QuietKeeps
<1>4. QED
  BY <1>2, <1>3 DEF PickAttempt

(* A question is put at the end of a queue.                                *)
LEMMA AskedCommits ==
  ASSUME IInv, IInv', CommitInv, NEW t \in Threads, SendReconcile(t)
  PROVE  CommitInv'
<1>0. thr[t] \in ThreadState /\ TypeOK
  BY DEF IInv, TypeOK
<1>1. UNCHANGED <<attempt, journal, tickets>>
  BY DEF SendReconcile, rows
<1>2. CASE Advance(t, Idle, {}) /\ UNCHANGED inbox
  <2>1. Idle.pc \notin KeyPoints
    BY DEF Idle, KeyPoints
  <2>2. QED
    BY <1>1, <1>2, <2>1, ThreadMovesOn
<1>3. CASE Write(t, "reconcile") /\ Advance(t, Goto(t, "answer"), {})
  <2> DEFINE key == KeyOf(t)
             m == [kind |-> "reconcile", key |-> <<Subject(t), key>>, to |-> t]
             bm == key[1]
  <2>1. key \in Keys /\ bm \in Bookmakers /\ thr[t].pc = "ask"
    <3>1. key \in Keys /\ thr[t].pc = "ask"
      BY SavesItsKey DEF SendReconcile, At, ReconcilePoints
    <3>2. QED
      BY <3>1 DEF Keys
  <2>2. inbox' = [inbox EXCEPT ![bm] = Append(@, m)]
    BY <1>3 DEF Write
  <2>3. inbox \in [Bookmakers -> Seq(Message)]
    BY <1>0 DEF TypeOK
  <2>4. /\ DOMAIN inbox'[bm] = DOMAIN inbox[bm] \cup {Len(inbox[bm]) + 1}
        /\ \A i \in DOMAIN inbox[bm] : inbox'[bm][i] = inbox[bm][i] /\ i < Len(inbox[bm]) + 1
        /\ Len(inbox[bm]) \in Nat
        /\ inbox'[bm][Len(inbox[bm]) + 1] = m
        /\ \A b \in Bookmakers \ {bm} : inbox'[b] = inbox[b]
    BY <2>1, <2>2, <2>3
  <2> HIDE DEF bm
  <2>5. thr'[t] = Goto(t, "answer")
    BY <1>0, <1>3, OthersResume, Zenon
  <2>6. thr'[t].pc = "answer" /\ thr'[t].key = thr[t].key /\ thr'[t].rsp = "none"
        /\ thr'[t].attStale = thr[t].attStale
    BY <1>0, <2>5 DEF Goto, ThreadState
  <2>7. \A u \in Threads :
          /\ thr'[u].pc = thr[u].pc \/ u = t
          /\ thr'[u].key = thr[u].key
          /\ thr'[u].rsp = thr[u].rsp \/ u = t
          /\ thr[u].attStale => thr'[u].attStale
    <3>1. \A u \in Threads : u # t =>
            /\ thr'[u].pc = thr[u].pc /\ thr'[u].key = thr[u].key /\ thr'[u].rsp = thr[u].rsp
            /\ thr[u].attStale => thr'[u].attStale
      BY <1>0, <1>3, OthersResume, Zenon
    <3>2. QED
      BY <3>1, <2>6
  <2>8. ASSUME NEW a, NEW k, Sending(thr', a, k)
        PROVE  Sending(thr, a, k)
    BY <2>6, <2>7, <2>8 DEF Sending
  <2>9. ASSUME NEW b \in Bookmakers, NEW a, NEW k
        PROVE  Queued(inbox'[b], a, k) => Queued(inbox[b], a, k)
    <3>1. m.kind = "reconcile"
      OBVIOUS
    <3>2. CASE b = bm
      BY <2>4, <3>1, <3>2 DEF Queued
    <3>3. CASE b # bm
      BY <2>4, <3>3
    <3>4. QED
      BY <3>2, <3>3
  <2>10. ASSUME NEW a, NEW k \in Keys, Hopeless(thr, inbox[k[1]], tickets, a, k)
         PROVE  Hopeless(thr', inbox'[k[1]], tickets', a, k)
    <3>1. k[1] \in Bookmakers
      BY DEF Keys
    <3>2. QED
      BY <1>1, <2>8, <2>9, <2>10, <3>1 DEF Hopeless
  <2>11. CommitsFit'
    <3> SUFFICES ASSUME NEW a \in Actions, NEW k \in Keys
                 PROVE  CommitOf(a, k, attempt'[a][k], thr', inbox'[k[1]], journal', tickets')
      BY DEF CommitsFit
    <3>1. CommitOf(a, k, attempt[a][k], thr, inbox[k[1]], journal, tickets)
      BY DEF CommitInv, CommitsFit
    <3>2. k[1] \in Bookmakers
      BY DEF Keys
    <3>3. QED
      BY <1>1, <2>8, <2>9, <2>10, <3>1, <3>2 DEF CommitOf
  <2>12. ASSUME NEW u \in Threads
         PROVE  KnowsCommit(thr'[u], attempt'[Subject(u)])
    <3>1. KnowsCommit(thr[u], attempt[Subject(u)])
      BY DEF CommitInv, ThreadsCommit
    <3>2. QED
      BY <1>1, <2>6, <2>7, <3>1 DEF KnowsCommit
  <2>13. ASSUME NEW u \in Threads
         PROVE  Refused(u, thr', inbox', tickets')
    <3>1. SUFFICES ASSUME thr'[u].rsp \in Negative, ~thr'[u].attStale
                   PROVE  Hopeless(thr', inbox'[thr'[u].key[1]], tickets', Subject(u), thr'[u].key)
      BY DEF Refused
    <3>2. u # t
      BY <2>6, <3>1 DEF Negative
    <3>3. thr[u].rsp \in Negative /\ ~thr[u].attStale /\ thr'[u].key = thr[u].key
      BY <2>7, <3>1, <3>2
    <3>4. thr[u].rsp # "none"
      BY <3>3 DEF Negative
    <3>5. Hopeless(thr, inbox[thr[u].key[1]], tickets, Subject(u), thr[u].key)
      BY <3>3 DEF CommitInv, ThreadsCommit, Refused
    <3>6. thr[u].key \in Keys
      BY <3>4, AnswersAwaited
    <3>7. QED
      BY <2>10, <3>3, <3>5, <3>6
  <2>14. ASSUME NEW u \in Threads, NEW v \in Threads
         PROVE  SendsAlone(u, v, thr')
    <3>1. SendsAlone(u, v, thr)
      BY DEF CommitInv, ThreadsCommit
    <3>2. QED
      BY <2>1, <2>6, <2>7, <3>1 DEF SendsAlone, SameCommit
  <2>15. QueuesOrdered'
    <3> SUFFICES ASSUME NEW b \in Bookmakers PROVE WrittenOnce(inbox'[b], thr')
      BY DEF QueuesOrdered
    <3>1. WrittenOnce(inbox[b], thr)
      BY DEF CommitInv, QueuesOrdered
    <3>2. m.kind = "reconcile"
      OBVIOUS
    <3>3. CASE b = bm
      BY <2>4, <2>7, <3>1, <3>2, <3>3 DEF WrittenOnce
    <3>4. CASE b # bm
      BY <2>4, <2>7, <3>1, <3>4 DEF WrittenOnce
    <3>5. QED
      BY <3>3, <3>4
  <2>16. QED
    BY <2>11, <2>12, <2>13, <2>14, <2>15 DEF CommitInv, ThreadsCommit
<1>4. QED
  BY <1>2, <1>3 DEF SendReconcile

(* Every other step of reconciliation advances no commit.                  *)
LEMMA ReconcileCommits ==
  ASSUME IInv, IInv', CommitInv, ReliableWire, NEW t \in Threads, ReconcileStep(t)
  PROVE  CommitInv'
<1>0. thr[t] \in ThreadState
  BY DEF IInv, TypeOK
<1>1. {"rec_jun", "rec_hedge", "abort", "rec_read", "rec_jun_open", "rec_complete", "rec_reopen",
       "open", "complete", "return"} \subseteq AwayPoints
  BY DEF AwayPoints, Points, KeyPoints
<1>2. ASSUME NEW to, NEW p \in AwayPoints, UNCHANGED <<attempt, wire>>,
             TransitionAction(t, to, p) \/ TransitionExposure(t, to, p) \/ SaveExposure(t, p)
      PROVE  CommitInv'
  BY <1>2, RowMovesOn
<1>3. ASSUME NEW self, NEW written, Advance(t, self, written), self.pc \notin KeyPoints,
             UNCHANGED <<attempt, journal, tickets>>, UNCHANGED inbox \/ inbox' = Forgotten({t})
      PROVE  CommitInv'
  BY <1>3, ThreadMovesOn
<1>4. /\ Goto(t, "complete").pc \notin KeyPoints /\ Returned(t).pc \notin KeyPoints
      /\ Idle.pc \notin KeyPoints
  BY <1>1, GoesAway
<1>5. CASE ReconcileUnanswered(t)
  BY <1>3, <1>4, <1>5, Zenon DEF ReconcileUnanswered, rows
<1>6. CASE ReconcileTicket(t)
  <2>1. PICK p \in {"return", "rec_jun", "rec_hedge"} :
               Advance(t, IF p = "rec_hedge" THEN [Goto(t, p) EXCEPT !.expoStale = FALSE]
                          ELSE Goto(t, p), {})
    BY <1>6 DEF ReconcileTicket
  <2>2. Goto(t, p).pc \notin KeyPoints
    BY <1>1, GoesAway
  <2>3. [Goto(t, "rec_hedge") EXCEPT !.expoStale = FALSE].pc = "rec_hedge"
    BY <1>0 DEF Goto, ThreadState
  <2>4. (IF p = "rec_hedge" THEN [Goto(t, p) EXCEPT !.expoStale = FALSE]
         ELSE Goto(t, p)).pc \notin KeyPoints
    BY <2>2, <2>3 DEF KeyPoints
  <2>5. UNCHANGED <<attempt, journal, tickets>> /\ UNCHANGED inbox
    BY <1>6 DEF ReconcileTicket, rows, wire
  <2>6. QED
    BY <1>3, <2>1, <2>4, <2>5, Zenon
<1>7. CASE ReconcileNoTicket(t)
  <2>1. KeyOf(t) \in Keys
    BY <1>7, SavesItsKey DEF ReconcileNoTicket, At, ReconcilePoints
  <2>2. UNCHANGED <<journal, tickets>> /\ UNCHANGED inbox
    BY <1>7 DEF ReconcileNoTicket, wire
  <2> DEFINE p == CASE KeyOf(t)[1] = "jun88" -> "abort"
                    [] KeyOf(t)[1] = "8xbet" /\ thr[t].link = "own" -> "rec_read"
                    [] OTHER -> "return"
  <2>3. SaveAttempt(t, "response_received", thr[t].rsp, p, "return")
    BY <1>7 DEF ReconcileNoTicket
  <2>4. p \in AwayPoints /\ "return" \in AwayPoints
    BY <1>1
  <2>5. thr[t].rsp \in Negative
    BY <1>7 DEF ReconcileNoTicket, Negative
  <2> HIDE DEF p
  <2>6. QED
    BY <2>1, <2>2, <2>3, <2>4, <2>5, RefusedFacts, AttemptMovesOn
<1>8. CASE ReconcileJun(t)
  <2> DEFINE self == Goto(t, "rec_jun_open")
  <2>1. self \in ThreadState /\ self.pc \notin KeyPoints
    BY <1>0 DEF Goto, ThreadState, KeyPoints, Points
  <2>2. CommitJun88Ticket(t, self) /\ UNCHANGED wire /\ thr[t].pc \in TicketPoints
    BY <1>8 DEF ReconcileJun, At, TicketPoints
  <2> HIDE DEF self
  <2>3. QED
    BY <2>1, <2>2, TicketMovesOn
<1>9. CASE ReconcileJunOpen(t) \/ ReconcileReopen(t)
  BY <1>1, <1>2, <1>9 DEF ReconcileJunOpen, ReconcileReopen
<1>10. CASE ReconcileHedge(t)
  <2>1. KeyOf(t) \in Keys
    BY <1>10, SavesItsKey DEF ReconcileHedge, At, ReconcilePoints
  <2>2. UNCHANGED <<journal, tickets>> /\ UNCHANGED inbox
    BY <1>10 DEF ReconcileHedge, wire
  <2>3. PICK p \in {"rec_complete", "return"} :
               SaveAttempt(t, "response_received", "ticket_accepted", p, "return")
    BY <1>10 DEF ReconcileHedge
  <2>4. p \in AwayPoints /\ "return" \in AwayPoints
    BY <1>1
  <2>5. "ticket_accepted" \notin Negative
    BY DEF Negative
  <2>6. QED
    BY <2>1, <2>2, <2>3, <2>4, <2>5, AttemptMovesOn
<1>11. CASE ReconcileComplete(t)
  <2>1. \/ Advance(t, Goto(t, "complete"), {ExposureRow}) \/ Advance(t, Returned(t), {})
    BY <1>11, Zenon DEF ReconcileComplete
  <2>2. UNCHANGED <<attempt, journal, tickets>> /\ UNCHANGED inbox
    BY <1>11 DEF ReconcileComplete, wire
  <2>3. QED
    BY <1>3, <1>4, <2>1, <2>2, Zenon
<1>12. CASE ReconcileRead(t)
  <2>1. [Goto(t, "rec_reopen") EXCEPT !.expoStale = FALSE].pc \notin KeyPoints
    BY <1>0 DEF Goto, ThreadState, KeyPoints
  <2>2. UNCHANGED <<attempt, journal, tickets>> /\ UNCHANGED inbox
    BY <1>12 DEF ReconcileRead, rows, wire
  <2>3. Advance(t, [Goto(t, "rec_reopen") EXCEPT !.expoStale = FALSE], {})
    BY <1>12 DEF ReconcileRead
  <2>4. QED
    BY <1>3, <2>1, <2>2, <2>3, Zenon
<1>13. QED
  BY <1>5, <1>6, <1>7, <1>8, <1>9, <1>10, <1>11, <1>12, PickedCommits, AskedCommits
     DEF ReconcileStep

-----------------------------------------------------------------------------
(* The stages of a commit                                                  *)

(* A commit is recorded before anything else is done about it.             *)
LEMMA RecordedCommits ==
  ASSUME IInv, IInv', CommitInv, NEW t \in Threads, NewAttempt(t)
  PROVE  CommitInv'
<1> DEFINE a == Subject(t)
           k == KeyOf(t)
<1>0. thr[t] \in ThreadState /\ TypeOK /\ a \in Actions /\ k \in Keys /\ thr[t].pc = "new"
      /\ attempt \in [Actions -> [Keys -> AttemptState]]
  BY ThreadFacts, SavesItsKey DEF IInv, TypeOK, NewAttempt, At, CommitPoints
<1>1. UNCHANGED <<journal, tickets, inbox>>
  BY DEF NewAttempt, wire
<1>2. CASE attempt[a][k].st # "none"
  <2>1. UNCHANGED attempt /\ Advance(t, Returned(t), {})
    BY <1>2, Zenon DEF NewAttempt
  <2>2. Returned(t).pc \notin KeyPoints
    BY DEF Returned, Idle, KeyPoints
  <2>3. QED
    BY <1>1, <2>1, <2>2, ThreadMovesOn, Zenon
<1>3. CASE attempt[a][k].st = "none"
  <2>1. /\ attempt' = [attempt EXCEPT ![a][k] = [st |-> "before_send", res |-> "none"]]
        /\ Advance(t, [Goto(t, "mark") EXCEPT !.attStale = FALSE], {})
    BY <1>3, Zenon DEF NewAttempt
  <2>2. /\ attempt'[a][k] = [st |-> "before_send", res |-> "none"]
        /\ \A b \in Actions, j \in Keys : <<b, j>> # <<a, k>> => attempt'[b][j] = attempt[b][j]
    BY <1>0, <2>1
  <2>3. thr'[t] = [Goto(t, "mark") EXCEPT !.attStale = FALSE]
    BY <1>0, <2>1, OthersResume, Zenon
  <2>4. thr'[t].pc = "mark" /\ thr'[t].key = k /\ thr'[t].rsp = "none"
    BY <1>0, <2>3 DEF Goto, ThreadState, KeyOf
  <2>5. \A u \in Threads : u # t =>
          /\ thr'[u].pc = thr[u].pc /\ thr'[u].key = thr[u].key /\ thr'[u].rsp = thr[u].rsp
          /\ thr[u].attStale => thr'[u].attStale
    BY <1>0, <2>1, OthersResume, Zenon
  <2> HIDE DEF a, k
  <2>6. ASSUME NEW b, NEW j, Sending(thr', b, j)
        PROVE  Sending(thr, b, j)
    BY <2>4, <2>5, <2>6 DEF Sending
  <2>7. ASSUME NEW b, NEW j \in Keys, Hopeless(thr, inbox[j[1]], tickets, b, j)
        PROVE  Hopeless(thr', inbox'[j[1]], tickets', b, j)
    BY <1>1, <2>6, <2>7 DEF Hopeless
  <2>8. CommitsFit'
    <3> SUFFICES ASSUME NEW b \in Actions, NEW j \in Keys
                 PROVE  CommitOf(b, j, attempt'[b][j], thr', inbox'[j[1]], journal', tickets')
      BY DEF CommitsFit
    <3>1. CommitOf(b, j, attempt[b][j], thr, inbox[j[1]], journal, tickets)
      BY DEF CommitInv, CommitsFit
    <3>2. CASE b = a /\ j = k
      BY <1>1, <1>3, <2>2, <2>6, <3>1, <3>2 DEF CommitOf
    <3>3. CASE ~(b = a /\ j = k)
      <4>1. attempt'[b][j] = attempt[b][j]
        BY <2>2, <3>3
      <4>2. QED
        BY <1>1, <2>6, <2>7, <3>1, <4>1 DEF CommitOf
    <3>4. QED
      BY <3>2, <3>3
  <2>9. ASSUME NEW u \in Threads, SameCommit(t, u, thr)
        PROVE  thr[u].pc \notin {"mark", "send"}
    <3>1. KnowsCommit(thr[u], attempt[Subject(u)])
      BY DEF CommitInv, ThreadsCommit
    <3>2. attempt[Subject(u)][thr[u].key].st = "none"
      BY <1>3, <2>9 DEF SameCommit, a, k, KeyOf
    <3>3. QED
      BY <3>1, <3>2 DEF KnowsCommit
  <2>10. ASSUME NEW u \in Threads
         PROVE  KnowsCommit(thr'[u], attempt'[Subject(u)])
    <3>1. CASE u = t
      BY <2>2, <2>4, <3>1 DEF KnowsCommit, a
    <3>2. CASE u # t /\ thr[u].pc \in {"mark", "send"}
      <4>1. KnowsCommit(thr[u], attempt[Subject(u)]) /\ Subject(u) \in Actions
        BY ThreadFacts DEF CommitInv, ThreadsCommit
      <4>2. thr[u].key \in Keys
        BY <3>2, SavesItsKey DEF KeyOf, CommitPoints
      <4>3. <<Subject(u), thr[u].key>> # <<a, k>>
        BY <2>9, <3>2 DEF SameCommit, a, k, KeyOf
      <4>4. attempt'[Subject(u)][thr[u].key] = attempt[Subject(u)][thr[u].key]
        BY <2>2, <4>1, <4>2, <4>3
      <4>5. QED
        BY <2>5, <3>2, <4>1, <4>4 DEF KnowsCommit
    <3>3. CASE u # t /\ thr[u].pc \notin {"mark", "send"}
      BY <2>5, <3>3 DEF KnowsCommit
    <3>4. QED
      BY <3>1, <3>2, <3>3
  <2>11. ASSUME NEW u \in Threads
         PROVE  Refused(u, thr', inbox', tickets')
    <3>1. SUFFICES ASSUME thr'[u].rsp \in Negative, ~thr'[u].attStale
                   PROVE  Hopeless(thr', inbox'[thr'[u].key[1]], tickets', Subject(u), thr'[u].key)
      BY DEF Refused
    <3>2. u # t
      BY <2>4, <3>1 DEF Negative
    <3>3. thr[u].rsp \in Negative /\ ~thr[u].attStale /\ thr'[u].key = thr[u].key
      BY <2>5, <3>1, <3>2
    <3>4. thr[u].rsp # "none"
      BY <3>3 DEF Negative
    <3>5. Hopeless(thr, inbox[thr[u].key[1]], tickets, Subject(u), thr[u].key)
      BY <3>3 DEF CommitInv, ThreadsCommit, Refused
    <3>6. thr[u].key \in Keys
      BY <3>4, AnswersAwaited
    <3>7. QED
      BY <2>7, <3>3, <3>5, <3>6
  <2>12. ASSUME NEW u \in Threads, NEW v \in Threads
         PROVE  SendsAlone(u, v, thr')
    <3>1. SendsAlone(u, v, thr)
      BY DEF CommitInv, ThreadsCommit
    <3>2. CASE u # t /\ v # t
      BY <2>5, <3>1, <3>2 DEF SendsAlone, SameCommit
    <3>3. CASE u = t /\ v # t
      BY <2>4, <2>5, <2>9, <3>3 DEF SendsAlone, SameCommit, k, KeyOf
    <3>4. CASE u # t /\ v = t
      BY <2>4, <2>5, <2>9, <3>4 DEF SendsAlone, SameCommit, k, KeyOf
    <3>5. CASE u = t /\ v = t
      BY <2>4, <3>5 DEF SendsAlone, SameCommit
    <3>6. QED
      BY <3>2, <3>3, <3>4, <3>5
  <2>13. QueuesOrdered'
    <3> SUFFICES ASSUME NEW b \in Bookmakers PROVE WrittenOnce(inbox'[b], thr')
      BY DEF QueuesOrdered
    <3>1. WrittenOnce(inbox[b], thr)
      BY DEF CommitInv, QueuesOrdered
    <3>2. ASSUME NEW i \in DOMAIN inbox[b], inbox[b][i].to \in Threads
          PROVE  inbox[b][i].to # t
      BY <1>0, <3>2 DEF IInv, QueuesFit, CommandFits, WaitPoints
    <3>3. QED
      BY <1>1, <2>5, <3>1, <3>2 DEF WrittenOnce
  <2>14. QED
    BY <2>8, <2>10, <2>11, <2>12, <2>13 DEF CommitInv, ThreadsCommit
<1>4. QED
  BY <1>2, <1>3

(* The points at which an unresolved submission is recorded.               *)
LEMMA UnresolvedPoints ==
  ASSUME NEW t, NEW b
  PROVE  Unresolved(t, b) \in AwayPoints
BY DEF Unresolved, AwayPoints, Points, KeyPoints

(* It is marked by the thread that recorded it; whoever else works on it   *)
(* will find that the row has changed.                                     *)
LEMMA MarkedCommits ==
  ASSUME IInv, IInv', CommitInv, NEW t \in Threads, MarkStarted(t)
  PROVE  CommitInv'
<1> DEFINE a == Subject(t)
           k == KeyOf(t)
<1>0. thr[t] \in ThreadState /\ TypeOK /\ a \in Actions /\ k \in Keys /\ thr[t].pc = "mark"
      /\ attempt \in [Actions -> [Keys -> AttemptState]]
  BY ThreadFacts, SavesItsKey DEF IInv, TypeOK, MarkStarted, At, CommitPoints
<1>1. UNCHANGED <<journal, tickets, inbox>>
  BY DEF MarkStarted, wire
<1>2. CASE thr[t].attStale
  <2>1. UNCHANGED attempt /\ Advance(t, Goto(t, Unresolved(t, FALSE)), {})
    BY <1>2 DEF MarkStarted, SaveAttempt
  <2>2. Goto(t, Unresolved(t, FALSE)).pc \notin KeyPoints
    BY UnresolvedPoints, GoesAway
  <2>3. QED
    BY <1>1, <2>1, <2>2, ThreadMovesOn, Zenon
<1>3. CASE ~thr[t].attStale
  <2>1. /\ attempt' = [attempt EXCEPT ![a][k] = [st |-> "submit_started", res |-> "none"]]
        /\ Advance(t, Goto(t, "send"), {k})
    BY <1>3 DEF MarkStarted, SaveAttempt
  <2>2. /\ attempt'[a][k] = [st |-> "submit_started", res |-> "none"]
        /\ \A b \in Actions, j \in Keys : <<b, j>> # <<a, k>> => attempt'[b][j] = attempt[b][j]
    BY <1>0, <2>1
  <2>3. thr'[t] = Goto(t, "send")
    BY <1>0, <2>1, OthersResume, Zenon
  <2>4. thr'[t].pc = "send" /\ thr'[t].key = k /\ thr'[t].rsp = "none" /\ thr[t].key = k
    BY <1>0, <2>3 DEF Goto, ThreadState, KeyOf
  <2>5. \A u \in Threads : u # t =>
          /\ thr'[u].pc = thr[u].pc /\ thr'[u].key = thr[u].key /\ thr'[u].rsp = thr[u].rsp
          /\ thr[u].attStale => thr'[u].attStale
          /\ Subject(u) = Subject(t) /\ thr[u].pc # "idle" /\ thr[u].key \in {k} => thr'[u].attStale
    BY <1>0, <2>1, OthersResume, Zenon
  <2>6. attempt[a][k].st = "before_send"
    BY <1>0, <1>3, <2>4 DEF CommitInv, ThreadsCommit, KnowsCommit
  <2>7. ASSUME NEW u \in Threads, SameCommit(t, u, thr), thr[u].pc \in {"mark", "send"}
        PROVE  u = t
    BY <1>0, <2>7 DEF CommitInv, ThreadsCommit, SendsAlone
  <2> HIDE DEF a, k
  <2>8. ASSUME NEW b, NEW j, Sending(thr', b, j), <<b, j>> # <<a, k>>
        PROVE  Sending(thr, b, j)
    BY <2>4, <2>5, <2>8 DEF Sending, a
  <2>9. ASSUME NEW b, NEW j \in Keys, <<b, j>> # <<a, k>>,
               Hopeless(thr, inbox[j[1]], tickets, b, j)
        PROVE  Hopeless(thr', inbox'[j[1]], tickets', b, j)
    BY <1>1, <2>8, <2>9 DEF Hopeless
  <2>10. CommitsFit'
    <3> SUFFICES ASSUME NEW b \in Actions, NEW j \in Keys
                 PROVE  CommitOf(b, j, attempt'[b][j], thr', inbox'[j[1]], journal', tickets')
      BY DEF CommitsFit
    <3>1. CommitOf(b, j, attempt[b][j], thr, inbox[j[1]], journal, tickets)
      BY DEF CommitInv, CommitsFit
    <3>2. CASE b = a /\ j = k
      BY <1>1, <2>2, <2>6, <3>1, <3>2 DEF CommitOf
    <3>3. CASE <<b, j>> # <<a, k>>
      <4>1. attempt'[b][j] = attempt[b][j]
        BY <2>2, <3>3
      <4>2. QED
        BY <1>1, <2>8, <2>9, <3>1, <3>3, <4>1 DEF CommitOf
    <3>4. QED
      BY <3>2, <3>3
  <2>11. ASSUME NEW u \in Threads
         PROVE  KnowsCommit(thr'[u], attempt'[Subject(u)])
    <3>1. CASE u = t
      BY <2>2, <2>4, <3>1 DEF KnowsCommit, a
    <3>2. CASE u # t /\ thr[u].pc \in {"mark", "send"}
      <4>1. KnowsCommit(thr[u], attempt[Subject(u)]) /\ Subject(u) \in Actions
        BY ThreadFacts DEF CommitInv, ThreadsCommit
      <4>2. thr[u].key \in Keys
        BY <3>2, SavesItsKey DEF KeyOf, CommitPoints
      <4>3. <<Subject(u), thr[u].key>> # <<a, k>>
        BY <2>4, <2>7, <3>2 DEF SameCommit, a
      <4>4. attempt'[Subject(u)][thr[u].key] = attempt[Subject(u)][thr[u].key]
        BY <2>2, <4>1, <4>2, <4>3
      <4>5. QED
        BY <2>5, <3>2, <4>1, <4>4 DEF KnowsCommit
    <3>3. CASE u # t /\ thr[u].pc \notin {"mark", "send"}
      BY <2>5, <3>3 DEF KnowsCommit
    <3>4. QED
      BY <3>1, <3>2, <3>3
  <2>12. ASSUME NEW u \in Threads
         PROVE  Refused(u, thr', inbox', tickets')
    <3>1. SUFFICES ASSUME thr'[u].rsp \in Negative, ~thr'[u].attStale
                   PROVE  Hopeless(thr', inbox'[thr'[u].key[1]], tickets', Subject(u), thr'[u].key)
      BY DEF Refused
    <3>2. u # t
      BY <2>4, <3>1 DEF Negative
    <3>3. thr[u].rsp \in Negative /\ ~thr[u].attStale /\ thr'[u].key = thr[u].key
      BY <2>5, <3>1, <3>2
    <3>4. thr[u].rsp # "none"
      BY <3>3 DEF Negative
    <3>5. Hopeless(thr, inbox[thr[u].key[1]], tickets, Subject(u), thr[u].key)
      BY <3>3 DEF CommitInv, ThreadsCommit, Refused
    <3>6. thr[u].key \in Keys /\ thr[u].pc \in WaitPoints
      BY <3>4, AnswersAwaited
    <3>7. <<Subject(u), thr[u].key>> # <<a, k>>
      BY <2>5, <3>1, <3>2, <3>6 DEF a, WaitPoints
    <3>8. QED
      BY <2>9, <3>3, <3>5, <3>6, <3>7
  <2>13. ASSUME NEW u \in Threads, NEW v \in Threads
         PROVE  SendsAlone(u, v, thr')
    <3>1. SendsAlone(u, v, thr)
      BY DEF CommitInv, ThreadsCommit
    <3>2. CASE u # t /\ v # t
      BY <2>5, <3>1, <3>2 DEF SendsAlone, SameCommit
    <3>3. CASE u = t /\ v # t
      BY <2>4, <2>5, <2>7, <3>3 DEF SendsAlone, SameCommit
    <3>4. CASE u # t /\ v = t
      BY <2>4, <2>5, <2>7, <3>4 DEF SendsAlone, SameCommit
    <3>5. CASE u = t /\ v = t
      BY <2>4, <3>5 DEF SendsAlone, SameCommit
    <3>6. QED
      BY <3>2, <3>3, <3>4, <3>5
  <2>14. QueuesOrdered'
    <3> SUFFICES ASSUME NEW b \in Bookmakers PROVE WrittenOnce(inbox'[b], thr')
      BY DEF QueuesOrdered
    <3>1. WrittenOnce(inbox[b], thr)
      BY DEF CommitInv, QueuesOrdered
    <3>2. ASSUME NEW i \in DOMAIN inbox[b], inbox[b][i].to \in Threads
          PROVE  inbox[b][i].to # t
      BY <1>0, <3>2 DEF IInv, QueuesFit, CommandFits, WaitPoints
    <3>3. QED
      BY <1>1, <2>5, <3>1, <3>2 DEF WrittenOnce
  <2>15. QED
    BY <2>10, <2>11, <2>12, <2>13, <2>14 DEF CommitInv, ThreadsCommit
<1>4. QED
  BY <1>2, <1>3

(* It is written after every question that is still of interest.           *)
LEMMA SentCommits ==
  ASSUME IInv, IInv', CommitInv, NEW t \in Threads, SendCommit(t)
  PROVE  CommitInv'
<1> DEFINE key == KeyOf(t)
           m == [kind |-> "commit", key |-> <<Subject(t), key>>, to |-> t]
           bm == key[1]
           a == Subject(t)
           last == Len(inbox[bm]) + 1
<1>0. thr[t] \in ThreadState /\ TypeOK /\ inbox \in [Bookmakers -> Seq(Message)] /\ a \in Actions
  BY ThreadFacts DEF IInv, TypeOK
<1>1. UNCHANGED <<attempt, journal, tickets>> /\ Advance(t, Goto(t, "wait"), {})
  BY DEF SendCommit, rows
<1>2. key \in Keys /\ bm \in Bookmakers /\ thr[t].pc = "send" /\ thr[t].key = key
  <2>1. key \in Keys /\ thr[t].pc = "send"
    BY SavesItsKey DEF SendCommit, At, CommitPoints
  <2>2. QED
    BY <2>1 DEF Keys, KeyOf
<1>3. inbox' = [inbox EXCEPT ![bm] = Append(@, m)]
  BY DEF SendCommit, Write
<1>4. /\ DOMAIN inbox'[bm] = DOMAIN inbox[bm] \cup {last}
      /\ \A i \in DOMAIN inbox[bm] : inbox'[bm][i] = inbox[bm][i] /\ i < last
      /\ inbox'[bm][last] = m
      /\ \A b \in Bookmakers \ {bm} : inbox'[b] = inbox[b]
      /\ last \in Nat
  BY <1>0, <1>2, <1>3
<1>5. m.kind = "commit" /\ m.key = <<a, key>> /\ m.to = t
  OBVIOUS
<1> HIDE DEF key, m, bm, a, last
<1>6. thr'[t] = Goto(t, "wait")
  BY <1>0, <1>1, OthersResume, Zenon
<1>7. thr'[t].pc = "wait" /\ thr'[t].key = key /\ thr'[t].rsp = "none"
      /\ thr'[t].attStale = thr[t].attStale
  BY <1>0, <1>2, <1>6 DEF Goto, ThreadState
<1>8. \A u \in Threads : u # t =>
        /\ thr'[u].pc = thr[u].pc /\ thr'[u].key = thr[u].key /\ thr'[u].rsp = thr[u].rsp
        /\ thr[u].attStale => thr'[u].attStale
  BY <1>0, <1>1, OthersResume, Zenon
<1>9. Sending(thr, a, key)
  BY <1>2 DEF Sending, a
<1>10. journal[<<a, key>>] = "none" /\ ~Queued(inbox[bm], a, key)
       /\ ~(attempt[a][key].st = "response_received" /\ attempt[a][key].res \in Negative)
  <2>1. CommitOf(a, key, attempt[a][key], thr, inbox[bm], journal, tickets)
    BY <1>0, <1>2 DEF CommitInv, CommitsFit, bm
  <2>2. QED
    BY <1>9, <2>1 DEF CommitOf, Hopeless
<1>11. attempt[a][key].st \notin {"none", "before_send"}
  BY <1>2 DEF CommitInv, ThreadsCommit, KnowsCommit, a
<1>12. ASSUME NEW u \in Threads, SameCommit(t, u, thr)
       PROVE  /\ thr[u].pc \in {"mark", "send"} => u = t
              /\ thr[u].pc \in {"ask", "wait", "answer"} => thr[u].attStale
  BY <1>2, <1>12 DEF CommitInv, ThreadsCommit, SendsAlone
<1>13. ~Sending(thr', a, key)
  <2> SUFFICES ASSUME NEW u \in Threads, Subject(u) = a, thr'[u].pc = "send", thr'[u].key = key
               PROVE  FALSE
    BY DEF Sending
  <2>1. u # t
    BY <1>7
  <2>2. QED
    BY <1>2, <1>8, <1>12, <2>1 DEF SameCommit, a
<1>14. ASSUME NEW b, NEW j, Sending(thr', b, j)
       PROVE  Sending(thr, b, j)
  BY <1>7, <1>8, <1>14 DEF Sending
<1>15. ASSUME NEW b \in Bookmakers, NEW c, NEW j, <<c, j>> # <<a, key>>
       PROVE  Queued(inbox'[b], c, j) => Queued(inbox[b], c, j)
  <2>1. CASE b = bm
    BY <1>4, <1>5, <1>15, <2>1 DEF Queued
  <2>2. CASE b # bm
    BY <1>4, <2>2
  <2>3. QED
    BY <2>1, <2>2
<1>16. ASSUME NEW b, NEW j \in Keys, <<b, j>> # <<a, key>>,
              Hopeless(thr, inbox[j[1]], tickets, b, j)
       PROVE  Hopeless(thr', inbox'[j[1]], tickets', b, j)
  <2>1. j[1] \in Bookmakers
    BY DEF Keys
  <2>2. QED
    BY <1>1, <1>14, <1>15, <1>16, <2>1 DEF Hopeless
<1>17. CommitsFit'
  <2> SUFFICES ASSUME NEW b \in Actions, NEW j \in Keys
               PROVE  CommitOf(b, j, attempt'[b][j], thr', inbox'[j[1]], journal', tickets')
    BY DEF CommitsFit
  <2>1. CommitOf(b, j, attempt[b][j], thr, inbox[j[1]], journal, tickets) /\ j[1] \in Bookmakers
    BY DEF CommitInv, CommitsFit, Keys
  <2>2. CASE <<b, j>> = <<a, key>>
    BY <1>1, <1>10, <1>11, <1>13, <2>1, <2>2 DEF CommitOf
  <2>3. CASE <<b, j>> # <<a, key>>
    BY <1>1, <1>14, <1>15, <1>16, <2>1, <2>3 DEF CommitOf
  <2>4. QED
    BY <2>2, <2>3
<1>18. ASSUME NEW u \in Threads
       PROVE  KnowsCommit(thr'[u], attempt'[Subject(u)])
  <2>1. KnowsCommit(thr[u], attempt[Subject(u)])
    BY DEF CommitInv, ThreadsCommit
  <2>2. QED
    BY <1>1, <1>7, <1>8, <2>1 DEF KnowsCommit
<1>19. ASSUME NEW u \in Threads
       PROVE  Refused(u, thr', inbox', tickets')
  <2>1. SUFFICES ASSUME thr'[u].rsp \in Negative, ~thr'[u].attStale
                 PROVE  Hopeless(thr', inbox'[thr'[u].key[1]], tickets', Subject(u), thr'[u].key)
    BY DEF Refused
  <2>2. u # t
    BY <1>7, <2>1 DEF Negative
  <2>3. thr[u].rsp \in Negative /\ ~thr[u].attStale /\ thr'[u].key = thr[u].key
    BY <1>8, <2>1, <2>2
  <2>4. thr[u].rsp # "none"
    BY <2>3 DEF Negative
  <2>5. Hopeless(thr, inbox[thr[u].key[1]], tickets, Subject(u), thr[u].key)
    BY <2>3 DEF CommitInv, ThreadsCommit, Refused
  <2>6. thr[u].key \in Keys
    BY <2>4, AnswersAwaited
  <2>7. <<Subject(u), thr[u].key>> # <<a, key>>
    BY <1>9, <2>5 DEF Hopeless
  <2>8. QED
    BY <1>16, <2>3, <2>5, <2>6, <2>7
<1>20. ASSUME NEW u \in Threads, NEW v \in Threads
       PROVE  SendsAlone(u, v, thr')
  <2>1. SendsAlone(u, v, thr)
    BY DEF CommitInv, ThreadsCommit
  <2>2. CASE u # t /\ v # t
    BY <1>8, <2>1, <2>2 DEF SendsAlone, SameCommit
  <2>3. CASE u = t
    BY <1>7, <2>3 DEF SendsAlone, SameCommit
  <2>4. CASE u # t /\ v = t
    BY <1>2, <1>7, <1>8, <1>12, <2>4 DEF SendsAlone, SameCommit
  <2>5. QED
    BY <2>2, <2>3, <2>4
<1>21. QueuesOrdered'
  <2> SUFFICES ASSUME NEW b \in Bookmakers PROVE WrittenOnce(inbox'[b], thr')
    BY DEF QueuesOrdered
  <2>1. WrittenOnce(inbox[b], thr)
    BY DEF CommitInv, QueuesOrdered
  <2>2. ASSUME NEW i \in DOMAIN inbox[b], inbox[b][i].to \in Threads
        PROVE  inbox[b][i].to # t
    BY <1>2, <2>2 DEF IInv, QueuesFit, CommandFits, WaitPoints
  <2>3. CASE b = bm
    <3>1. ASSUME NEW i \in DOMAIN inbox[bm], inbox[bm][i].key = <<a, key>>
          PROVE  /\ inbox[bm][i].kind # "commit"
                 /\ inbox[bm][i].to \in Threads => thr[inbox[bm][i].to].attStale
      <4>1. inbox[bm][i].kind # "commit"
        BY <1>10, <3>1 DEF Queued
      <4>2. ASSUME inbox[bm][i].to \in Threads
            PROVE  thr[inbox[bm][i].to].attStale
        <5> DEFINE u == inbox[bm][i].to
        <5>1. <<a, key>> = <<u[2], thr[u].key>> /\ thr[u].pc \in WaitPoints
          BY <1>2, <3>1, <4>2 DEF IInv, QueuesFit, CommandFits
        <5>2. SameCommit(t, u, thr)
          BY <1>2, <5>1 DEF SameCommit, Subject, a
        <5>3. QED
          BY <1>12, <4>2, <5>1, <5>2 DEF WaitPoints
      <4>3. QED
        BY <4>1, <4>2
    <3> SUFFICES ASSUME NEW i \in DOMAIN inbox'[bm], NEW j \in DOMAIN inbox'[bm],
                        inbox'[bm][j].kind = "commit", inbox'[bm][i].key = inbox'[bm][j].key
                 PROVE  /\ inbox'[bm][i].kind = "commit" => i = j
                        /\ inbox'[bm][i].to \in Threads /\ ~thr'[inbox'[bm][i].to].attStale => j <= i
      BY <2>3 DEF WrittenOnce
    <3>2. CASE i \in DOMAIN inbox[bm] /\ j \in DOMAIN inbox[bm]
      BY <1>4, <1>8, <2>1, <2>2, <2>3, <3>2 DEF WrittenOnce
    <3>3. CASE i \in DOMAIN inbox[bm] /\ j = last
      BY <1>4, <1>5, <1>8, <2>2, <2>3, <3>1, <3>3
    <3>4. CASE i = last /\ j \in DOMAIN inbox[bm]
      BY <1>4, <1>5, <3>1, <3>4
    <3>5. CASE i = last /\ j = last
      BY <1>4, <3>5
    <3>6. QED
      BY <1>4, <3>2, <3>3, <3>4, <3>5
  <2>4. CASE b # bm
    BY <1>4, <1>8, <2>1, <2>2, <2>4 DEF WrittenOnce
  <2>5. QED
    BY <2>3, <2>4
<1>22. QED
  BY <1>17, <1>18, <1>19, <1>20, <1>21 DEF CommitInv, ThreadsCommit

(* The steps of a commit until its answer.                                 *)
LEMMA AttemptCommits ==
  ASSUME IInv, IInv', CommitInv, NEW t \in Threads, AttemptStep(t)
  PROVE  CommitInv'
<1>1. CASE SendRefused(t)
  <2> DEFINE q == Unresolved(t, FALSE)
  <2>1. q \in AwayPoints
    BY UnresolvedPoints
  <2>2. KeyOf(t) \in Keys /\ thr[t].pc = "send" /\ KeyOf(t) = thr[t].key
    BY <1>1, SavesItsKey DEF SendRefused, At, CommitPoints, KeyOf
  <2>3. SaveAttempt(t, "response_received", "rejected", q, q)
    BY <1>1 DEF SendRefused
  <2>4. UNCHANGED <<journal, tickets>> /\ UNCHANGED inbox
    BY <1>1 DEF SendRefused, wire
  <2>5. CommitOf(Subject(t), KeyOf(t), attempt[Subject(t)][KeyOf(t)], thr, inbox[KeyOf(t)[1]],
                 journal, tickets)
    BY <2>2, ThreadFacts DEF CommitInv, CommitsFit
  <2>6. Sending(thr, Subject(t), KeyOf(t))
    BY <2>2 DEF Sending
  <2>7. /\ TicketAt(Subject(t), KeyOf(t)) \notin tickets
        /\ ~Queued(inbox[KeyOf(t)[1]], Subject(t), KeyOf(t))
    BY <2>5, <2>6 DEF CommitOf
  <2>8. \A u \in Threads : SameCommit(t, u, thr) /\ thr[u].pc = "send" => u = t
    BY <2>2 DEF CommitInv, ThreadsCommit, SendsAlone
  <2> HIDE DEF q
  <2>9. QED
    BY <2>1, <2>2, <2>3, <2>4, <2>7, <2>8, AttemptMovesOn
<1>2. CASE CommitTimeout(t) \/ CommitUnknown(t)
  <2> DEFINE q == Unresolved(t, TRUE)
  <2>1. q \in AwayPoints
    BY UnresolvedPoints
  <2>2. KeyOf(t) \in Keys
    BY <1>2, SavesItsKey DEF CommitTimeout, CommitUnknown, At, CommitPoints
  <2>3. SaveAttempt(t, "awaiting_reconcile", "submission_unknown", q, q)
    BY <1>2 DEF CommitTimeout, CommitUnknown
  <2>4. UNCHANGED <<journal, tickets>>
    BY <1>2 DEF CommitTimeout, CommitUnknown, wire
  <2>5. UNCHANGED inbox \/ inbox' = Forgotten({t})
    BY <1>2 DEF CommitTimeout, CommitUnknown, wire
  <2> DEFINE st == "awaiting_reconcile"
             res == "submission_unknown"
  <2>6. st \notin {"none", "before_send"} /\ st # "response_received"
    OBVIOUS
  <2>7. SaveAttempt(t, st, res, q, q)
    BY <2>3
  <2> HIDE DEF q, st, res
  <2>8. QED
    BY <2>1, <2>2, <2>4, <2>5, <2>6, <2>7, AttemptMovesOn
<1>3. QED
  BY <1>1, <1>2, RecordedCommits, MarkedCommits, SentCommits DEF AttemptStep

-----------------------------------------------------------------------------
(* The collector                                                           *)

(* What is left in a queue without its head.                               *)
LEMMA HeadLeaves ==
  ASSUME TypeOK, QueuesOrdered, NEW bm \in Bookmakers, inbox[bm] # <<>>,
         inbox' = [inbox EXCEPT ![bm] = Tail(@)],
         \A u \in Threads : thr'[u].attStale = thr[u].attStale
  PROVE  /\ QueuesOrdered'
         /\ \A b \in Bookmakers, a \in Actions, k \in Keys : Queued(inbox'[b], a, k) => Queued(inbox[b], a, k)
         /\ \A b \in Bookmakers \ {bm} : inbox'[b] = inbox[b]
         /\ Head(inbox[bm]) = inbox[bm][1] /\ 1 \in DOMAIN inbox[bm]
         /\ \A j \in DOMAIN inbox'[bm] :
              j + 1 \in DOMAIN inbox[bm] /\ inbox'[bm][j] = inbox[bm][j + 1] /\ j + 1 > 1
<1>1. inbox \in [Bookmakers -> Seq(Message)]
  BY DEF TypeOK
<1>2. /\ \A b \in Bookmakers \ {bm} : inbox'[b] = inbox[b]
      /\ inbox'[bm] = Tail(inbox[bm])
      /\ inbox[bm] \in Seq(Message)
  BY <1>1
<1> DEFINE q == inbox[bm]
           p == inbox'[bm]
<1>3. /\ Head(inbox[bm]) = inbox[bm][1] /\ 1 \in DOMAIN inbox[bm]
      /\ \A j \in DOMAIN inbox'[bm] :
           /\ j \in Nat /\ j + 1 \in DOMAIN inbox[bm]
           /\ inbox'[bm][j] = inbox[bm][j + 1] /\ j + 1 > 1
  <2>1. q \in Seq(Message) /\ q # <<>> /\ p = Tail(q)
    BY <1>2
  <2> HIDE DEF q, p
  <2>2. /\ Head(q) = q[1] /\ 1 \in DOMAIN q /\ Len(q) \in Nat
        /\ Len(p) = Len(q) - 1 /\ p \in Seq(Message)
    BY <2>1
  <2>3. ASSUME NEW j \in DOMAIN p
        PROVE  j \in Nat /\ j + 1 \in DOMAIN q /\ p[j] = q[j + 1] /\ j + 1 > 1
    BY <2>1, <2>2
  <2>4. QED
    BY <2>2, <2>3 DEF q, p
<1>4. \A b \in Bookmakers, a \in Actions, k \in Keys : Queued(inbox'[b], a, k) => Queued(inbox[b], a, k)
  BY <1>2, <1>3 DEF Queued
<1>5. QueuesOrdered'
  <2> SUFFICES ASSUME NEW b \in Bookmakers PROVE WrittenOnce(inbox'[b], thr')
    BY DEF QueuesOrdered
  <2>1. WrittenOnce(inbox[b], thr)
    BY DEF QueuesOrdered
  <2>2. CASE b = bm
    <3> SUFFICES ASSUME NEW i \in DOMAIN inbox'[bm], NEW j \in DOMAIN inbox'[bm],
                        inbox'[bm][j].kind = "commit", inbox'[bm][i].key = inbox'[bm][j].key
                 PROVE  /\ inbox'[bm][i].kind = "commit" => i = j
                        /\ inbox'[bm][i].to \in Threads /\ ~thr'[inbox'[bm][i].to].attStale => j <= i
      BY <2>2 DEF WrittenOnce
    <3>1. /\ i + 1 \in DOMAIN inbox[bm] /\ j + 1 \in DOMAIN inbox[bm] /\ i \in Nat /\ j \in Nat
          /\ inbox'[bm][i] = inbox[bm][i + 1] /\ inbox'[bm][j] = inbox[bm][j + 1]
      BY <1>3
    <3>2. /\ inbox[bm][i + 1].kind = "commit" => i + 1 = j + 1
          /\ inbox[bm][i + 1].to \in Threads /\ ~thr[inbox[bm][i + 1].to].attStale => j + 1 <= i + 1
      BY <2>1, <2>2, <3>1 DEF WrittenOnce
    <3>3. QED
      BY <3>1, <3>2
  <2>3. CASE b # bm
    BY <1>2, <2>1, <2>3 DEF WrittenOnce
  <2>4. QED
    BY <2>2, <2>3
<1>6. QED
  BY <1>2, <1>3, <1>4, <1>5

(* What the answer to command m does to the threads.                       *)
LEMMA DeliverFacts ==
  ASSUME TypeOK, NEW m, NEW result, Deliver(m, result), NEW u \in Threads
  PROVE  /\ thr'[u].pc = thr[u].pc /\ thr'[u].key = thr[u].key
         /\ thr'[u].attStale = thr[u].attStale
         /\ thr'[u].rsp = IF u = m.to THEN result ELSE thr[u].rsp
<1>1. thr[u] \in ThreadState
  BY DEF TypeOK
<1>2. QED
  BY <1>1 DEF Deliver, ThreadState

(* Answers and an emptier queue leave the rest of the invariant as it is.  *)
LEMMA AnswersKeep ==
  ASSUME CommitInv, UNCHANGED attempt,
         \A u \in Threads :
           thr'[u].pc = thr[u].pc /\ thr'[u].key = thr[u].key /\ thr'[u].attStale = thr[u].attStale
  PROVE  /\ \A a \in Actions, k \in Keys : Sending(thr', a, k) <=> Sending(thr, a, k)
         /\ \A u \in Threads : KnowsCommit(thr'[u], attempt'[Subject(u)])
         /\ \A u, v \in Threads : SendsAlone(u, v, thr')
<1>1. \A a \in Actions, k \in Keys : Sending(thr', a, k) <=> Sending(thr, a, k)
  BY DEF Sending
<1>2. \A u \in Threads : KnowsCommit(thr'[u], attempt'[Subject(u)])
  BY DEF CommitInv, ThreadsCommit, KnowsCommit
<1>3. \A u, v \in Threads : SendsAlone(u, v, thr')
  BY DEF CommitInv, ThreadsCommit, SendsAlone, SameCommit
<1>4. QED
  BY <1>1, <1>2, <1>3

(* A command that is dropped or a question that is answered leaves less    *)
(* that can become a ticket.                                               *)
LEMMA QueueKeeps ==
  ASSUME IInv, CommitInv, NEW bm \in Bookmakers, UNCHANGED <<attempt, journal, tickets>>,
         inbox[bm] # <<>>, inbox' = [inbox EXCEPT ![bm] = Tail(@)],
         \A u \in Threads :
           /\ thr'[u].pc = thr[u].pc /\ thr'[u].key = thr[u].key
           /\ thr'[u].attStale = thr[u].attStale
           /\ thr'[u].rsp # thr[u].rsp => Refused(u, thr', inbox', tickets')
  PROVE  CommitInv'
<1>1. TypeOK /\ QueuesOrdered
  BY DEF IInv, CommitInv
<1>2. /\ QueuesOrdered'
      /\ \A b \in Bookmakers, a \in Actions, k \in Keys : Queued(inbox'[b], a, k) => Queued(inbox[b], a, k)
  BY <1>1, HeadLeaves
<1>3. /\ \A a \in Actions, k \in Keys : Sending(thr', a, k) <=> Sending(thr, a, k)
      /\ \A u \in Threads : KnowsCommit(thr'[u], attempt'[Subject(u)])
      /\ \A u, v \in Threads : SendsAlone(u, v, thr')
  BY AnswersKeep
<1>4. ASSUME NEW a \in Actions, NEW k \in Keys, Hopeless(thr, inbox[k[1]], tickets, a, k)
      PROVE  Hopeless(thr', inbox'[k[1]], tickets', a, k)
  <2>1. k[1] \in Bookmakers
    BY DEF Keys
  <2>2. QED
    BY <1>2, <1>3, <1>4, <2>1 DEF Hopeless
<1>5. CommitsFit'
  <2> SUFFICES ASSUME NEW a \in Actions, NEW k \in Keys
               PROVE  CommitOf(a, k, attempt'[a][k], thr', inbox'[k[1]], journal', tickets')
    BY DEF CommitsFit
  <2>1. CommitOf(a, k, attempt[a][k], thr, inbox[k[1]], journal, tickets) /\ k[1] \in Bookmakers
    BY DEF CommitInv, CommitsFit, Keys
  <2>2. QED
    BY <1>2, <1>3, <1>4, <2>1 DEF CommitOf
<1>6. ASSUME NEW u \in Threads
      PROVE  Refused(u, thr', inbox', tickets')
  <2>1. CASE thr'[u].rsp # thr[u].rsp
    BY <2>1
  <2>2. CASE thr'[u].rsp = thr[u].rsp
    <3>1. SUFFICES ASSUME thr[u].rsp \in Negative, ~thr[u].attStale
                   PROVE  Hopeless(thr', inbox'[thr[u].key[1]], tickets', Subject(u), thr[u].key)
      BY <2>2 DEF Refused
    <3>2. thr[u].rsp # "none"
      BY <3>1 DEF Negative
    <3>3. Hopeless(thr, inbox[thr[u].key[1]], tickets, Subject(u), thr[u].key)
      BY <3>1 DEF CommitInv, ThreadsCommit, Refused
    <3>4. thr[u].key \in Keys /\ Subject(u) \in Actions
      BY <3>2, AnswersAwaited, ThreadFacts
    <3>5. QED
      BY <1>4, <3>3, <3>4
  <2>3. QED
    BY <2>1, <2>2
<1>7. QED
  BY <1>2, <1>3, <1>5, <1>6 DEF CommitInv, ThreadsCommit

(* A commit that nobody waits for is dropped.                              *)
LEMMA DroppedCommits ==
  ASSUME IInv, CommitInv, NEW bm \in Bookmakers, DropExpired(bm)
  PROVE  CommitInv'
BY QueueKeeps DEF DropExpired, rows

(* On a reliable wire a question is answered by the journal, which says    *)
(* the truth about a commit that is not on its way.                        *)
LEMMA ReconciledCommits ==
  ASSUME IInv, CommitInv, ReliableWire, NEW bm \in Bookmakers, HandleReconcile(bm)
  PROVE  CommitInv'
<1> DEFINE m == Head(inbox[bm])
           result == CachedAnswer(journal[m.key])
<1>1. /\ inbox[bm] # <<>> /\ m.kind = "reconcile" /\ Deliver(m, result)
      /\ inbox' = [inbox EXCEPT ![bm] = Tail(@)]
      /\ UNCHANGED <<attempt, journal, tickets>>
  BY DEF HandleReconcile, ReliableWire, rows
<1>2. TypeOK /\ QueuesOrdered
  BY DEF IInv, CommitInv
<1> HIDE DEF m, result
<1>3. \A u \in Threads :
        /\ thr'[u].pc = thr[u].pc /\ thr'[u].key = thr[u].key
        /\ thr'[u].attStale = thr[u].attStale
        /\ thr'[u].rsp = IF u = m.to THEN result ELSE thr[u].rsp
  BY <1>1, <1>2, DeliverFacts
<1>4. /\ \A b \in Bookmakers, a \in Actions, k \in Keys :
           Queued(inbox'[b], a, k) => Queued(inbox[b], a, k)
      /\ m = inbox[bm][1] /\ 1 \in DOMAIN inbox[bm]
      /\ \A j \in DOMAIN inbox'[bm] :
           j + 1 \in DOMAIN inbox[bm] /\ inbox'[bm][j] = inbox[bm][j + 1] /\ j + 1 > 1
  BY <1>1, <1>2, <1>3, HeadLeaves DEF m
<1>5. ASSUME NEW u \in Threads, thr'[u].rsp # thr[u].rsp
      PROVE  Refused(u, thr', inbox', tickets')
  <2> DEFINE a == Subject(u)
             k == thr[u].key
  <2>1. u = m.to /\ thr'[u].rsp = result
    BY <1>3, <1>5
  <2>2. /\ m.key = <<u[2], thr[u].key>> /\ m.key[2][1] = bm /\ thr[u].pc \in WaitPoints
    BY <1>4, <2>1 DEF IInv, QueuesFit, CommandFits
  <2>3. m.key = <<a, k>> /\ k[1] = bm /\ thr[u].pc \in {"ask", "wait", "answer"}
    BY <2>2 DEF Subject, WaitPoints
  <2>4. a \in Actions /\ k \in Keys
    <3>1. Fits(u, thr[u], expo, tickets)
      BY DEF IInv, ThreadsFit
    <3>2. QED
      BY <2>2, <3>1, ThreadFacts DEF Fits, KnowsKey, WaitPoints, KeyedPoints, CommitPoints, ReconcilePoints
  <2> HIDE DEF a, k
  <2>5. SUFFICES ASSUME result \in Negative, ~thr[u].attStale
                 PROVE  Hopeless(thr', inbox'[k[1]], tickets', a, k)
    BY <1>3, <2>1 DEF Refused, a, k
  <2>6. journal[<<a, k>>] \notin {"ticket_accepted", "submit_started"}
    BY <2>3, <2>5 DEF result, CachedAnswer, Negative
  <2>7. TicketAt(a, k) \notin tickets'
    <3>1. CommitOf(a, k, attempt[a][k], thr, inbox[k[1]], journal, tickets)
      BY <2>4 DEF CommitInv, CommitsFit
    <3>2. QED
      BY <1>1, <2>6, <3>1 DEF CommitOf
  <2>8. ~Queued(inbox'[k[1]], a, k)
    <3> SUFFICES ASSUME NEW j \in DOMAIN inbox'[bm], inbox'[bm][j].kind = "commit",
                        inbox'[bm][j].key = <<a, k>>
                 PROVE  FALSE
      BY <2>3 DEF Queued
    <3>1. j + 1 \in DOMAIN inbox[bm] /\ inbox'[bm][j] = inbox[bm][j + 1] /\ j + 1 > 1
      BY <1>4
    <3>2. WrittenOnce(inbox[bm], thr)
      BY <1>2 DEF QueuesOrdered
    <3>3. inbox[bm][1].to \in Threads /\ ~thr[inbox[bm][1].to].attStale
          /\ inbox[bm][1].key = inbox[bm][j + 1].key /\ inbox[bm][j + 1].kind = "commit"
      BY <1>4, <2>1, <2>3, <2>5, <3>1
    <3>4. j + 1 <= 1
      BY <1>4, <3>1, <3>2, <3>3 DEF WrittenOnce
    <3>5. DOMAIN inbox[bm] \subseteq Nat
      BY <1>2 DEF TypeOK
    <3>6. j + 1 \in Nat
      BY <3>1, <3>5
    <3>7. QED
      BY <3>1, <3>4, <3>6
  <2>9. ~Sending(thr', a, k)
    <3> SUFFICES ASSUME NEW v \in Threads, Subject(v) = a, thr'[v].pc = "send", thr'[v].key = k
                 PROVE  FALSE
      BY DEF Sending
    <3>1. thr[v].pc = "send" /\ thr[v].key = k /\ SameCommit(v, u, thr)
      BY <1>3 DEF SameCommit, a, k
    <3>2. SendsAlone(v, u, thr)
      BY DEF CommitInv, ThreadsCommit
    <3>3. QED
      BY <2>3, <2>5, <3>1, <3>2 DEF SendsAlone
  <2>10. QED
    BY <2>7, <2>8, <2>9 DEF Hopeless
<1>6. QED
  BY <1>1, <1>3, <1>5, QueueKeeps

(* A commit is tried at the bookmaker, once.                               *)
LEMMA HandledCommits ==
  ASSUME IInv, CommitInv, NEW bm \in Bookmakers, HandleCommit(bm)
  PROVE  CommitInv'
<1> DEFINE m == Head(inbox[bm])
           a == m.key[1]
           k == m.key[2]
<1>1. /\ inbox[bm] # <<>> /\ m.kind = "commit"
      /\ inbox' = [inbox EXCEPT ![bm] = Tail(@)]
      /\ UNCHANGED <<attempt, expo, action>>
  BY DEF HandleCommit, rows
<1>2. TypeOK /\ QueuesOrdered /\ 1 \in DOMAIN inbox[bm] /\ m = inbox[bm][1]
  <2>1. TypeOK /\ QueuesOrdered /\ inbox[bm] \in Seq(Message)
    BY DEF IInv, CommitInv, TypeOK
  <2>2. QED
    BY <1>1, <2>1
<1>3. m \in Message /\ a \in Actions /\ k \in Keys /\ m.key = <<a, k>> /\ k[1] = bm
  <2>1. m \in Message
    BY <1>2, QueueElements
  <2>2. CommandFits(bm, m, thr, expo)
    BY <1>2 DEF IInv, QueuesFit
  <2>3. QED
    BY <2>1, <2>2 DEF Message, CommandFits
<1>4. Queued(inbox[bm], a, k)
  BY <1>1, <1>2, <1>3 DEF Queued
<1>5. /\ journal[<<a, k>>] = "none" /\ TicketAt(a, k) \notin tickets /\ ~Sending(thr, a, k)
      /\ attempt[a][k].st \notin {"none", "before_send"}
      /\ ~(attempt[a][k].st = "response_received" /\ attempt[a][k].res \in Negative)
  <2>1. CommitOf(a, k, attempt[a][k], thr, inbox[k[1]], journal, tickets)
    BY <1>3 DEF CommitInv, CommitsFit
  <2>2. QED
    BY <1>3, <1>4, <2>1 DEF CommitOf, Hopeless
<1>6. PICK result \in Results, placed \in BOOLEAN :
        /\ placed => result \in {"ticket_accepted", "submission_unknown"}
        /\ tickets' = IF placed THEN tickets \cup {TicketAt(a, k)} ELSE tickets
        /\ journal' = [journal EXCEPT ![m.key] = IF result = "submission_unknown"
                                                 THEN "submit_started" ELSE result]
        /\ Deliver(m, result)
  <2>1. TicketAt(a, k) = <<m.key[1], m.key[2][1], m.key[2][2]>> /\ journal[m.key] = "none"
    BY <1>3, <1>5 DEF TicketAt
  <2>2. CommitResults \subseteq Results
    BY FlagsAssumption
  <2> HIDE DEF m, a, k
  <2>3. QED
    BY <2>1, <2>2 DEF HandleCommit, m
<1> HIDE DEF m, a, k
<1>7. \A u \in Threads :
        /\ thr'[u].pc = thr[u].pc /\ thr'[u].key = thr[u].key
        /\ thr'[u].attStale = thr[u].attStale
        /\ thr'[u].rsp = IF u = m.to THEN result ELSE thr[u].rsp
  BY <1>2, <1>6, DeliverFacts
<1>8. /\ QueuesOrdered'
      /\ \A b \in Bookmakers, c \in Actions, j \in Keys :
           Queued(inbox'[b], c, j) => Queued(inbox[b], c, j)
      /\ \A j \in DOMAIN inbox'[bm] :
           j + 1 \in DOMAIN inbox[bm] /\ inbox'[bm][j] = inbox[bm][j + 1] /\ j + 1 > 1
  BY <1>1, <1>2, <1>7, HeadLeaves DEF m
<1>9. /\ \A c \in Actions, j \in Keys : Sending(thr', c, j) <=> Sending(thr, c, j)
      /\ \A u \in Threads : KnowsCommit(thr'[u], attempt'[Subject(u)])
      /\ \A u, v \in Threads : SendsAlone(u, v, thr')
  BY <1>1, <1>7, AnswersKeep
<1>10. ~Queued(inbox'[bm], a, k)
  <2> SUFFICES ASSUME NEW j \in DOMAIN inbox'[bm], inbox'[bm][j].kind = "commit",
                      inbox'[bm][j].key = <<a, k>>
               PROVE  FALSE
    BY DEF Queued
  <2>1. j + 1 \in DOMAIN inbox[bm] /\ inbox'[bm][j] = inbox[bm][j + 1] /\ j + 1 > 1
    BY <1>8
  <2>2. WrittenOnce(inbox[bm], thr)
    BY <1>2 DEF QueuesOrdered
  <2>3. j + 1 = 1
    BY <1>1, <1>2, <1>3, <2>1, <2>2 DEF WrittenOnce
  <2>4. QED
    BY <2>1, <2>3
<1>11. journal[<<a, k>>] = "none" /\ journal \in [Actions \X Keys -> Results \cup {"none", "submit_started"}]
  BY <1>2, <1>5 DEF TypeOK
<1>12. /\ \A c \in Actions, j \in Keys : <<c, j>> # <<a, k>> => journal'[<<c, j>>] = journal[<<c, j>>]
       /\ journal'[<<a, k>>] = IF result = "submission_unknown" THEN "submit_started" ELSE result
  BY <1>3, <1>6, <1>11
<1>13. ASSUME NEW c \in Actions, NEW j \in Keys, <<c, j>> # <<a, k>>
       PROVE  TicketAt(c, j) \in tickets' <=> TicketAt(c, j) \in tickets
  <2>1. j = <<j[1], j[2]>> /\ k = <<k[1], k[2]>>
    BY <1>3 DEF Keys
  <2>2. TicketAt(c, j) # TicketAt(a, k)
    BY <1>13, <2>1 DEF TicketAt
  <2>3. QED
    BY <1>6, <2>2
<1>14. ASSUME NEW c \in Actions, NEW j \in Keys, <<c, j>> # <<a, k>>,
              Hopeless(thr, inbox[j[1]], tickets, c, j)
       PROVE  Hopeless(thr', inbox'[j[1]], tickets', c, j)
  <2>1. j[1] \in Bookmakers
    BY DEF Keys
  <2>2. QED
    BY <1>8, <1>9, <1>13, <1>14, <2>1 DEF Hopeless
<1>15. CommitsFit'
  <2> SUFFICES ASSUME NEW c \in Actions, NEW j \in Keys
               PROVE  CommitOf(c, j, attempt'[c][j], thr', inbox'[j[1]], journal', tickets')
    BY DEF CommitsFit
  <2>1. CommitOf(c, j, attempt[c][j], thr, inbox[j[1]], journal, tickets) /\ j[1] \in Bookmakers
    BY DEF CommitInv, CommitsFit, Keys
  <2>2. CASE <<c, j>> = <<a, k>>
    <3>1. TicketAt(a, k) \in tickets' => journal'[<<a, k>>] \in {"ticket_accepted", "submit_started"}
      BY <1>5, <1>6, <1>12
    <3>2. QED
      BY <1>1, <1>3, <1>5, <1>9, <1>10, <2>2, <3>1 DEF CommitOf
  <2>3. CASE <<c, j>> # <<a, k>>
    BY <1>1, <1>8, <1>9, <1>12, <1>13, <1>14, <2>1, <2>3 DEF CommitOf
  <2>4. QED
    BY <2>2, <2>3
<1>16. ASSUME NEW u \in Threads
       PROVE  Refused(u, thr', inbox', tickets')
  <2>1. SUFFICES ASSUME thr'[u].rsp \in Negative, ~thr'[u].attStale
                 PROVE  Hopeless(thr', inbox'[thr[u].key[1]], tickets', Subject(u), thr[u].key)
    BY <1>7 DEF Refused
  <2>2. CASE u = m.to
    <3>1. <<a, k>> = <<u[2], thr[u].key>>
      BY <1>2, <1>3, <2>2 DEF IInv, QueuesFit, CommandFits
    <3>2. result \in Negative
      BY <1>7, <2>1, <2>2
    <3>3. TicketAt(a, k) \notin tickets'
      BY <1>5, <1>6, <3>2 DEF Negative
    <3>4. QED
      BY <1>3, <1>5, <1>9, <1>10, <3>1, <3>3 DEF Hopeless, Subject
  <2>3. CASE u # m.to
    <3>1. thr[u].rsp \in Negative /\ ~thr[u].attStale
      BY <1>7, <2>1, <2>3
    <3>2. thr[u].rsp # "none"
      BY <3>1 DEF Negative
    <3>3. Hopeless(thr, inbox[thr[u].key[1]], tickets, Subject(u), thr[u].key)
      BY <3>1 DEF CommitInv, ThreadsCommit, Refused
    <3>4. thr[u].key \in Keys /\ Subject(u) \in Actions
      BY <3>2, AnswersAwaited, ThreadFacts
    <3>5. <<Subject(u), thr[u].key>> # <<a, k>>
      BY <1>3, <1>4, <3>3 DEF Hopeless
    <3>6. QED
      BY <1>14, <3>3, <3>4, <3>5
  <2>4. QED
    BY <2>2, <2>3
<1>17. QED
  BY <1>8, <1>9, <1>15, <1>16 DEF CommitInv, ThreadsCommit

-----------------------------------------------------------------------------
(* Arrivals, time and faults                                               *)

(* A thread that begins works on no commit yet, nor does a pass.           *)
LEMMA ArrivalCommits ==
  ASSUME IInv, IInv', CommitInv, NEW a \in Actions, Arrival(a)
  PROVE  CommitInv'
<1>1. PICK t \in Threads, p \in {"create", "lease", "listed", "resolve"} :
             Advance(t, [Idle EXCEPT !.pc = p], {}) \/ Advance(t, Reading(t, [Idle EXCEPT !.pc = p]), {})
  BY DEF Arrival, Gate, HedgeList, ReconcileManually, OperatorReads, Threads
<1>2. UNCHANGED <<attempt, journal, tickets>> /\ UNCHANGED inbox
  BY DEF Arrival, Gate, HedgeList, ReconcileManually, OperatorReads, rows, wire
<1>3. /\ [Idle EXCEPT !.pc = p].pc \notin KeyPoints
      /\ Reading(t, [Idle EXCEPT !.pc = p]).pc \notin KeyPoints
  BY DEF Reading, Idle, KeyPoints
<1>4. QED
  BY <1>1, <1>2, <1>3, ThreadMovesOn, Zenon

(* The same for a pass that lists its actions.                             *)
LEMMA ListedCommits ==
  ASSUME IInv, IInv', CommitInv, ListPending
  PROVE  CommitInv'
<1>1. UNCHANGED <<attempt, journal, tickets>> /\ UNCHANGED inbox
  BY DEF ListPending, rows, wire
<1>2. ASSUME NEW u \in Threads
      PROVE  Resumes(u)
  <2>1. thr'[u] = Reading(u, [Idle EXCEPT !.pc = "listed"]) \/ thr'[u] = thr[u]
    BY DEF ListPending
  <2>2. Reading(u, [Idle EXCEPT !.pc = "listed"]).pc \notin KeyPoints
    BY DEF Reading, Idle, KeyPoints
  <2>3. QED
    BY <2>1, <2>2 DEF Resumes
<1>3. TypeOK
  BY DEF IInv
<1>4. \A bm \in Bookmakers : SameCommands(inbox[bm], inbox'[bm])
  BY <1>1, <1>3, ForgottenCommands
<1>5. \A a \in Actions, k \in Keys : RowStep(a, k)
  BY <1>1 DEF RowStep
<1>6. QED
  BY <1>1, <1>2, <1>4, <1>5, QuietKeeps

(* A lease that runs out touches no commit.                                *)
LEMMA ExpiryCommits ==
  ASSUME IInv, IInv', CommitInv, NEW a \in Actions, LeaseExpires(a)
  PROVE  CommitInv'
<1>1. UNCHANGED <<attempt, journal, tickets>> /\ UNCHANGED inbox /\ UNCHANGED thr
  BY DEF LeaseExpires, wire
<1>2. \A u \in Threads : Resumes(u)
  BY <1>1 DEF Resumes
<1>3. TypeOK
  BY DEF IInv
<1>4. \A bm \in Bookmakers : SameCommands(inbox[bm], inbox'[bm])
  BY <1>1, <1>3, ForgottenCommands
<1>5. \A b \in Actions, k \in Keys : RowStep(b, k)
  BY <1>1 DEF RowStep
<1>6. QED
  BY <1>1, <1>2, <1>4, <1>5, QuietKeeps

(* A thread or the backend that fails leaves its commands where they are;  *)
(* on a reliable wire the collectors keep theirs.                          *)
LEMMA FaultCommits ==
  ASSUME IInv, IInv', CommitInv, ReliableWire, Fault
  PROVE  CommitInv'
<1>1. CASE \E t \in Threads : ThreadFails(t)
  <2>1. PICK t \in Threads : ThreadFails(t)
    BY <1>1
  <2>2. Advance(t, Idle, {}) \/ Advance(t, Returned(t), {})
    BY <2>1, Zenon DEF ThreadFails
  <2>3. Idle.pc \notin KeyPoints /\ Returned(t).pc \notin KeyPoints
    BY DEF Returned, Idle, KeyPoints
  <2>4. UNCHANGED <<attempt, journal, tickets>> /\ inbox' = Forgotten({t})
    BY <2>1 DEF ThreadFails, rows
  <2>5. QED
    BY <2>2, <2>3, <2>4, ThreadMovesOn, Zenon
<1>2. CASE \E t \in Threads : MarkFails(t)
  <2>1. PICK t \in Threads : MarkFails(t)
    BY <1>2
  <2>2. Advance(t, Goto(t, Unresolved(t, FALSE)), {})
    BY <2>1 DEF MarkFails
  <2>3. Goto(t, Unresolved(t, FALSE)).pc \notin KeyPoints
    BY UnresolvedPoints, GoesAway
  <2>4. UNCHANGED <<attempt, journal, tickets>> /\ UNCHANGED inbox
    BY <2>1 DEF MarkFails, rows, wire
  <2>5. QED
    BY <2>2, <2>3, <2>4, ThreadMovesOn, Zenon
<1>3. CASE BackendCrashes
  <2>1. UNCHANGED <<attempt, journal, tickets>> /\ inbox' = Forgotten(Threads)
    BY <1>3 DEF BackendCrashes
  <2>2. \A u \in Threads : Resumes(u)
    BY <1>3 DEF BackendCrashes, Resumes, Idle, KeyPoints
  <2>3. TypeOK
    BY DEF IInv
  <2>4. \A bm \in Bookmakers : SameCommands(inbox[bm], inbox'[bm])
    BY <2>1, <2>3, ForgottenCommands
  <2>5. \A b \in Actions, k \in Keys : RowStep(b, k)
    BY <2>1 DEF RowStep
  <2>6. QED
    BY <2>1, <2>2, <2>4, <2>5, QuietKeeps
<1>4. CASE \E bm \in Bookmakers : CollectorRestarts(bm)
  BY <1>4 DEF CollectorRestarts, ReliableWire
<1>5. QED
  BY <1>1, <1>2, <1>3, <1>4 DEF Fault

(* At first there is no commit.                                            *)
LEMMA InitCommits ==
  ASSUME Init
  PROVE  CommitInv
<1>1. ASSUME NEW a \in Actions, NEW k \in Keys
      PROVE  CommitOf(a, k, attempt[a][k], thr, inbox[k[1]], journal, tickets)
  <2>1. k[1] \in Bookmakers /\ <<a, k>> \in Actions \X Keys
    BY DEF Keys
  <2>2. inbox[k[1]] = <<>> /\ journal[<<a, k>>] = "none" /\ tickets = {}
        /\ attempt[a][k].st = "none"
    BY <2>1 DEF Init, NoAttempt
  <2>3. QED
    BY <2>2 DEF CommitOf, Queued
<1>2. \A t \in Threads : thr[t].pc = "idle" /\ thr[t].rsp = "none"
  BY DEF Init, Idle
<1>3. \A bm \in Bookmakers : WrittenOnce(inbox[bm], thr)
  BY DEF Init, WrittenOnce
<1>4. QED
  BY <1>1, <1>2, <1>3 DEF CommitInv, CommitsFit, ThreadsCommit, KnowsCommit, Refused, Negative,
     SendsAlone, QueuesOrdered

(* Every step keeps the commits in order.                                  *)
LEMMA CommitsKept ==
  ASSUME ReliableWire, IInv, IInv', CommitInv, [Next]_vars
  PROVE  CommitInv'
<1>1. CASE UNCHANGED vars
  BY <1>1 DEF vars, CommitInv, CommitsFit, ThreadsCommit, QueuesOrdered
<1>2. ASSUME NEW t \in Threads, ThreadStep(t)
      PROVE  CommitInv'
  BY <1>2, ExecutorCommits, AttemptCommits, HedgeCommits, MatcherCommits, ReconcileCommits,
     OperatorCommits DEF ThreadStep
<1>3. ASSUME NEW a \in Actions, Arrival(a) \/ LeaseExpires(a)
      PROVE  CommitInv'
  BY <1>3, ArrivalCommits, ExpiryCommits
<1>4. ASSUME NEW bm \in Bookmakers, CollectorStep(bm)
      PROVE  CommitInv'
  BY <1>4, HandledCommits, ReconciledCommits, DroppedCommits DEF CollectorStep
<1>5. CASE ListPending
  BY <1>5, ListedCommits
<1>6. CASE Fault
  BY <1>6, FaultCommits
<1>7. QED
  BY <1>1, <1>2, <1>3, <1>4, <1>5, <1>6 DEF Next

-----------------------------------------------------------------------------
(* The Jun88 leg                                                           *)

(* A step that leaves attempts and exposures alone may give an action up   *)
(* when it has no exposure and no commit without an answer.                *)
LEMMA ActionLegs ==
  ASSUME JunLegs, UNCHANGED <<attempt, expo>>,
         \A a \in Actions :
           action'[a].st \in GivenUp =>
             \/ action[a].st \in GivenUp
             \/ expo[a].st = "none" /\ NoneWaiting(attempt[a])
  PROVE  JunLegs'
<1>1. ASSUME NEW a \in Actions
      PROVE  JunLegOf(action'[a].st, attempt[a], expo[a])
  <2>1. JunLegOf(action[a].st, attempt[a], expo[a])
    BY DEF JunLegs
  <2>2. action'[a].st \in GivenUp =>
          \/ action[a].st \in GivenUp
          \/ expo[a].st = "none" /\ NoneWaiting(attempt[a])
    OBVIOUS
  <2>3. QED
    BY <2>1, <2>2 DEF JunLegOf
<1>2. QED
  BY <1>1 DEF JunLegs

(* No action changes its status.                                           *)
LEMMA SameLegs ==
  ASSUME JunLegs, UNCHANGED <<attempt, expo>>, \A a \in Actions : action'[a].st = action[a].st
  PROVE  JunLegs'
  BY ActionLegs

(* One action moves.                                                       *)
LEMMA MovedLegs ==
  ASSUME SafetyInv, JunLegs, NEW t \in Threads, NEW to,
         (CanMoveAction(t, to) /\ action' = Moved(t, to)) \/ UNCHANGED action,
         UNCHANGED <<attempt, expo>>,
         to \in GivenUp /\ thr[t].lag = 0 =>
           expo[Subject(t)].st = "none" /\ NoneWaiting(attempt[Subject(t)])
  PROVE  JunLegs'
<1>1. CASE UNCHANGED action
  BY <1>1, SameLegs
<1>2. CASE CanMoveAction(t, to) /\ action' = Moved(t, to)
  <2>1. action \in [Actions -> ActionState] /\ Subject(t) \in Actions
    BY InvOf DEF TypeOK
  <2>2. action'[Subject(t)].st = to /\ \A b \in Actions \ {Subject(t)} : action'[b] = action[b]
    BY <1>2, <2>1 DEF Moved, ActionState
  <2>3. thr[t].lag = 0
    BY <1>2 DEF CanMoveAction
  <2>4. QED
    BY <2>2, <2>3, ActionLegs
<1>3. QED
  BY <1>1, <1>2

(* The same for a step written as a transition.                            *)
LEMMA TransitionLegs ==
  ASSUME SafetyInv, JunLegs, NEW t \in Threads, NEW to, NEW p, TransitionAction(t, to, p),
         UNCHANGED <<attempt, expo>>,
         to \in GivenUp /\ thr[t].lag = 0 =>
           expo[Subject(t)].st = "none" /\ NoneWaiting(attempt[Subject(t)])
  PROVE  JunLegs'
<1>1. (CanMoveAction(t, to) /\ action' = Moved(t, to)) \/ UNCHANGED action
  BY DEF TransitionAction
<1>2. QED
  BY <1>1, MovedLegs

(* Taking the reservation moves no action.                                 *)
LEMMA ReservingLegs ==
  ASSUME SafetyInv, JunLegs, NEW t \in Threads,
         action' = Reserved(Subject(t)) \/ UNCHANGED action, UNCHANGED <<attempt, expo>>
  PROVE  JunLegs'
<1>1. action \in [Actions -> ActionState] /\ Subject(t) \in Actions
  BY InvOf DEF TypeOK
<1>2. CASE action' = Reserved(Subject(t))
  <2>1. action' = [action EXCEPT ![Subject(t)] =
                     [action[Subject(t)] EXCEPT !.resv = "mine", !.held = TRUE]]
    BY <1>2 DEF Reserved
  <2>2. action[Subject(t)] \in ActionState
    BY <1>1
  <2>3. action'[Subject(t)].st = action[Subject(t)].st
    BY <1>1, <2>1, <2>2 DEF ActionState
  <2>4. \A a \in Actions \ {Subject(t)} : action'[a] = action[a]
    BY <1>1, <2>1
  <2>5. QED
    BY <2>3, <2>4, SameLegs
<1>3. CASE UNCHANGED action
  BY <1>3, SameLegs
<1>4. QED
  BY <1>2, <1>3

(* An exposure that is there moves or ends, and keeps its Jun88 ticket.    *)
LEMMA ExposureLegs ==
  ASSUME JunLegs, UNCHANGED <<action, attempt>>,
         \A a \in Actions :
           /\ expo'[a].st = "none" <=> expo[a].st = "none"
           /\ expo'[a].jun = expo[a].jun
  PROVE  JunLegs'
<1>1. ASSUME NEW a \in Actions
      PROVE  JunLegOf(action[a].st, attempt[a], expo'[a])
  <2>1. JunLegOf(action[a].st, attempt[a], expo[a])
    BY DEF JunLegs
  <2>2. (expo'[a].st = "none" <=> expo[a].st = "none") /\ expo'[a].jun = expo[a].jun
    OBVIOUS
  <2>3. QED
    BY <2>1, <2>2 DEF JunLegOf
<1>2. QED
  BY <1>1 DEF JunLegs

(* One exposure moves.                                                     *)
LEMMA ExposureMovedLegs ==
  ASSUME SafetyInv, JunLegs, NEW t \in Threads, NEW to, to # "none",
         \/ UNCHANGED expo
         \/ /\ expo[Subject(t)].st # "none"
            /\ \/ expo' = [expo EXCEPT ![Subject(t)].st = to]
               \/ expo' = Completed(t),
         UNCHANGED <<action, attempt>>
  PROVE  JunLegs'
<1>1. expo \in [Actions -> ExposureState] /\ Subject(t) \in Actions
  BY InvOf DEF TypeOK
<1>2. CASE UNCHANGED expo
  BY <1>2, ExposureLegs
<1>3. CASE expo[Subject(t)].st # "none" /\ expo' = [expo EXCEPT ![Subject(t)].st = to]
  <2>1. /\ expo'[Subject(t)].st = to /\ expo'[Subject(t)].jun = expo[Subject(t)].jun
        /\ \A b \in Actions \ {Subject(t)} : expo'[b] = expo[b]
    BY <1>1, <1>3 DEF ExposureState
  <2>2. QED
    BY <1>3, <2>1, ExposureLegs
<1>4. CASE expo[Subject(t)].st # "none" /\ expo' = Completed(t)
  <2>1. /\ expo'[Subject(t)].st = "completed" /\ expo'[Subject(t)].jun = expo[Subject(t)].jun
        /\ \A b \in Actions \ {Subject(t)} : expo'[b] = expo[b]
    BY <1>1, <1>4 DEF ExposureState, Completed
  <2>2. QED
    BY <1>4, <2>1, ExposureLegs
<1>5. QED
  BY <1>2, <1>3, <1>4

(* The same for a step written as a transition.                            *)
LEMMA ExposureTransitionLegs ==
  ASSUME SafetyInv, JunLegs, NEW t \in Threads, NEW to, to # "none", NEW p,
         TransitionExposure(t, to, p) \/ SaveExposure(t, p), UNCHANGED <<action, attempt>>
  PROVE  JunLegs'
<1>1. \/ UNCHANGED expo
      \/ expo[Subject(t)].st # "none" /\ expo' = [expo EXCEPT ![Subject(t)].st = to]
  BY ExposureMovesFacts DEF TransitionExposure, SaveExposure, CanMoveExposure
<1>2. QED
  BY <1>1, ExposureMovedLegs

(* An attempt is saved: with no answer while it has none, or with one of   *)
(* the three, the accepted one for 8xbet only.                             *)
LEMMA AttemptLegs ==
  ASSUME SafetyInv, JunLegs, NEW t \in Threads, NEW st, NEW res, KeyOf(t) \in Keys,
         UNCHANGED <<action, expo>>,
         attempt' = [attempt EXCEPT ![Subject(t)][KeyOf(t)] = [st |-> st, res |-> res]],
         KeyOf(t)[1] = "jun88" => action[Subject(t)].st \notin GivenUp,
         st = "response_received" =>
           \/ res \in Negative
           \/ res = "ticket_accepted" /\ KeyOf(t)[1] = "8xbet"
  PROVE  JunLegs'
<1> DEFINE a == Subject(t)
           k == KeyOf(t)
<1>1. /\ attempt \in [Actions -> [Keys -> AttemptState]] /\ a \in Actions
      /\ k[1] \in {"jun88", "8xbet"} /\ k[2] \in 1 .. MaxCommits /\ k = <<k[1], k[2]>>
  <2>1. attempt \in [Actions -> [Keys -> AttemptState]] /\ a \in Actions
    BY InvOf DEF TypeOK
  <2>2. k \in Bookmakers \X (1 .. MaxCommits)
    BY DEF Keys
  <2> HIDE DEF k
  <2>3. k[1] \in {"jun88", "8xbet"} /\ k[2] \in 1 .. MaxCommits /\ k = <<k[1], k[2]>>
    BY <2>2 DEF Bookmakers
  <2>4. QED
    BY <2>1, <2>3
<1>2. /\ attempt'[a][k] = [st |-> st, res |-> res]
      /\ \A j \in Keys : j # k => attempt'[a][j] = attempt[a][j]
      /\ \A b \in Actions : b # a => attempt'[b] = attempt[b]
  BY <1>1
<1> HIDE DEF a, k
<1>3. ASSUME NEW b \in Actions
      PROVE  JunLegOf(action[b].st, attempt'[b], expo[b])
  <2>1. JunLegOf(action[b].st, attempt[b], expo[b])
    BY DEF JunLegs
  <2>2. CASE b # a
    BY <1>2, <2>1, <2>2
  <2>3. CASE b = a
    <3>1. ASSUME NEW j \in Keys, attempt'[a][j].st = "response_received"
          PROVE  attempt'[a][j].res \in Negative \cup {"ticket_accepted"}
      BY <1>2, <2>1, <2>3, <3>1 DEF JunLegOf, k
    <3>2. ASSUME NEW n \in 1 .. MaxCommits
          PROVE  /\ <<"jun88", n>> \in Keys
                 /\ /\ attempt'[a][<<"jun88", n>>].st = "response_received"
                    /\ attempt'[a][<<"jun88", n>>].res = "ticket_accepted"
                    => attempt'[a][<<"jun88", n>>] = attempt[a][<<"jun88", n>>]
      <4>1. <<"jun88", n>> \in Keys
        BY DEF Keys, Bookmakers
      <4>2. CASE <<"jun88", n>> = k
        <5>1. k[1] # "8xbet"
          BY <4>2
        <5>2. QED
          BY <1>2, <4>1, <4>2, <5>1 DEF Negative, k
      <4>3. CASE <<"jun88", n>> # k
        BY <1>2, <4>1, <4>3
      <4>4. QED
        BY <4>2, <4>3, <4>1
    <3>3. ASSUME action[a].st \in GivenUp, NEW n \in 1 .. MaxCommits
          PROVE  ~Waiting(attempt'[a], n)
      <4>1. <<"jun88", n>> \in Keys /\ <<"jun88", n>> # k
        BY <3>3 DEF Keys, Bookmakers, a, k
      <4>2. attempt'[a][<<"jun88", n>>] = attempt[a][<<"jun88", n>>]
        BY <1>2, <4>1
      <4>3. QED
        BY <2>1, <2>3, <3>3, <4>2 DEF JunLegOf, NoneWaiting, Waiting
    <3>4. QED
      BY <2>1, <2>3, <3>1, <3>2, <3>3 DEF JunLegOf, NoneWaiting
  <2>4. QED
    BY <2>2, <2>3
<1>4. QED
  BY <1>3 DEF JunLegs

(* The same for a thread that saves its attempt if nobody else has.        *)
LEMMA SavedLegs ==
  ASSUME SafetyInv, JunLegs, NEW t \in Threads, NEW st, NEW res, NEW p, NEW q,
         SaveAttempt(t, st, res, p, q), KeyOf(t) \in Keys, UNCHANGED <<action, expo>>,
         thr[t].pc \in AttemptPoints \/ KeyOf(t)[1] = "8xbet",
         st = "response_received" =>
           \/ res \in Negative
           \/ res = "ticket_accepted" /\ KeyOf(t)[1] = "8xbet"
  PROVE  JunLegs'
<1>1. CASE thr[t].attStale
  <2>1. UNCHANGED attempt
    BY <1>1 DEF SaveAttempt
  <2>2. QED
    BY <2>1, SameLegs
<1>2. CASE ~thr[t].attStale
  <2>1. attempt' = [attempt EXCEPT ![Subject(t)][KeyOf(t)] = [st |-> st, res |-> res]]
    BY <1>2 DEF SaveAttempt
  <2>2. ASSUME KeyOf(t)[1] = "jun88"
        PROVE  action[Subject(t)].st \notin GivenUp
    <3>1. Waiting(attempt[Subject(t)], KeyOf(t)[2]) /\ KeyOf(t)[2] \in 1 .. MaxCommits
      BY <1>2, <2>2, KnownWaiting DEF Keys
    <3>2. JunLegOf(action[Subject(t)].st, attempt[Subject(t)], expo[Subject(t)])
      BY ThreadFacts DEF JunLegs
    <3>3. QED
      BY <3>1, <3>2 DEF JunLegOf, NoneWaiting
  <2>3. QED
    BY <2>1, <2>2, AttemptLegs
<1>3. QED
  BY <1>1, <1>2

(* A Jun88 ticket is saved with its exposure.                              *)
LEMMA TicketLegs ==
  ASSUME SafetyInv, JunLegs, NEW t \in Threads, NEW self, CommitJun88Ticket(t, self),
         thr[t].pc \in TicketPoints
  PROVE  JunLegs'
<1> DEFINE a == Subject(t)
           k == KeyOf(t)
<1>1. CASE UNCHANGED rows
  BY <1>1, SameLegs DEF rows
<1>2. CASE /\ expo[a].st = "none"
           /\ action' = [action EXCEPT ![a] = [@ EXCEPT !.st = "jun88_ticket_received",
                                                       !.link = "own"]]
           /\ attempt' = [attempt EXCEPT ![a][k] =
                            [st |-> "response_received", res |-> "ticket_accepted"]]
           /\ expo' = [expo EXCEPT ![a] = [st |-> "exposure_open", leased |-> FALSE,
                                           jun |-> k[2], hedge |-> 0]]
  <2>1. k \in Keys /\ k[1] = "jun88"
    BY InvOf, SavesItsKey DEF Fits, KnowsTicket, KeyOf
  <2>2. /\ attempt \in [Actions -> [Keys -> AttemptState]] /\ a \in Actions
        /\ action \in [Actions -> ActionState] /\ expo \in [Actions -> ExposureState]
    BY InvOf DEF TypeOK
  <2>3. k[2] \in 1 .. MaxCommits /\ k = <<"jun88", k[2]>>
    BY <2>1 DEF Keys
  <2> HIDE DEF k, a
  <2>4. /\ attempt'[a][k] = [st |-> "response_received", res |-> "ticket_accepted"]
        /\ \A j \in Keys : j # k => attempt'[a][j] = attempt[a][j]
        /\ \A b \in Actions : b # a => attempt'[b] = attempt[b] /\ action'[b] = action[b] /\ expo'[b] = expo[b]
        /\ expo'[a].st = "exposure_open" /\ expo'[a].jun = k[2]
    BY <1>2, <2>1, <2>2
  <2>5. action'[a].st = "jun88_ticket_received"
    BY <1>2, <2>2 DEF ActionState
  <2>6. ASSUME NEW b \in Actions
        PROVE  JunLegOf(action'[b].st, attempt'[b], expo'[b])
    <3>1. JunLegOf(action[b].st, attempt[b], expo[b])
      BY DEF JunLegs
    <3>2. CASE b # a
      BY <2>4, <3>1, <3>2
    <3>3. CASE b = a
      <4>1. ASSUME NEW j \in Keys, attempt'[a][j].st = "response_received"
            PROVE  attempt'[a][j].res \in Negative \cup {"ticket_accepted"}
        BY <2>4, <3>1, <3>3, <4>1 DEF JunLegOf
      <4>2. ASSUME NEW n \in 1 .. MaxCommits,
                   attempt'[a][<<"jun88", n>>].st = "response_received",
                   attempt'[a][<<"jun88", n>>].res = "ticket_accepted"
            PROVE  expo'[a].jun = n
        <5>1. <<"jun88", n>> \in Keys
          BY DEF Keys, Bookmakers
        <5>2. CASE <<"jun88", n>> = k
          BY <2>3, <2>4, <5>2
        <5>3. CASE <<"jun88", n>> # k
          BY <1>2, <2>4, <3>1, <3>3, <4>2, <5>1, <5>3 DEF JunLegOf
        <5>4. QED
          BY <5>2, <5>3
      <4>3. expo'[a].st # "none" /\ action'[a].st \notin GivenUp
        BY <2>4, <2>5 DEF GivenUp
      <4>4. QED
        BY <3>3, <4>1, <4>2, <4>3 DEF JunLegOf
    <3>4. QED
      BY <3>2, <3>3
  <2>7. QED
    BY <2>6 DEF JunLegs
<1>3. QED
  BY <1>1, <1>2 DEF CommitJun88Ticket

(* The executor.                                                           *)
LEMMA ExecutorLegs ==
  ASSUME SafetyInv, JunLegs, NEW t \in Threads, ExecutorStep(t)
  PROVE  JunLegs'
<1>1. thr[t].lag = 0 /\ thr[t].pc \in {"reserve", "prepare", "dry_run", "jun_renew", "jun_reallocate", "abort"} =>
        expo[Subject(t)].st = "none" /\ NoneWaiting(attempt[Subject(t)])
  <2>1. /\ action[Subject(t)].st \in Uncommitted =>
             expo[Subject(t)].st = "none" /\ NoneWaiting(attempt[Subject(t)])
        /\ expo[Subject(t)].st # "none" => action[Subject(t)].st \in Exposed
    BY InvOf DEF RowsOf
  <2>2. "placing_jun88" \notin Exposed
    BY StatusFacts
  <2>3. QED
    BY <2>1, <2>2, ExecutorKnows DEF Uncommitted
<1>2. CASE CreateAction(t)
  <2>1. action \in [Actions -> ActionState] /\ Subject(t) \in Actions
    BY InvOf DEF TypeOK
  <2>2. /\ action'[Subject(t)].st = "selecting"
        /\ \A b \in Actions \ {Subject(t)} : action'[b] = action[b]
        /\ UNCHANGED <<attempt, expo>>
    BY <1>2, <2>1 DEF CreateAction, NoAction
  <2>3. QED
    BY <2>2, ActionLegs DEF GivenUp
<1>3. CASE ReserveAccount(t) \/ JunRenew(t)
  <2>1. UNCHANGED <<attempt, expo>>
    BY <1>3 DEF ReserveAccount, JunRenew
  <2>2. \/ action' = Reserved(Subject(t))
        \/ /\ TransitionAction(t, "aborted_no_exposure", "release")
           /\ thr[t].pc \in {"reserve", "jun_renew"}
    BY <1>3 DEF ReserveAccount, JunRenew, Reserve, At
  <2>3. QED
    BY <1>1, <2>1, <2>2, ReservingLegs, TransitionLegs
<1>4. CASE PrepareBoth(t) \/ DryRun(t) \/ JunStart(t) \/ JunChanged(t) \/ JunUnknown(t) \/ Abort(t)
  <2>1. UNCHANGED <<attempt, expo>>
    BY <1>4 DEF PrepareBoth, DryRun, JunStart, JunChanged, JunUnknown, Abort
  <2>2. PICK to, p : /\ TransitionAction(t, to, p)
                     /\ to \in GivenUp => thr[t].pc \in {"prepare", "dry_run", "abort"}
    BY <1>4 DEF PrepareBoth, DryRun, JunStart, JunChanged, JunUnknown, Abort, At, GivenUp
  <2>3. QED
    BY <1>1, <2>1, <2>2, TransitionLegs
<1>5. CASE JunReallocate(t)
  <2>1. UNCHANGED <<attempt, expo>> /\ thr[t].pc = "jun_reallocate"
    BY <1>5 DEF JunReallocate, At
  <2>2. \/ TransitionAction(t, "aborted_no_exposure", "release")
        \/ CanMoveAction(t, "ready") /\ action' = Moved(t, "ready")
    BY <1>5 DEF JunReallocate
  <2>3. QED
    BY <1>1, <2>1, <2>2, TransitionLegs, MovedLegs
<1>6. CASE JunAccepted(t) \/ JunOddsChanged(t) \/ JunRejected(t)
  <2>1. KeyOf(t) \in Keys /\ thr[t].pc \in AttemptPoints /\ UNCHANGED <<action, expo>>
    BY <1>6, InvOf, SavesItsKey
       DEF JunAccepted, JunOddsChanged, JunRejected, At, CommitPoints, AttemptPoints
  <2>2. \/ UNCHANGED attempt
        \/ \E p : SaveAttempt(t, "awaiting_reconcile", "submission_unknown", p, "jun_unknown")
        \/ \E p : SaveAttempt(t, "response_received", "odds_changed", p, "jun_unknown")
        \/ \E p : SaveAttempt(t, "response_received", "rejected", p, "jun_unknown")
    BY <1>6 DEF JunAccepted, JunOddsChanged, JunRejected
  <2>3. CASE UNCHANGED attempt
    BY <2>1, <2>3, SameLegs
  <2>4. CASE \E p : SaveAttempt(t, "awaiting_reconcile", "submission_unknown", p, "jun_unknown")
    BY <2>1, <2>4, SavedLegs
  <2>5. CASE \E p : SaveAttempt(t, "response_received", "odds_changed", p, "jun_unknown")
    BY <2>1, <2>5, SavedLegs DEF Negative
  <2>6. CASE \E p : SaveAttempt(t, "response_received", "rejected", p, "jun_unknown")
    BY <2>1, <2>6, SavedLegs DEF Negative
  <2>7. QED
    BY <2>2, <2>3, <2>4, <2>5, <2>6
<1>7. CASE JunTicket(t)
  BY <1>7, TicketLegs DEF JunTicket, At, TicketPoints
<1>8. CASE Release(t)
  <2>1. action \in [Actions -> ActionState] /\ UNCHANGED <<attempt, expo>>
    BY <1>8, InvOf DEF Release, TypeOK
  <2>2. \A a \in Actions : action'[a].st = action[a].st
    BY <1>8, <2>1, InvOf DEF Release, ActionState
  <2>3. QED
    BY <2>1, <2>2, SameLegs
<1>9. QED
  BY <1>2, <1>3, <1>4, <1>5, <1>6, <1>7, <1>8 DEF ExecutorStep

(* A commit until its answer.                                              *)
LEMMA CommitLegs ==
  ASSUME SafetyInv, JunLegs, NEW t \in Threads, AttemptStep(t)
  PROVE  JunLegs'
<1>1. UNCHANGED <<action, expo>>
  BY DEF AttemptStep, NewAttempt, MarkStarted, SendCommit, SendRefused, CommitTimeout,
     CommitUnknown, rows
<1>2. KeyOf(t) \in Keys /\ KeyOf(t) = thr[t].key /\ thr[t].pc \in {"new", "mark", "send", "wait"}
  <2>1. thr[t].pc \in {"new", "mark", "send", "wait"}
    BY DEF AttemptStep, NewAttempt, MarkStarted, SendCommit, SendRefused, CommitTimeout,
       CommitUnknown, At
  <2>2. QED
    BY <2>1, InvOf, SavesItsKey DEF CommitPoints, KeyOf
<1>3. CASE NewAttempt(t)
  <2>1. CASE UNCHANGED attempt
    BY <1>1, <2>1, SameLegs
  <2>2. CASE attempt' = [attempt EXCEPT ![Subject(t)][KeyOf(t)] =
                           [st |-> "before_send", res |-> "none"]]
    <3>1. thr[t].pc = "new"
      BY <1>3 DEF NewAttempt, At
    <3>2. KeyOf(t)[1] = "jun88" => action[Subject(t)].st \notin GivenUp
      BY <1>2, <3>1, AboutToCommit DEF GivenUp
    <3>3. QED
      BY <1>1, <1>2, <2>2, <3>2, AttemptLegs
  <2>3. QED
    BY <1>3, <2>1, <2>2 DEF NewAttempt
<1>4. CASE SendCommit(t)
  BY <1>1, <1>4, SameLegs DEF SendCommit, rows
<1>5. CASE MarkStarted(t) \/ SendRefused(t) \/ CommitTimeout(t) \/ CommitUnknown(t)
  <2>1. thr[t].pc \in AttemptPoints
    BY <1>5 DEF MarkStarted, SendRefused, CommitTimeout, CommitUnknown, At, AttemptPoints
  <2>2. \/ \E p, q : SaveAttempt(t, "submit_started", "none", p, q)
        \/ \E p, q : SaveAttempt(t, "response_received", "rejected", p, q)
        \/ \E p, q : SaveAttempt(t, "awaiting_reconcile", "submission_unknown", p, q)
    BY <1>5 DEF MarkStarted, SendRefused, CommitTimeout, CommitUnknown
  <2>3. CASE \E p, q : SaveAttempt(t, "submit_started", "none", p, q)
    BY <1>1, <1>2, <2>1, <2>3, SavedLegs
  <2>4. CASE \E p, q : SaveAttempt(t, "response_received", "rejected", p, q)
    BY <1>1, <1>2, <2>1, <2>4, SavedLegs DEF Negative
  <2>5. CASE \E p, q : SaveAttempt(t, "awaiting_reconcile", "submission_unknown", p, q)
    BY <1>1, <1>2, <2>1, <2>5, SavedLegs
  <2>6. QED
    BY <2>2, <2>3, <2>4, <2>5
<1>6. QED
  BY <1>3, <1>4, <1>5 DEF AttemptStep

(* The hedge.                                                              *)
LEMMA HedgeLegs ==
  ASSUME SafetyInv, JunLegs, NEW t \in Threads, HedgeStep(t)
  PROVE  JunLegs'
<1>1. CASE Evaluate(t) \/ Hedging(t) \/ HedgeChanged(t) \/ HedgeRejected(t) \/ OpenExposureRow(t)
           \/ HedgeUnknown(t)
  <2>1. UNCHANGED <<action, attempt>>
    BY <1>1 DEF Evaluate, Hedging, HedgeChanged, HedgeRejected, OpenExposureRow, HedgeUnknown
  <2>2. \E to \in {"hedging", "exposure_open", "submission_unknown"} : \E p :
          TransitionExposure(t, to, p) \/ SaveExposure(t, p)
    BY <1>1 DEF Evaluate, Hedging, HedgeChanged, HedgeRejected, OpenExposureRow, HedgeUnknown
  <2>3. QED
    BY <2>1, <2>2, ExposureTransitionLegs
<1>2. CASE Placing(t) \/ Complete(t) \/ HedgeUnknownAction(t)
  <2>1. UNCHANGED <<attempt, expo>>
    BY <1>2 DEF Placing, Complete, HedgeUnknownAction
  <2>2. \E to \in {"placing_8xbet", "completed", "submission_unknown"} : \E p : TransitionAction(t, to, p)
    BY <1>2 DEF Placing, Complete, HedgeUnknownAction
  <2>3. QED
    BY <2>1, <2>2, TransitionLegs DEF GivenUp
<1>3. CASE HedgeRenew(t)
  <2>1. CASE Reserve(t, "new") /\ UNCHANGED expo
    BY <1>3, <2>1, ReservingLegs DEF HedgeRenew, Reserve
  <2>2. CASE UNCHANGED action
    <3>1. expo[Subject(t)].st # "none"
      BY <1>3, InvOf DEF HedgeRenew, At, Fits, KnowsKey, KeyedPoints, HedgePoints, Subject
    <3>2. \/ UNCHANGED expo
          \/ UNCHANGED action /\ expo' = [expo EXCEPT ![Subject(t)].st = "exposure_open"]
      BY <1>3, <2>2 DEF HedgeRenew
    <3>3. UNCHANGED attempt
      BY <1>3 DEF HedgeRenew
    <3>4. QED
      BY <2>2, <3>1, <3>2, <3>3, ExposureMovedLegs
  <2>3. QED
    BY <1>3, <2>1, <2>2 DEF HedgeRenew
<1>4. CASE HedgeAnswered(t)
  <2>1. KeyOf(t) \in Keys /\ KeyOf(t)[1] = "8xbet" /\ UNCHANGED <<action, expo>>
    BY <1>4, InvOf, SavesItsKey DEF HedgeAnswered, At, CommitPoints
  <2>2. thr[t].rsp \in Negative \/ thr[t].rsp = "ticket_accepted"
    BY <1>4 DEF HedgeAnswered, Negative
  <2>3. PICK p, q : SaveAttempt(t, "response_received", thr[t].rsp, p, q)
    BY <1>4 DEF HedgeAnswered
  <2>4. QED
    BY <2>1, <2>2, <2>3, SavedLegs
<1>5. CASE HedgeDone(t)
  <2>1. UNCHANGED <<action, attempt>>
    BY <1>5 DEF HedgeDone
  <2>2. \/ UNCHANGED expo
        \/ expo[Subject(t)].st # "none" /\ expo' = Completed(t)
    BY <1>5, ExposureMovesFacts DEF HedgeDone, CanMoveExposure
  <2>3. QED
    BY <2>1, <2>2, ExposureMovedLegs
<1>6. CASE HedgeReprice(t)
  BY <1>6, MovedLegs DEF HedgeReprice, GivenUp
<1>7. CASE OpenAction(t)
  <2>1. UNCHANGED <<attempt, expo>>
    BY <1>7 DEF OpenAction
  <2>2. CASE TransitionAction(t, "exposure_open", "return")
    BY <2>1, <2>2, TransitionLegs DEF GivenUp
  <2>3. CASE /\ action[Subject(t)].st = "exposure_open"
             /\ action' = Moved(t, "exposure_open") \/ UNCHANGED action
    <3>1. action \in [Actions -> ActionState] /\ Subject(t) \in Actions
      BY InvOf DEF TypeOK
    <3>2. \A a \in Actions : action'[a].st = action[a].st
      BY <2>3, <3>1 DEF Moved, ActionState
    <3>3. QED
      BY <2>1, <3>2, SameLegs
  <2>4. QED
    BY <1>7, <2>2, <2>3 DEF OpenAction
<1>8. CASE HedgeUnknownAttempt(t)
  <2>1. KeyOf(t) \in Keys /\ KeyOf(t)[1] = "8xbet" /\ UNCHANGED <<action, expo>>
    <3>1. KeyOf(t) \in Keys
      BY <1>8, InvOf, SavesItsKey DEF HedgeUnknownAttempt, At
    <3>2. QED
      BY <1>8, <3>1, InvOf DEF HedgeUnknownAttempt, At, Fits, KnowsKey, HedgePoints, KeyOf
  <2>2. SaveAttempt(t, "awaiting_reconcile", "submission_unknown", "hedge_unknown", "return")
    BY <1>8 DEF HedgeUnknownAttempt
  <2>3. QED
    BY <2>1, <2>2, SavedLegs
<1>9. QED
  BY <1>1, <1>2, <1>3, <1>4, <1>5, <1>6, <1>7, <1>8 DEF HedgeStep

(* The matcher.                                                            *)
LEMMA MatcherLegs ==
  ASSUME SafetyInv, JunLegs, NEW t \in Threads, MatcherStep(t)
  PROVE  JunLegs'
<1>1. CASE HedgeLease(t) \/ Unlease(t)
  <2>1. expo \in [Actions -> ExposureState] /\ Subject(t) \in Actions
    BY InvOf DEF TypeOK
  <2>2. UNCHANGED <<action, attempt>>
    BY <1>1 DEF HedgeLease, Unlease
  <2>3. \/ UNCHANGED expo
        \/ \E b \in BOOLEAN : expo' = [expo EXCEPT ![Subject(t)].leased = b]
    BY <1>1 DEF HedgeLease, Unlease
  <2>4. \A a \in Actions : expo'[a].st = expo[a].st /\ expo'[a].jun = expo[a].jun
    BY <2>1, <2>3 DEF ExposureState
  <2>5. QED
    BY <2>2, <2>4, ExposureLegs
<1>2. CASE HedgeMatch(t) \/ HedgePrepare(t)
  BY <1>2, SameLegs DEF HedgeMatch, HedgePrepare, rows
<1>3. CASE HedgeReserve(t)
  BY <1>3, ReservingLegs DEF HedgeReserve, Reserve
<1>4. CASE CloseExposure(t)
  BY <1>4, ExposureTransitionLegs DEF CloseExposure
<1>5. CASE CloseAction(t)
  BY <1>5, TransitionLegs DEF CloseAction, GivenUp
<1>6. QED
  BY <1>1, <1>2, <1>3, <1>4, <1>5 DEF MatcherStep

(* Reconciliation.                                                         *)
LEMMA ReconcileLegs ==
  ASSUME SafetyInv, JunLegs, NEW t \in Threads, ReconcileStep(t)
  PROVE  JunLegs'
<1>1. CASE PickAttempt(t) \/ SendReconcile(t) \/ ReconcileUnanswered(t) \/ ReconcileTicket(t)
           \/ ReconcileRead(t)
  BY <1>1, SameLegs DEF PickAttempt, SendReconcile, ReconcileUnanswered, ReconcileTicket,
     ReconcileRead, rows
<1>2. CASE ReconcileNoTicket(t)
  <2>1. KeyOf(t) \in Keys /\ thr[t].pc \in AttemptPoints /\ UNCHANGED <<action, expo>>
    BY <1>2, InvOf, SavesItsKey DEF ReconcileNoTicket, At, ReconcilePoints, AttemptPoints
  <2>2. PICK p, q : SaveAttempt(t, "response_received", thr[t].rsp, p, q)
    BY <1>2 DEF ReconcileNoTicket
  <2>3. thr[t].rsp \in Negative
    BY <1>2 DEF ReconcileNoTicket, Negative
  <2>4. QED
    BY <2>1, <2>2, <2>3, SavedLegs
<1>3. CASE ReconcileJun(t)
  BY <1>3, TicketLegs DEF ReconcileJun, At, TicketPoints
<1>4. CASE ReconcileJunOpen(t)
  BY <1>4, TransitionLegs DEF ReconcileJunOpen, GivenUp
<1>5. CASE ReconcileHedge(t)
  <2>1. KeyOf(t) \in Keys /\ KeyOf(t)[1] = "8xbet" /\ UNCHANGED <<action, expo>>
    <3>1. KeyOf(t) \in Keys
      BY <1>5, InvOf, SavesItsKey DEF ReconcileHedge, At, ReconcilePoints
    <3>2. QED
      BY <1>5, <3>1, InvOf DEF ReconcileHedge, At, Sees, HoldsTicket, CompletionPoints, KeyOf
  <2>2. PICK p, q : SaveAttempt(t, "response_received", "ticket_accepted", p, q)
    BY <1>5 DEF ReconcileHedge
  <2>3. QED
    BY <2>1, <2>2, SavedLegs
<1>6. CASE ReconcileComplete(t)
  <2>1. UNCHANGED <<action, attempt>>
    BY <1>6 DEF ReconcileComplete
  <2>2. UNCHANGED expo \/ (expo[Subject(t)].st # "none" /\ expo' = Completed(t))
    BY <1>6 DEF ReconcileComplete
  <2>3. QED
    BY <2>1, <2>2, ExposureMovedLegs
<1>7. CASE ReconcileReopen(t)
  BY <1>7, ExposureTransitionLegs DEF ReconcileReopen
<1>8. QED
  BY <1>1, <1>2, <1>3, <1>4, <1>5, <1>6, <1>7 DEF ReconcileStep

(* The operator.                                                           *)
LEMMA OperatorLegs ==
  ASSUME SafetyInv, JunLegs, NEW t \in Threads, OperatorStep(t)
  PROVE  JunLegs'
<1>1. CASE OperatorReview(t) \/ ReopenExposure(t)
  BY <1>1, ExposureTransitionLegs DEF OperatorReview, ReopenExposure
<1>2. CASE OperatorReopen(t) \/ OperatorClose(t) \/ OperatorTicket(t) \/ OperatorRefused(t)
  BY <1>2, SameLegs DEF OperatorReopen, OperatorClose, OperatorTicket, OperatorRefused, rows
<1>3. CASE EvidenceAttempt(t)
  <2>1. KeyOf(t) \in Keys /\ KeyOf(t)[1] = "8xbet" /\ UNCHANGED <<action, expo>>
    <3>1. KeyOf(t) \in Keys
      BY <1>3, InvOf, SavesItsKey DEF EvidenceAttempt, At, EvidencePoints
    <3>2. QED
      BY <1>3, <3>1, InvOf DEF EvidenceAttempt, At, Fits, KnowsKey, EvidencePoints, KeyOf
  <2>2. SaveAttempt(t, "response_received", "ticket_accepted", "evidence_exposure", "return")
    BY <1>3 DEF EvidenceAttempt
  <2>3. QED
    BY <2>1, <2>2, SavedLegs
<1>4. CASE EvidenceExposure(t)
  <2>1. expo[Subject(t)].st # "none"
    BY <1>4, InvOf DEF EvidenceExposure, At, Fits, KnowsKey, EvidencePoints, KeyedPoints, Subject
  <2>2. UNCHANGED <<action, attempt>> /\ (UNCHANGED expo \/ expo' = Completed(t))
    BY <1>4 DEF EvidenceExposure
  <2>3. QED
    BY <2>1, <2>2, ExposureMovedLegs
<1>5. QED
  BY <1>1, <1>2, <1>3, <1>4 DEF OperatorStep

(* Every step.                                                             *)
LEMMA LegsKept ==
  ASSUME SafetyInv, JunLegs, [Next]_vars
  PROVE  JunLegs'
<1>1. ASSUME NEW t \in Threads, ThreadStep(t)
      PROVE  JunLegs'
  BY <1>1, ExecutorLegs, CommitLegs, HedgeLegs, MatcherLegs, ReconcileLegs, OperatorLegs
     DEF ThreadStep
<1>2. CASE \/ UNCHANGED vars \/ ListPending
           \/ \E a \in Actions : Arrival(a)
           \/ \E bm \in Bookmakers : CollectorStep(bm) \/ CollectorRestarts(bm)
           \/ \E t \in Threads : ThreadFails(t) \/ MarkFails(t)
  <2>1. UNCHANGED <<action, attempt, expo>>
    BY <1>2 DEF vars, ListPending, Arrival, Gate, HedgeList, ReconcileManually, OperatorReads,
       CollectorStep, HandleCommit, HandleReconcile, DropExpired, CollectorRestarts, ThreadFails,
       MarkFails, rows
  <2>2. QED
    BY <2>1, SameLegs
<1>3. ASSUME NEW a \in Actions, LeaseExpires(a)
      PROVE  JunLegs'
  <2>1. action \in [Actions -> ActionState] /\ expo \in [Actions -> ExposureState]
    BY DEF SafetyInv, IInv, TypeOK
  <2>2. UNCHANGED attempt
    BY <1>3 DEF LeaseExpires
  <2>3. CASE UNCHANGED expo /\ action' = [action EXCEPT ![a].held = FALSE]
    <3>1. \A b \in Actions : action'[b].st = action[b].st
      BY <2>1, <2>3 DEF ActionState
    <3>2. QED
      BY <2>2, <2>3, <3>1, SameLegs
  <2>4. CASE UNCHANGED action /\ expo' = [expo EXCEPT ![a].leased = FALSE]
    <3>1. \A b \in Actions : expo'[b].st = expo[b].st /\ expo'[b].jun = expo[b].jun
      BY <2>1, <2>4 DEF ExposureState
    <3>2. QED
      BY <2>2, <2>4, <3>1, ExposureLegs
  <2>5. QED
    BY <1>3, <2>3, <2>4 DEF LeaseExpires
<1>4. CASE BackendCrashes
  <2>1. action \in [Actions -> ActionState]
    BY DEF SafetyInv, IInv, TypeOK
  <2>2. \A b \in Actions : action'[b].st = action[b].st
    BY <1>4, <2>1 DEF BackendCrashes, ActionState
  <2>3. QED
    BY <1>4, <2>2, SameLegs DEF BackendCrashes
<1>5. QED
  BY <1>1, <1>2, <1>3, <1>4 DEF Next, Fault

-----------------------------------------------------------------------------
(* The results, on a reliable wire                                         *)

(* What is said of commits and Jun88 legs holds in every state reached.    *)
THEOREM TicketsHold ==
  ASSUME ReliableWire
  PROVE  Spec => []TicketInv
<1>1. Init => TicketInv
  <2> SUFFICES ASSUME Init PROVE TicketInv
    OBVIOUS
  <2>1. JunLegs
    <3>1. ASSUME NEW a \in Actions
          PROVE  JunLegOf(action[a].st, attempt[a], expo[a])
      <4>1. /\ action[a].st = "none"
            /\ \A k \in Keys : attempt[a][k].st = "none"
            /\ \A n \in 1 .. MaxCommits : <<"jun88", n>> \in Keys
        BY DEF Init, NoAction, NoAttempt, Keys, Bookmakers
      <4>2. QED
        BY <4>1 DEF JunLegOf, GivenUp
    <3>2. QED
      BY <3>1 DEF JunLegs
  <2>2. QED
    BY <2>1, InitCommits DEF TicketInv
<1>2. SafetyInv /\ SafetyInv' /\ TicketInv /\ [Next]_vars => TicketInv'
  BY CommitsKept, LegsKept DEF TicketInv, SafetyInv
<1>3. QED
  BY <1>1, <1>2, SafetyHolds, PTL DEF Spec

(* An action given up without exposure has no Jun88 ticket, and none can   *)
(* arrive any more: every commit of it was refused for good.               *)
THEOREM AbortedActionsAreEmpty ==
  ASSUME ReliableWire
  PROVE  Spec => []AbortedIsEmpty
<1>1. IInv /\ TicketInv => AbortedIsEmpty
  <2> SUFFICES ASSUME IInv, TicketInv, NEW a \in Actions, action[a].st = "aborted_no_exposure"
               PROVE  TicketsOf(a, "jun88") = {} /\ ~InFlight(a, "jun88")
    BY DEF AbortedIsEmpty
  <2>1. ASSUME NEW n \in 1 .. MaxCommits
        PROVE  LET k == <<"jun88", n>> IN
               /\ k \in Keys
               /\ ~Sending(thr, a, k) /\ ~Queued(inbox["jun88"], a, k) /\ TicketAt(a, k) \notin tickets
    <3> DEFINE k == <<"jun88", n>>
    <3>1. k \in Keys /\ k[1] = "jun88"
      BY DEF Keys, Bookmakers
    <3>2. JunLegOf(action[a].st, attempt[a], expo[a])
      BY DEF TicketInv, JunLegs
    <3>3. CommitOf(a, k, attempt[a][k], thr, inbox["jun88"], journal, tickets)
      BY <3>1 DEF TicketInv, CommitInv, CommitsFit
    <3>4. /\ attempt[a][k].st \in {"none", "response_received"}
          /\ attempt[a][k].st = "response_received" => attempt[a][k].res \in Negative
      <4>1. attempt[a][k].st \in AttemptStatus \cup {"none"}
        BY <3>1 DEF IInv, TypeOK, AttemptState
      <4>2. attempt[a][k].st \notin Unsettled /\ expo[a].st = "none"
        BY <3>2 DEF JunLegOf, NoneWaiting, Waiting, GivenUp
      <4>3. QED
        BY <3>1, <3>2, <4>1, <4>2 DEF JunLegOf, Unsettled
    <3>5. CASE attempt[a][k].st = "response_received"
      BY <3>1, <3>3, <3>4, <3>5 DEF CommitOf, Hopeless
    <3>6. CASE attempt[a][k].st = "none"
      <4>1. journal[<<a, k>>] = "none" /\ ~Queued(inbox["jun88"], a, k) /\ TicketAt(a, k) \notin tickets
        BY <3>3, <3>6 DEF CommitOf
      <4>2. ~Sending(thr, a, k)
        BY <3>6 DEF Sending, TicketInv, CommitInv, ThreadsCommit, KnowsCommit
      <4>3. QED
        BY <3>1, <4>1, <4>2
    <3>7. QED
      BY <3>4, <3>5, <3>6
  <2>2. TicketsOf(a, "jun88") = {}
    BY <2>1 DEF TicketsOf, TicketAt
  <2>3. ASSUME NEW t \in Threads, Subject(t) = a, At(t, "send"), KeyOf(t)[1] = "jun88"
        PROVE  FALSE
    <3>1. KeyOf(t) \in Keys
      BY <2>3, SavesItsKey DEF At, CommitPoints
    <3>2. PICK n \in 1 .. MaxCommits : KeyOf(t) = <<"jun88", n>>
      BY <2>3, <3>1 DEF Keys
    <3>3. QED
      BY <2>1, <2>3, <3>2 DEF Sending, At, KeyOf
  <2>4. ASSUME NEW i \in DOMAIN inbox["jun88"], inbox["jun88"][i].kind = "commit",
               inbox["jun88"][i].key[1] = a
        PROVE  FALSE
    <3>1. "jun88" \in Bookmakers
      BY DEF Bookmakers
    <3>2. inbox["jun88"][i] \in Message /\ inbox["jun88"][i].key[2][1] = "jun88"
      BY <3>1, QueueElements DEF IInv, QueuesFit, CommandFits
    <3>3. PICK n \in 1 .. MaxCommits : inbox["jun88"][i].key = <<a, <<"jun88", n>>>>
      BY <2>4, <3>2 DEF Message, Keys
    <3>4. QED
      BY <2>1, <2>4, <3>3 DEF Queued
  <2>5. QED
    BY <2>2, <2>3, <2>4 DEF InFlight
<1>2. QED
  BY <1>1, TicketsHold, InvariantHolds, PTL

(* A bookmaker that has a Jun88 ticket of an action has no other: no       *)
(* reprice sends a second commit while the first may still be accepted.    *)
THEOREM JunTicketIsTheOnlyOne ==
  ASSUME ReliableWire
  PROVE  Spec => []OneJunTicket
<1>1. SafetyInv /\ TicketInv => OneJunTicket
  <2> SUFFICES ASSUME SafetyInv, TicketInv, NEW a \in Actions
               PROVE  Cardinality(TicketsOf(a, "jun88")) <= 1
    BY DEF OneJunTicket
  <2>1. ASSUME NEW n \in TicketsOf(a, "jun88")
        PROVE  /\ n \in 1 .. MaxCommits
               /\ \/ Waiting(attempt[a], n)
                  \/ expo[a].st # "none" /\ expo[a].jun = n
    <3> DEFINE k == <<"jun88", n>>
    <3>1. n \in 1 .. MaxCommits /\ TicketAt(a, k) \in tickets
      BY DEF TicketsOf, TicketAt
    <3>2. k \in Keys /\ k[1] = "jun88"
      BY <3>1 DEF Keys, Bookmakers
    <3>3. CommitOf(a, k, attempt[a][k], thr, inbox["jun88"], journal, tickets)
      BY <3>2 DEF TicketInv, CommitInv, CommitsFit
    <3>4. JunLegOf(action[a].st, attempt[a], expo[a])
      BY DEF TicketInv, JunLegs
    <3>5. attempt[a][k].st \in AttemptStatus \cup {"none"}
      BY <3>2 DEF SafetyInv, IInv, TypeOK, AttemptState
    <3>6. attempt[a][k].st # "none"
      BY <3>1, <3>3 DEF CommitOf
    <3>7. CASE attempt[a][k].st = "response_received"
      BY <3>1, <3>2, <3>3, <3>4, <3>7 DEF CommitOf, Hopeless, JunLegOf
    <3>8. CASE attempt[a][k].st # "response_received"
      BY <3>1, <3>5, <3>6, <3>8 DEF Waiting, Unsettled
    <3>9. QED
      BY <3>1, <3>7, <3>8
  <2>2. RowsOf(a, action[a].st, attempt[a], expo[a], tickets)
    BY DEF SafetyInv, VerdictInv, RowsAgree
  <2>3. \A m, n \in TicketsOf(a, "jun88") : m = n
    BY <2>1, <2>2 DEF RowsOf, NoneWaiting
  <2>4. CASE TicketsOf(a, "jun88") = {}
    BY <2>4, FS_EmptySet
  <2>5. CASE TicketsOf(a, "jun88") # {}
    <3>1. PICK n : TicketsOf(a, "jun88") = {n}
      BY <2>3, <2>5
    <3>2. QED
      BY <3>1, FS_Singleton
  <2>6. QED
    BY <2>4, <2>5
<1>2. QED
  BY <1>1, TicketsHold, SafetyHolds, PTL

(* When commands keep their order and no collector restarts, both verdicts *)
(* are true, whichever of the executor, reconciliation and the operator    *)
(* gave them: what is shown for a finished action is what the bookmakers   *)
(* hold.                                                                   *)
THEOREM VerdictsMatchTheBooks ==
  ASSUME ReliableWire
  PROVE  Spec => []OutcomeMatchesTickets
<1>1. OutcomeMatchesTickets <=> CompletedHasBothTickets /\ AbortedIsEmpty
  BY DEF OutcomeMatchesTickets
<1>2. QED
  BY <1>1, CompletedActionsHaveTickets, AbortedActionsAreEmpty, PTL

-----------------------------------------------------------------------------
(* What a step of thread t leaves the other threads of its action.         *)

(* They get no younger, and a write they have not made makes them older.   *)
LEMMA OthersAge ==
  ASSUME TypeOK, NEW t \in Threads, NEW self, NEW written, Advance(t, self, written),
         NEW u \in Threads, u # t
  PROVE  /\ thr'[u].pc = thr[u].pc /\ thr'[u].key = thr[u].key
         /\ Subject(u) # Subject(t) => thr'[u] = thr[u]
         /\ ~thr'[u].expoStale => ~thr[u].expoStale
         /\ ~thr'[u].attStale => ~thr[u].attStale
         /\ thr'[u].lag = 0 => thr[u].lag = 0
         /\ thr'[u].lag <= 1 => thr[u].lag <= 1
         /\ Subject(u) = Subject(t) /\ thr[u].pc # "idle" =>
              /\ thr'[u].lag = 0 => ActionRow \notin written
              /\ thr'[u].lag <= 1 /\ ActionRow \in written => thr[u].lag = 0
              /\ ~thr'[u].expoStale => ExposureRow \notin written
              /\ ~thr'[u].attStale => thr[u].key \notin written
<1>1. thr[u] \in ThreadState
  BY DEF TypeOK
<1>2. CASE Subject(u) = Subject(t) /\ thr[u].pc # "idle"
  <2>. DEFINE r == thr[u]
              lag == IF ActionRow \in written /\ r.lag < 2 THEN r.lag + 1 ELSE r.lag
              es == IF ExposureRow \in written THEN TRUE ELSE r.expoStale
              as == IF r.key \in written THEN TRUE ELSE r.attStale
  <2>1. thr'[u] = [r EXCEPT !.lag = lag, !.expoStale = es, !.attStale = as]
    BY <1>2 DEF Advance, Outdated
  <2>2. r.lag \in 0 .. 2
    BY <1>1 DEF ThreadState
  <2>3. (lag = 0 => r.lag = 0 /\ ActionRow \notin written)
        /\ (lag <= 1 => r.lag <= 1) /\ (lag <= 1 /\ ActionRow \in written => r.lag = 0)
    BY <2>2
  <2>4. (~es => ~r.expoStale /\ ExposureRow \notin written)
        /\ (~as => ~r.attStale /\ r.key \notin written)
    OBVIOUS
  <2>. HIDE DEF lag, es, as
  <2>5. /\ thr'[u].lag = lag /\ thr'[u].expoStale = es /\ thr'[u].attStale = as
        /\ thr'[u].pc = r.pc /\ thr'[u].key = r.key
    BY <1>1, <2>1 DEF ThreadState
  <2>6. QED
    BY <1>2, <2>3, <2>4, <2>5
<1>3. CASE ~(Subject(u) = Subject(t) /\ thr[u].pc # "idle")
  <2>1. thr'[u] = thr[u]
    BY <1>3 DEF Advance
  <2>2. QED
    BY <1>3, <2>1
<1>4. QED
  BY <1>2, <1>3

(* A thread that hedges, claims or revives afterwards did so before.       *)
LEMMA OthersGiveUp ==
  ASSUME TypeOK, NEW t \in Threads, NEW self, NEW written, Advance(t, self, written),
         NEW u \in Threads, u # t
  PROVE  /\ AtHedge(thr'[u]) => AtHedge(thr[u])
         /\ Claims(thr'[u]) => Claims(thr[u])
         /\ Revives(thr'[u]) => Revives(thr[u])
<1>1. /\ thr'[u].pc = thr[u].pc /\ thr'[u].key = thr[u].key
      /\ ~thr'[u].expoStale => ~thr[u].expoStale
      /\ ~thr'[u].attStale => ~thr[u].attStale
  BY OthersAge
<1>2. QED
  BY <1>1 DEF AtHedge, Claims, Revives, OnHedge

-----------------------------------------------------------------------------
(* The effects of a step of thread t, on which the other threads rely.     *)

(* On the attempts: it changes the row of its own commit, nobody else's    *)
(* hedge; an answer is taken back by the thread that revives it, and a     *)
(* commit gets live when it is recorded or revived.                        *)
RowEffect(t, written, n) ==
  LET k == <<"8xbet", n>>
      old == attempt[Subject(t)][k]
      new == attempt'[Subject(t)][k] IN
  /\ new # old => k = KeyOf(t) /\ (k \in written \/ old.st = "none")
  /\ k \in written => old.st \in PendingAttempt \/ AtHedge(thr[t])
  /\ new # old /\ old.st = "response_received" =>
       new.st = "response_received" \/ Revives(thr[t])
  /\ Live(new) /\ ~Live(old) => (thr[t].pc = "new" /\ OnHedge(thr[t])) \/ Revives(thr[t])

AttemptEffect(t, written) == \A n \in 1 .. MaxCommits : RowEffect(t, written, n)

(* On the exposure: whoever still hedges afterwards does it on an exposure *)
(* that is hedging; an exposure is open or closed with no hedge under way. *)
ExposureEffect(t, written) ==
  LET a == Subject(t)
      old == expo[a].st
      new == expo'[a].st IN
  /\ new # old => (IF old = "none" THEN ActionRow ELSE ExposureRow) \in written
  /\ new # old /\ old = "none" => action'[a].st = "jun88_ticket_received"
  /\ new # old => new # "none" /\ old # "unhedged_closed"
  /\ new # old => \A u \in Ours(a) \ {t} : ~AtHedge(thr'[u])
  /\ new # old /\ new \in {"exposure_open", "unhedged_closed"} =>
       ~Busy(a, attempt'[a], thr')

(* On the action: it is reported open with no hedge under way.             *)
ActionEffect(t, written) ==
  LET a == Subject(t)
      old == action[a].st
      new == action'[a].st IN
  /\ new # old =>
       ActionRow \in written \/ \A u \in Ours(a) \ {t} : thr[u].pc \in {"idle", "create"}
  /\ new # old /\ new \in {"exposure_open", "jun88_ticket_received"} =>
       ~Underway(a, attempt[a], thr)
  /\ new # old /\ new = "unhedged_closed" => expo'[a].st = "unhedged_closed"

Effects(t, written) ==
  AttemptEffect(t, written) /\ ExposureEffect(t, written) /\ ActionEffect(t, written)

(* What thread t itself becomes: what it knows, and where its claim is     *)
(* from: it had one, there was none, or it has just refused the commit.    *)
SelfClaims(t, self, written) ==
  LET a == Subject(t)
      k == KeyOf(t)
      row == attempt[a][k] IN
  /\ AtHedge(self) => expo'[a].st = "hedging" /\ (AtHedge(thr[t]) \/ expo[a].st # "hedging")
  /\ Claims(self) =>
       /\ Spent(attempt'[a])
       /\ \/ Claims(thr[t])
          \/ ~Busy(a, attempt[a], thr)
          \/ k \in written /\ \E n \in 1 .. MaxCommits : k = <<"8xbet", n>> /\ Live(row)
  /\ Revives(self) =>
       /\ self.key = k /\ (\E n \in 1 .. MaxCommits : k = <<"8xbet", n>>)
       /\ Revives(thr[t]) \/ (Live(row) /\ row.st # "response_received")
  /\ (Claims(self) /\ self.pc # "placing") \/ Revives(self) =>
       \/ Underway(a, attempt[a], thr)
       \/ ActionRow \in written /\ thr[t].pc = "placing"
          /\ action'[a].st \notin {"exposure_open", "jun88_ticket_received"}
  /\ self.pc = "placing" => ExposureRow \in written
  /\ self.pc = "rec_complete" => self.key \in written /\ Live(attempt'[a][self.key])

SelfKnows(t, self) ==
  LET a == Subject(t) IN
  /\ KnowsRow(self, attempt'[a])
  /\ KnowsFree(self, action'[a].st, expo'[a].st, Busy(a, attempt'[a], thr'),
               Underway(a, attempt'[a], thr'))
  /\ KnowsUnhedged(self, action'[a].st, expo'[a].st)

ElsewhereSame(t) ==
  \A b \in Actions \ {Subject(t)} :
    action'[b].st = action[b].st /\ attempt'[b] = attempt[b] /\ expo'[b].st = expo[b].st

-----------------------------------------------------------------------------
(* What is under way after a step was so before, or is what the thread     *)
(* itself has begun.                                                       *)
LEMMA UnderwayBefore ==
  ASSUME TypeOK, NEW t \in Threads, NEW self, NEW written, Advance(t, self, written),
         AttemptEffect(t, written), SelfClaims(t, self, written), HedgeInv,
         LET a == Subject(t) IN Underway(a, attempt'[a], thr')
  PROVE  LET a == Subject(t) IN
         \/ Underway(a, attempt[a], thr)
         \/ /\ ActionRow \in written /\ thr[t].pc = "placing"
            /\ action'[a].st \notin {"exposure_open", "jun88_ticket_received"}
<1>. DEFINE a == Subject(t)
<1>. a \in Actions
  BY ThreadFacts
<1>1. CASE ~Spent(attempt'[a])
  <2>1. PICK n \in 1 .. MaxCommits : Live(attempt'[a][<<"8xbet", n>>])
    BY <1>1 DEF Spent, LiveHedge
  <2>2. \/ Live(attempt[a][<<"8xbet", n>>])
        \/ Claims(thr[t]) /\ thr[t].pc # "placing"
        \/ Revives(thr[t])
    BY <2>1 DEF AttemptEffect, RowEffect, Claims
  <2>3. t \in Ours(a)
    BY DEF Ours
  <2>4. QED
    BY <1>1, <2>2, <2>3 DEF Underway, Spent, LiveHedge
<1>2. CASE Spent(attempt'[a])
  <2>1. PICK u \in Ours(a) : (Claims(thr'[u]) /\ thr'[u].pc # "placing") \/ Revives(thr'[u])
    BY <1>2 DEF Underway
  <2>2. u \in Threads
    BY DEF Ours
  <2>3. CASE u = t
    <3>1. thr'[t] = self
      BY OthersResume
    <3>2. QED
      BY <2>1, <2>3, <3>1 DEF SelfClaims
  <2>4. CASE u # t
    <3>1. (Claims(thr[u]) /\ thr[u].pc # "placing") \/ Revives(thr[u])
      BY <2>1, <2>2, <2>4, OthersGiveUp, OthersAge
    <3>2. QED
      BY <3>1 DEF Underway
  <2>5. QED
    BY <2>3, <2>4
<1>3. QED
  BY <1>1, <1>2

(* Likewise of what keeps the exposure busy.                               *)
LEMMA BusyBefore ==
  ASSUME TypeOK, NEW t \in Threads, NEW self, NEW written, Advance(t, self, written),
         AttemptEffect(t, written), SelfClaims(t, self, written), HedgeInv,
         LET a == Subject(t) IN Busy(a, attempt'[a], thr')
  PROVE  \/ LET a == Subject(t) IN Busy(a, attempt[a], thr)
         \/ ExposureRow \in written /\ self.pc = "placing"
<1>. DEFINE a == Subject(t)
<1>1. CASE Underway(a, attempt'[a], thr')
  <2>1. t \in Ours(a)
    BY DEF Ours
  <2>2. QED
    BY <1>1, <2>1, UnderwayBefore DEF Busy
<1>2. CASE ~Underway(a, attempt'[a], thr')
  <2>1. PICK u \in Ours(a) : thr'[u].pc = "placing"
    BY <1>2 DEF Busy
  <2>2. u \in Threads /\ thr'[t] = self
    BY OthersResume DEF Ours
  <2>3. CASE u = t
    BY <2>1, <2>2, <2>3 DEF SelfClaims
  <2>4. CASE u # t
    <3>1. thr[u].pc = "placing"
      BY <2>1, <2>2, <2>4, OthersAge
    <3>2. QED
      BY <3>1 DEF Busy
  <2>5. QED
    BY <2>3, <2>4
<1>3. QED
  BY <1>1, <1>2

(* The key of a thread that works on an 8xbet commit.                      *)
LEMMA HedgeKey ==
  ASSUME IInv, NEW u \in Threads, thr[u].pc \in KeyedPoints, OnHedge(thr[u])
  PROVE  \E n \in 1 .. MaxCommits : thr[u].key = <<"8xbet", n>>
<1>1. thr[u].key \in Keys
  BY DEF IInv, ThreadsFit, Fits, KnowsKey
<1>2. QED
  BY <1>1 DEF Keys, OnHedge

(* What HedgeInv says of a thread, its action and its fellows.             *)
LEMMA HedgeFacts ==
  ASSUME HedgeInv, NEW t \in Threads
  PROVE  LET a == Subject(t) IN
         /\ a \in Actions /\ t \in Ours(a)
         /\ HedgeRows(action[a].st, attempt[a], expo[a].st, Busy(a, attempt[a], thr),
                      Underway(a, attempt[a], thr))
         /\ HedgeThread(thr[t], action[a].st, attempt[a], expo[a].st,
                        Busy(a, attempt[a], thr), Underway(a, attempt[a], thr))
         /\ \A u \in Threads :
              Subject(u) = a /\ t # u => HedgeAlone(thr[t], thr[u]) /\ HedgeAlone(thr[u], thr[t])
<1>1. Subject(t) \in Actions
  BY ThreadFacts
<1>2. QED
  BY <1>1 DEF HedgeInv, HedgeOf, Ours

(* Whoever may declare an answer unknown is still at its hedge.            *)
LEMMA HedgeRevives ==
  ASSUME IInv, NEW u \in Threads, Revives(thr[u])
  PROVE  AtHedge(thr[u])
<1>1. OnHedge(thr[u])
  BY DEF IInv, ThreadsFit, Fits, KnowsKey, Revives, HedgePoints, OnHedge
<1>2. QED
  BY <1>1 DEF Revives, AtHedge

(* What another thread of the action knows of its attempt.                 *)
LEMMA OthersKnowRow ==
  ASSUME SafetyInv, CommitInv, HedgeInv, NEW t \in Threads, NEW self, NEW written,
         Advance(t, self, written), AttemptEffect(t, written),
         NEW u \in Threads, u # t, Subject(u) = Subject(t)
  PROVE  KnowsRow(thr'[u], attempt'[Subject(t)])
<1>. DEFINE a == Subject(t)
            r == thr[u]
<1>1. /\ thr'[u].pc = r.pc /\ thr'[u].key = r.key
      /\ r.pc # "idle" /\ ~thr'[u].attStale => ~r.attStale /\ r.key \notin written
      /\ ~r.attStale /\ r.pc # "idle" /\ r.key \notin written => ~thr'[u].attStale
  <2>1. thr[u] \in ThreadState
    BY DEF SafetyInv, IInv, TypeOK
  <2>2. ~r.attStale /\ r.pc # "idle" /\ r.key \notin written => ~thr'[u].attStale
    BY <2>1 DEF Advance, Outdated, ThreadState
  <2>3. QED
    BY <2>2, OthersAge DEF SafetyInv, IInv
<1>2. KnowsRow(r, attempt[a])
  BY HedgeFacts DEF HedgeThread
<1>3. CASE r.pc = "mark" /\ OnHedge(r)
  <2>1. PICK n \in 1 .. MaxCommits : r.key = <<"8xbet", n>>
    BY <1>3, HedgeKey DEF SafetyInv, KeyedPoints, CommitPoints
  <2>2. ~r.attStale
    BY <1>2, <1>3 DEF KnowsRow
  <2>3. attempt[a][r.key].st = "before_send"
    BY <1>3, <2>2 DEF CommitInv, ThreadsCommit, KnowsCommit
  <2>4. AtHedge(r)
    BY <1>3, <2>2 DEF AtHedge
  <2>5. ~AtHedge(thr[t])
    BY <2>4, HedgeFacts DEF HedgeAlone
  <2>6. r.key \notin written
    BY <2>1, <2>3, <2>5 DEF AttemptEffect, RowEffect, PendingAttempt
  <2>7. QED
    BY <1>1, <1>3, <2>2, <2>6 DEF KnowsRow
<1>4. CASE /\ r.pc \in {"send", "wait", "ask", "answer", "rec_hedge", "evidence_attempt"}
           /\ OnHedge(r) /\ ~thr'[u].attStale
  <2>1. PICK n \in 1 .. MaxCommits : r.key = <<"8xbet", n>>
    BY <1>4, HedgeKey DEF SafetyInv, KeyedPoints, CommitPoints, ReconcilePoints, EvidencePoints
  <2>2. attempt[a][r.key].st \in PendingAttempt /\ r.key \notin written
    BY <1>1, <1>2, <1>4 DEF KnowsRow
  <2>3. attempt'[a][r.key] = attempt[a][r.key]
    BY <2>1, <2>2 DEF AttemptEffect, RowEffect, PendingAttempt
  <2>4. QED
    BY <1>1, <1>4, <2>2, <2>3 DEF KnowsRow
<1>5. CASE r.pc = "rec_complete"
  <2>1. OnHedge(r)
    BY <1>5, InvOf DEF Sees, HoldsTicket, CompletionPoints, OnHedge
  <2>2. PICK n \in 1 .. MaxCommits : r.key = <<"8xbet", n>>
    BY <1>5, <2>1, HedgeKey DEF SafetyInv, KeyedPoints, ReconcilePoints
  <2>3. attempt[a][r.key].st = "response_received"
    BY <1>2, <1>5 DEF KnowsRow
  <2>4. ~(Revives(thr[t]) /\ thr[t].key = r.key)
    BY <1>5, HedgeFacts DEF HedgeAlone
  <2>5. attempt'[a][r.key].st = "response_received"
    BY <2>2, <2>3, <2>4 DEF AttemptEffect, RowEffect, KeyOf
  <2>6. QED
    BY <1>1, <1>5, <2>5 DEF KnowsRow
<1>6. QED
  BY <1>1, <1>3, <1>4, <1>5 DEF KnowsRow, OnHedge

(* What it knows of action and exposure.                                   *)
LEMMA OthersKnowFree ==
  ASSUME SafetyInv, HedgeInv, NEW t \in Threads, NEW self, NEW written,
         Advance(t, self, written), Effects(t, written), SelfClaims(t, self, written),
         NEW u \in Threads, u # t, Subject(u) = Subject(t)
  PROVE  LET a == Subject(t) IN
         /\ KnowsFree(thr'[u], action'[a].st, expo'[a].st, Busy(a, attempt'[a], thr'),
                      Underway(a, attempt'[a], thr'))
         /\ KnowsUnhedged(thr'[u], action'[a].st, expo'[a].st)
<1>. DEFINE a == Subject(t)
            r == thr[u]
            s == thr'[u]
            ac == action[a].st
            ex == expo[a].st
            busy == Busy(a, attempt[a], thr)
            under == Underway(a, attempt[a], thr)
<1>1. /\ s.pc = r.pc /\ s.key = r.key
      /\ ~s.expoStale => ~r.expoStale
      /\ s.lag = 0 => r.lag = 0
      /\ s.lag <= 1 => r.lag <= 1
      /\ r.pc # "idle" =>
           /\ s.lag = 0 => ActionRow \notin written
           /\ s.lag <= 1 /\ ActionRow \in written => r.lag = 0
           /\ ~s.expoStale => ExposureRow \notin written
  BY OthersAge DEF SafetyInv, IInv
<1>2. KnowsFree(r, ac, ex, busy, under) /\ KnowsUnhedged(r, ac, ex)
  BY HedgeFacts DEF HedgeThread
<1>3. Busy(a, attempt'[a], thr') => busy \/ ExposureRow \in written
  BY BusyBefore DEF SafetyInv, IInv, Effects
<1>4. Underway(a, attempt'[a], thr') => under \/ ActionRow \in written
  BY UnderwayBefore DEF SafetyInv, IInv, Effects
<1>5. expo'[a].st # ex =>
        /\ (IF ex = "none" THEN ActionRow ELSE ExposureRow) \in written
        /\ ex = "none" => action'[a].st = "jun88_ticket_received"
        /\ expo'[a].st # "none"
  BY DEF Effects, ExposureEffect
<1>6. action'[a].st # ac => ActionRow \in written \/ r.pc \in {"idle", "create"}
  BY DEF Effects, ActionEffect, Ours
<1>7. r.pc \in MatcherPoints => ex # "none"
  BY InvOf DEF Fits, KnowsKey, Subject
<1>. HIDE DEF busy, under, ac, ex
<1>8. ~s.expoStale =>
        /\ s.pc \in MatcherPoints => expo'[a].st = "exposure_open"
        /\ s.pc \in {"close", "reopen"} =>
             ~Busy(a, attempt'[a], thr') /\ expo'[a].st \in {"exposure_open", "manual_review"}
        /\ s.pc = "reopen" => expo'[a].st = "manual_review"
  BY <1>1, <1>2, <1>3, <1>5, <1>7 DEF KnowsFree, MatcherPoints
<1>9. s.lag = 0 =>
        /\ s.pc \in {"hedge_reprice", "open", "open_action"} => ~Underway(a, attempt'[a], thr')
        /\ s.pc = "evaluate" /\ ~s.expoStale => ~Underway(a, attempt'[a], thr')
        /\ s.pc = "rec_jun_open" => action'[a].st = "jun88_ticket_received"
  BY <1>1, <1>2, <1>4, <1>6 DEF KnowsFree
<1>10. KnowsUnhedged(s, action'[a].st, expo'[a].st)
  BY <1>1, <1>2, <1>5, <1>6 DEF KnowsUnhedged, CommitPoints, TicketPoints
<1>11. QED
  BY <1>8, <1>9, <1>10 DEF KnowsFree

(* And what it hedges, claims or revives.                                  *)
LEMMA OthersHedge ==
  ASSUME SafetyInv, CommitInv, HedgeInv, NEW t \in Threads, NEW self, NEW written,
         Advance(t, self, written), Effects(t, written),
         NEW u \in Threads, u # t, Subject(u) = Subject(t)
  PROVE  LET a == Subject(t) IN
         /\ AtHedge(thr'[u]) => expo'[a].st = "hedging"
         /\ Claims(thr'[u]) => Spent(attempt'[a])
         /\ Revives(thr'[u]) =>
              \A n \in 1 .. MaxCommits : LiveHedge(attempt'[a], n) => thr'[u].key = <<"8xbet", n>>
<1>. DEFINE a == Subject(t)
<1>1. /\ AtHedge(thr'[u]) => AtHedge(thr[u])
      /\ Claims(thr'[u]) => Claims(thr[u])
      /\ Revives(thr'[u]) => Revives(thr[u])
      /\ thr'[u].key = thr[u].key
  BY OthersGiveUp, OthersAge DEF SafetyInv, IInv
<1>2. /\ HedgeAlone(thr[t], thr[u]) /\ HedgeAlone(thr[u], thr[t])
      /\ HedgeThread(thr[u], action[a].st, attempt[a], expo[a].st, Busy(a, attempt[a], thr),
                     Underway(a, attempt[a], thr))
  BY HedgeFacts
<1>3. \A n \in 1 .. MaxCommits :
        LiveHedge(attempt'[a], n) =>
          LiveHedge(attempt[a], n) \/ Claims(thr[t]) \/ Revives(thr[t])
  BY DEF Effects, AttemptEffect, RowEffect, LiveHedge, Claims
<1>4. AtHedge(thr'[u]) => expo'[a].st = "hedging"
  BY <1>1, <1>2 DEF Effects, ExposureEffect, HedgeThread, Ours
<1>5. Claims(thr'[u]) => Spent(attempt'[a])
  BY <1>1, <1>2, <1>3 DEF HedgeThread, HedgeAlone, Spent
<1>6. Revives(thr[u]) => AtHedge(thr[u])
  BY HedgeRevives DEF SafetyInv
<1>7. Revives(thr[t]) => AtHedge(thr[t])
  BY HedgeRevives DEF SafetyInv
<1>8. QED
  BY <1>1, <1>2, <1>3, <1>4, <1>5, <1>6, <1>7 DEF HedgeThread, HedgeAlone

(* Thread t itself.                                                        *)
LEMMA SelfHedges ==
  ASSUME SafetyInv, HedgeInv, NEW t \in Threads, NEW self, NEW written,
         Effects(t, written), SelfClaims(t, self, written), SelfKnows(t, self)
  PROVE  LET a == Subject(t) IN
         HedgeThread(self, action'[a].st, attempt'[a], expo'[a].st, Busy(a, attempt'[a], thr'),
                     Underway(a, attempt'[a], thr'))
<1>. DEFINE a == Subject(t)
            at == attempt[a]
<1>1. ASSUME Revives(self), NEW n \in 1 .. MaxCommits, LiveHedge(attempt'[a], n)
      PROVE  self.key = <<"8xbet", n>>
  <2>1. PICK m \in 1 .. MaxCommits : self.key = KeyOf(t) /\ KeyOf(t) = <<"8xbet", m>>
    BY <1>1 DEF SelfClaims
  <2>2. /\ Live(attempt'[a][<<"8xbet", n>>]) /\ ~Live(at[<<"8xbet", n>>]) => n = m
        /\ Live(attempt'[a][<<"8xbet", n>>])
    <3>1. <<"8xbet", n>> = KeyOf(t) => n = m
      BY <2>1
    <3>2. Live(attempt'[a][<<"8xbet", n>>]) /\ ~Live(at[<<"8xbet", n>>]) => <<"8xbet", n>> = KeyOf(t)
      BY DEF Effects, AttemptEffect, RowEffect
    <3>3. QED
      BY <1>1, <3>1, <3>2 DEF LiveHedge
  <2>3. CASE ~Live(at[<<"8xbet", n>>])
    BY <2>1, <2>2, <2>3
  <2>4. CASE Live(at[<<"8xbet", n>>]) /\ Revives(thr[t])
    BY <2>1, <2>4, HedgeFacts DEF HedgeThread, LiveHedge, KeyOf
  <2>5. CASE Live(at[<<"8xbet", n>>]) /\ Live(at[<<"8xbet", m>>])
    BY <2>1, <2>5, HedgeFacts DEF HedgeRows, LiveHedge
  <2>6. QED
    BY <1>1, <2>1, <2>3, <2>4, <2>5 DEF SelfClaims
<1>2. QED
  BY <1>1 DEF SelfClaims, SelfKnows, HedgeThread

(* The thread itself keeps out of the way of its fellows.                  *)
LEMMA SelfAlone ==
  ASSUME SafetyInv, HedgeInv, NEW t \in Threads, NEW self, NEW written,
         Advance(t, self, written), Effects(t, written), SelfClaims(t, self, written),
         NEW u \in Threads, u # t, Subject(u) = Subject(t)
  PROVE  HedgeAlone(self, thr'[u]) /\ HedgeAlone(thr'[u], self)
<1>. DEFINE a == Subject(t)
            at == attempt[a]
            r == thr[u]
            s == thr'[u]
<1>0. IInv
  BY DEF SafetyInv
<1>1. /\ s.pc = r.pc /\ s.key = r.key
      /\ r.pc # "idle" /\ ~s.attStale => r.key \notin written
      /\ AtHedge(s) => AtHedge(r)
      /\ Claims(s) => Claims(r)
      /\ Revives(s) => Revives(r)
  BY <1>0, OthersAge, OthersGiveUp DEF IInv
<1>2. /\ HedgeAlone(thr[t], r) /\ HedgeAlone(r, thr[t])
      /\ HedgeThread(r, action[a].st, at, expo[a].st, Busy(a, at, thr), Underway(a, at, thr))
  BY HedgeFacts
<1>3. u \in Ours(a)
  BY DEF Ours
<1>4. ~(AtHedge(self) /\ AtHedge(s))
  BY <1>1, <1>2 DEF SelfClaims, HedgeThread, HedgeAlone
<1>5. Claims(r) \/ Revives(r) => Busy(a, at, thr)
  BY <1>3 DEF Busy, Underway
<1>6. ASSUME NEW n \in 1 .. MaxCommits, Live(at[<<"8xbet", n>>])
      PROVE  ~Claims(r) /\ (Revives(r) => r.key = <<"8xbet", n>>)
  BY <1>2, <1>6 DEF HedgeThread, Spent, LiveHedge
<1>7. Revives(s) => r.key \notin written
  BY <1>1 DEF Revives
<1>8. ~(Claims(self) /\ (Claims(s) \/ Revives(s)))
  <2>1. CASE Claims(thr[t])
    BY <1>1, <1>2, <2>1 DEF HedgeAlone
  <2>2. CASE ~Busy(a, at, thr)
    BY <1>1, <1>5, <2>2
  <2>3. CASE KeyOf(t) \in written
             /\ \E n \in 1 .. MaxCommits : KeyOf(t) = <<"8xbet", n>> /\ Live(at[KeyOf(t)])
    BY <1>1, <1>6, <1>7, <2>3
  <2>4. QED
    BY <2>1, <2>2, <2>3 DEF SelfClaims
<1>9. ~(Claims(s) /\ Revives(self))
  <2>1. CASE Revives(thr[t])
    BY <1>1, <1>2, <2>1 DEF HedgeAlone
  <2>2. CASE \E n \in 1 .. MaxCommits : KeyOf(t) = <<"8xbet", n>> /\ Live(at[KeyOf(t)])
    BY <1>1, <1>6, <2>2
  <2>3. QED
    BY <2>1, <2>2 DEF SelfClaims
<1>10. s.pc = "rec_complete" /\ Revives(self) => s.key # self.key
  <2>1. s.pc = "rec_complete" => at[r.key].st = "response_received"
    BY <1>1, <1>2 DEF HedgeThread, KnowsRow
  <2>2. QED
    BY <1>1, <1>2, <2>1 DEF SelfClaims, HedgeAlone, KeyOf
<1>11. self.pc = "rec_complete" /\ Revives(s) => self.key # s.key
  BY <1>1, <1>7 DEF SelfClaims
<1>12. QED
  BY <1>4, <1>8, <1>9, <1>10, <1>11 DEF HedgeAlone

(* The rows of the action.                                                 *)
LEMMA RowsKept ==
  ASSUME SafetyInv, HedgeInv, NEW t \in Threads, NEW self, NEW written,
         Advance(t, self, written), Effects(t, written), SelfClaims(t, self, written)
  PROVE  LET a == Subject(t) IN
         HedgeRows(action'[a].st, attempt'[a], expo'[a].st, Busy(a, attempt'[a], thr'),
                   Underway(a, attempt'[a], thr'))
<1>. DEFINE a == Subject(t)
            at == attempt[a]
            ac == action[a].st
            ex == expo[a].st
<1>1. HedgeRows(ac, at, ex, Busy(a, at, thr), Underway(a, at, thr))
  BY HedgeFacts
<1>2. ASSUME NEW m \in 1 .. MaxCommits, NEW n \in 1 .. MaxCommits,
             LiveHedge(attempt'[a], m), LiveHedge(attempt'[a], n)
      PROVE  m = n
  <2>1. \A i \in 1 .. MaxCommits :
          LiveHedge(attempt'[a], i) /\ ~LiveHedge(at, i) =>
            <<"8xbet", i>> = KeyOf(t) /\ (Claims(thr[t]) \/ Revives(thr[t]))
    BY DEF Effects, AttemptEffect, RowEffect, LiveHedge, Claims
  <2>2. ASSUME NEW i \in 1 .. MaxCommits, NEW j \in 1 .. MaxCommits,
               LiveHedge(attempt'[a], i), ~LiveHedge(at, i), LiveHedge(at, j)
        PROVE  i = j
    <3>1. ~Spent(at)
      BY <2>2 DEF Spent
    <3>2. Revives(thr[t])
      BY <2>1, <2>2, <3>1, HedgeFacts DEF HedgeThread
    <3>3. thr[t].key = <<"8xbet", j>>
      BY <2>2, <3>2, HedgeFacts DEF HedgeThread
    <3>4. QED
      BY <2>1, <2>2, <3>3 DEF KeyOf
  <2>3. CASE LiveHedge(at, m) /\ LiveHedge(at, n)
    BY <1>1, <2>3 DEF HedgeRows
  <2>4. CASE ~LiveHedge(at, m) /\ ~LiveHedge(at, n)
    <3>1. <<"8xbet", m>> = <<"8xbet", n>>
      BY <1>2, <2>1, <2>4
    <3>2. QED
      BY <3>1
  <2>5. QED
    BY <1>2, <2>2, <2>3, <2>4
<1>3. Busy(a, attempt'[a], thr') => expo'[a].st \notin {"none", "exposure_open", "unhedged_closed"}
  <2>1. Busy(a, attempt'[a], thr') /\ expo'[a].st = ex => Busy(a, at, thr) \/ ex = "hedging"
    BY BusyBefore DEF SafetyInv, IInv, Effects, SelfClaims, AtHedge
  <2>2. QED
    BY <1>1, <2>1 DEF HedgeRows, Effects, ExposureEffect
<1>4. Underway(a, attempt'[a], thr') => action'[a].st \notin {"exposure_open", "jun88_ticket_received"}
  <2>1. Underway(a, attempt'[a], thr') /\ action'[a].st \in {"exposure_open", "jun88_ticket_received"}
          => Underway(a, at, thr)
    BY UnderwayBefore DEF SafetyInv, IInv, Effects
  <2>2. QED
    BY <1>1, <2>1 DEF HedgeRows, Effects, ActionEffect
<1>5. action'[a].st = "unhedged_closed" => expo'[a].st = "unhedged_closed"
  BY <1>1 DEF HedgeRows, Effects, ActionEffect, ExposureEffect
<1>6. QED
  BY <1>2, <1>3, <1>4, <1>5 DEF HedgeRows

(* An action whose rows stay and whose threads do not claim anything new   *)
(* keeps its part of the invariant.                                        *)
LEMMA SameHedge ==
  ASSUME HedgeInv, NEW b \in Actions,
         action'[b].st = action[b].st, attempt'[b] = attempt[b], expo'[b].st = expo[b].st,
         \A u \in Ours(b) : thr'[u] = thr[u]
  PROVE  HedgeOf(b, action'[b].st, attempt'[b], expo'[b].st, thr')
<1>1. HedgeOf(b, action[b].st, attempt[b], expo[b].st, thr)
  BY DEF HedgeInv
<1>2. Underway(b, attempt[b], thr') <=> Underway(b, attempt[b], thr)
  BY DEF Underway
<1>3. Busy(b, attempt[b], thr') <=> Busy(b, attempt[b], thr)
  BY <1>2 DEF Busy
<1>. DEFINE under == Underway(b, attempt[b], thr)
            busy == Busy(b, attempt[b], thr)
<1>4. Underway(b, attempt[b], thr') = under /\ Busy(b, attempt[b], thr') = busy
  BY <1>2, <1>3 DEF Underway, Busy
<1>. HIDE DEF under, busy
<1>5. QED
  BY <1>1, <1>4 DEF HedgeOf, under, busy

(* One thread moves.                                                       *)
LEMMA HedgeKept ==
  ASSUME SafetyInv, CommitInv, HedgeInv, NEW t \in Threads, NEW self, NEW written,
         Advance(t, self, written), Effects(t, written), SelfClaims(t, self, written),
         SelfKnows(t, self), ElsewhereSame(t)
  PROVE  HedgeInv'
<1>. DEFINE a == Subject(t)
<1>1. a \in Actions /\ thr'[t] = self
  BY ThreadFacts, OthersResume DEF SafetyInv, IInv
<1>2. ASSUME NEW b \in Actions, b # a
      PROVE  HedgeOf(b, action'[b].st, attempt'[b], expo'[b].st, thr')
  <2>1. \A u \in Ours(b) : thr'[u] = thr[u]
    BY <1>2, OthersAge DEF Ours, SafetyInv, IInv
  <2>2. QED
    BY <1>2, <2>1, SameHedge DEF ElsewhereSame
<1>3. HedgeOf(a, action'[a].st, attempt'[a], expo'[a].st, thr')
  <2>1. ASSUME NEW u \in Ours(a)
        PROVE  HedgeThread(thr'[u], action'[a].st, attempt'[a], expo'[a].st,
                           Busy(a, attempt'[a], thr'), Underway(a, attempt'[a], thr'))
    <3>1. u \in Threads /\ Subject(u) = a
      BY DEF Ours
    <3>2. CASE u = t
      BY <1>1, <3>2, SelfHedges
    <3>3. CASE u # t
      BY <3>1, <3>3, OthersKnowRow, OthersKnowFree, OthersHedge DEF HedgeThread, Effects
    <3>4. QED
      BY <3>2, <3>3
  <2>2. ASSUME NEW u \in Ours(a), NEW v \in Ours(a), u # v
        PROVE  HedgeAlone(thr'[u], thr'[v])
    <3>1. u \in Threads /\ Subject(u) = a /\ v \in Threads /\ Subject(v) = a
      BY DEF Ours
    <3>2. CASE u = t
      BY <1>1, <2>2, <3>1, <3>2, SelfAlone
    <3>3. CASE v = t
      BY <1>1, <2>2, <3>1, <3>3, SelfAlone
    <3>4. CASE u # t /\ v # t
      <4>1. /\ thr'[u].pc = thr[u].pc /\ thr'[u].key = thr[u].key /\ thr'[v].key = thr[v].key
            /\ AtHedge(thr'[u]) => AtHedge(thr[u])
            /\ AtHedge(thr'[v]) => AtHedge(thr[v])
            /\ Claims(thr'[u]) => Claims(thr[u])
            /\ Claims(thr'[v]) => Claims(thr[v])
            /\ Revives(thr'[v]) => Revives(thr[v])
        BY <3>1, <3>4, OthersAge, OthersGiveUp DEF SafetyInv, IInv
      <4>2. HedgeAlone(thr[u], thr[v])
        BY <2>2, <3>1, HedgeFacts
      <4>3. QED
        BY <4>1, <4>2 DEF HedgeAlone
    <3>5. QED
      BY <3>2, <3>3, <3>4
  <2>3. QED
    BY <2>1, <2>2, RowsKept DEF HedgeOf
<1>4. QED
  BY <1>2, <1>3 DEF HedgeInv

-----------------------------------------------------------------------------
(* The kinds of step                                                       *)

(* Points at which a thread neither hedges nor relies on anything here.    *)
CalmPoints ==
  {"idle", "create", "reserve", "prepare", "dry_run", "jun_start", "jun_renew", "jun_unknown",
   "jun_changed", "jun_reallocate", "abort", "release", "hedging", "complete",
   "hedge_unknown_action", "close_action", "unlease", "listed", "resolve", "evidence_exposure"}

(* Points at which it hedges, claims or revives, with an 8xbet key, or is  *)
(* about to complete.                                                      *)
HedgingPoints ==
  {"placing", "hedge_renew", "hedge_unknown_attempt", "hedge_done", "hedge_changed",
   "hedge_rejected", "hedge_unknown", "rec_read", "rec_reopen", "rec_complete"}

Modest(r) == r.pc \notin HedgingPoints \cup CommitPoints \/ (r.pc \in CommitPoints /\ ~OnHedge(r))

(* Elsewhere it claims nothing.                                            *)
LEMMA ModestClaims ==
  ASSUME NEW t, NEW self, NEW written, Modest(self)
  PROVE  /\ SelfClaims(t, self, written)
         /\ ~AtHedge(self) /\ ~Claims(self) /\ ~Revives(self) /\ self.pc # "placing"
<1>1. ~AtHedge(self) /\ ~Claims(self) /\ ~Revives(self)
      /\ self.pc # "placing" /\ self.pc # "rec_complete"
  BY DEF Modest, HedgingPoints, CommitPoints, AtHedge, Claims, Revives
<1>2. QED
  BY <1>1 DEF SelfClaims

(* At a calm point it knows nothing either.                                *)
LEMMA CalmSelf ==
  ASSUME NEW t, NEW self, NEW written, self.pc \in CalmPoints
  PROVE  Modest(self) /\ SelfClaims(t, self, written) /\ SelfKnows(t, self)
<1>1. Modest(self)
  BY DEF CalmPoints, Modest, HedgingPoints, CommitPoints
<1>2. SelfKnows(t, self)
  BY DEF CalmPoints, SelfKnows, KnowsRow, KnowsFree, KnowsUnhedged, MatcherPoints, CommitPoints,
         TicketPoints
<1>3. QED
  BY <1>1, <1>2, ModestClaims

(* A thread that returns is calm.                                          *)
LEMMA CalmReturn ==
  ASSUME NEW t \in Threads
  PROVE  Returned(t).pc \in CalmPoints /\ Idle.pc \in CalmPoints /\ Goto(t, "return") = Returned(t)
<1>1. Returned(t).pc \in {"idle", "unlease"} /\ Idle.pc = "idle"
  BY IdleFacts DEF Idle
<1>2. QED
  BY <1>1 DEF CalmPoints, Goto

(* What a thread takes along to its next point.                            *)
LEMMA GotoKeeps ==
  ASSUME SafetyInv, NEW t \in Threads, NEW p \in Points
  PROVE  /\ Goto(t, p).pc = p /\ Goto(t, p).key = thr[t].key /\ Goto(t, p).lag = thr[t].lag
         /\ Goto(t, p).expoStale = thr[t].expoStale /\ Goto(t, p).attStale = thr[t].attStale
<1>1. thr[t] \in ThreadState /\ TypeOK
  BY InvOf
<1>2. p # "return"
  BY DEF Points
<1>3. Goto(t, p) = [thr[t] EXCEPT !.pc = p, !.rsp = "none"]
  BY <1>1, <1>2, GotoFacts
<1>4. QED
  BY <1>1, <1>3 DEF ThreadState

(* The names of action and exposure row are not keys of commits.           *)
LEMMA RowNames ==
  ASSUME NEW n
  PROVE  <<"8xbet", n>> \notin {ActionRow, ExposureRow}
<1>1. "8xbet" # "action" /\ "8xbet" # "exposure"
  OBVIOUS
<1>2. QED
  BY <1>1 DEF ActionRow, ExposureRow

(* A step that changes no status and no attempt.                           *)
LEMMA StatusesStay ==
  ASSUME SafetyInv, CommitInv, HedgeInv, NEW t \in Threads, NEW self, NEW written,
         written \subseteq {ActionRow, ExposureRow}, Advance(t, self, written),
         UNCHANGED attempt, \A a \in Actions : action'[a].st = action[a].st /\ expo'[a].st = expo[a].st,
         SelfClaims(t, self, written),
         Effects(t, written) /\ thr'[t] = self => SelfKnows(t, self)
  PROVE  HedgeInv'
<1>1. Subject(t) \in Actions /\ thr'[t] = self
  BY InvOf DEF Advance
<1>2. AttemptEffect(t, written)
  BY RowNames DEF AttemptEffect, RowEffect
<1>3. ExposureEffect(t, written) /\ ActionEffect(t, written)
  BY <1>1 DEF ExposureEffect, ActionEffect
<1>4. ElsewhereSame(t)
  BY DEF ElsewhereSame
<1>5. QED
  BY <1>1, <1>2, <1>3, <1>4, HedgeKept DEF Effects

(* The same for a thread that becomes calm.                                *)
LEMMA CalmStays ==
  ASSUME SafetyInv, CommitInv, HedgeInv, NEW t \in Threads, NEW self, NEW written,
         written \subseteq {ActionRow, ExposureRow}, Advance(t, self, written),
         UNCHANGED attempt, \A a \in Actions : action'[a].st = action[a].st /\ expo'[a].st = expo[a].st,
         self.pc \in CalmPoints
  PROVE  HedgeInv'
  BY CalmSelf, StatusesStay

(* A step that changes the status of the action.                           *)
LEMMA HedgeActionMoves ==
  ASSUME SafetyInv, CommitInv, HedgeInv, NEW t \in Threads, NEW self,
         Advance(t, self, {ActionRow}), NEW to, action' = Moved(t, to), UNCHANGED <<attempt, expo>>,
         to \in {"exposure_open", "jun88_ticket_received"} =>
           ~Underway(Subject(t), attempt[Subject(t)], thr),
         to = "unhedged_closed" => expo[Subject(t)].st = "unhedged_closed",
         action'[Subject(t)].st = to => SelfClaims(t, self, {ActionRow}),
         Effects(t, {ActionRow}) /\ action'[Subject(t)].st = to => SelfKnows(t, self)
  PROVE  HedgeInv'
<1>. DEFINE a == Subject(t)
<1>1. a \in Actions /\ action \in [Actions -> ActionState] /\ expo \in [Actions -> ExposureState]
  BY InvOf DEF TypeOK
<1>2. action'[a].st = to /\ \A b \in Actions \ {a} : action'[b] = action[b]
  BY <1>1 DEF Moved, ActionState
<1>3. AttemptEffect(t, {ActionRow})
  BY RowNames DEF AttemptEffect, RowEffect
<1>4. ExposureEffect(t, {ActionRow})
  BY DEF ExposureEffect
<1>5. ActionEffect(t, {ActionRow})
  BY <1>2 DEF ActionEffect
<1>6. ElsewhereSame(t)
  BY <1>2 DEF ElsewhereSame
<1>7. QED
  BY <1>2, <1>3, <1>4, <1>5, <1>6, HedgeKept DEF Effects

(* A transition of the action.                                             *)
LEMMA HedgeTransition ==
  ASSUME SafetyInv, CommitInv, HedgeInv, NEW t \in Threads, NEW to, NEW p,
         TransitionAction(t, to, p), UNCHANGED <<attempt, expo>>,
         CanMoveAction(t, to) =>
           /\ to \in {"exposure_open", "jun88_ticket_received"} =>
                ~Underway(Subject(t), attempt[Subject(t)], thr)
           /\ to = "unhedged_closed" => expo[Subject(t)].st = "unhedged_closed"
           /\ action'[Subject(t)].st = to => SelfClaims(t, Goto(t, p), {ActionRow})
           /\ Effects(t, {ActionRow}) /\ action'[Subject(t)].st = to => SelfKnows(t, Goto(t, p))
  PROVE  HedgeInv'
<1>1. CASE CanMoveAction(t, to)
  <2>. DEFINE self == Goto(t, p)
  <2>1. Advance(t, self, {ActionRow}) /\ action' = Moved(t, to)
    BY <1>1 DEF TransitionAction
  <2>. HIDE DEF self
  <2>2. /\ action'[Subject(t)].st = to => SelfClaims(t, self, {ActionRow})
        /\ Effects(t, {ActionRow}) /\ action'[Subject(t)].st = to => SelfKnows(t, self)
    BY <1>1 DEF self
  <2>3. QED
    BY <1>1, <2>1, <2>2, HedgeActionMoves
<1>2. CASE ~CanMoveAction(t, to)
  <2>1. Advance(t, Returned(t), {}) /\ UNCHANGED action
    BY <1>2 DEF TransitionAction
  <2>2. QED
    BY <2>1, CalmStays, CalmReturn
<1>3. QED
  BY <1>1, <1>2

(* Most transitions: to a calm point, in a status that promises nothing.   *)
LEMMA CalmTransition ==
  ASSUME SafetyInv, CommitInv, HedgeInv, NEW t \in Threads, NEW to, NEW p \in CalmPoints \cup {"return"},
         TransitionAction(t, to, p), UNCHANGED <<attempt, expo>>,
         CanMoveAction(t, to) =>
           /\ to \in {"exposure_open", "jun88_ticket_received"} =>
                ~Underway(Subject(t), attempt[Subject(t)], thr)
           /\ to = "unhedged_closed" => expo[Subject(t)].st = "unhedged_closed"
  PROVE  HedgeInv'
<1>1. Goto(t, p).pc \in CalmPoints
  <2>1. CASE p = "return"
    BY <2>1, CalmReturn
  <2>2. CASE p # "return"
    <3>1. p \in Points
      BY <2>2 DEF CalmPoints, Points
    <3>2. QED
      BY <2>2, <3>1, GotoKeeps
  <2>3. QED
    BY <2>1, <2>2
<1>2. SelfClaims(t, Goto(t, p), {ActionRow}) /\ SelfKnows(t, Goto(t, p))
  BY <1>1, CalmSelf
<1>3. QED
  BY <1>2, HedgeTransition

(* A reservation.                                                          *)
LEMMA HedgeReserving ==
  ASSUME SafetyInv, CommitInv, HedgeInv, NEW t \in Threads, NEW self,
         action' = Reserved(Subject(t)), Advance(t, self, {ActionRow}), UNCHANGED <<attempt, expo>>,
         SelfClaims(t, self, {ActionRow}),
         Effects(t, {ActionRow}) /\ thr'[t] = self /\ action'[Subject(t)].st = action[Subject(t)].st
           => SelfKnows(t, self)
  PROVE  HedgeInv'
<1>1. Subject(t) \in Actions /\ action \in [Actions -> ActionState]
  BY InvOf DEF TypeOK
<1>2. \A a \in Actions : action'[a].st = action[a].st
  BY <1>1 DEF Reserved, ActionState
<1>3. QED
  BY <1>1, <1>2, StatusesStay

(* A ticket is live: its row is neither fresh nor refused.                 *)
LEMMA TicketIsLive ==
  ASSUME CommitInv, NEW a \in Actions, NEW k \in Keys, TicketAt(a, k) \in tickets
  PROVE  Live(attempt[a][k]) /\ attempt[a][k].st \notin {"none", "before_send"}
<1>1. CommitOf(a, k, attempt[a][k], thr, inbox[k[1]], journal, tickets)
  BY DEF CommitInv, CommitsFit
<1>2. QED
  BY <1>1 DEF CommitOf, Hopeless, Live

(* A thread that works on the commit of a ticket.                          *)
LEMMA HolderIsLive ==
  ASSUME SafetyInv, CommitInv, NEW t \in Threads, thr[t].pc \in CompletionPoints
  PROVE  \E n \in 1 .. MaxCommits :
           /\ thr[t].key = <<"8xbet", n>>
           /\ LiveHedge(attempt[Subject(t)], n)
<1>1. thr[t].key[1] = "8xbet" /\ <<Subject(t), "8xbet", thr[t].key[2]>> \in tickets
  BY InvOf DEF Sees, HoldsTicket
<1>2. thr[t].pc \in KeyedPoints
  BY DEF CompletionPoints, KeyedPoints, HedgePoints, ReconcilePoints, EvidencePoints
<1>3. PICK n \in 1 .. MaxCommits : thr[t].key = <<"8xbet", n>>
  BY <1>1, <1>2, HedgeKey DEF SafetyInv, OnHedge
<1>4. TicketAt(Subject(t), thr[t].key) \in tickets /\ thr[t].key \in Keys /\ Subject(t) \in Actions
  BY <1>1, <1>3, InvOf DEF TicketAt, Keys, Bookmakers
<1>5. QED
  BY <1>3, <1>4, TicketIsLive DEF LiveHedge

(* Whoever still hedges after the exposure was written claims it, revives  *)
(* a commit, or has one of its own without an answer.                      *)
LEMMA StillAtHedge ==
  ASSUME SafetyInv, CommitInv, HedgeInv, NEW t \in Threads, NEW self, NEW written,
         Advance(t, self, written), ExposureRow \in written,
         NEW u \in Threads, u # t, Subject(u) = Subject(t), AtHedge(thr'[u])
  PROVE  \/ Claims(thr[u]) \/ Revives(thr[u])
         \/ \E n \in 1 .. MaxCommits :
              /\ thr[u].key = <<"8xbet", n>> /\ LiveHedge(attempt[Subject(t)], n)
              /\ attempt[Subject(t)][thr[u].key].st # "response_received"
<1>. DEFINE r == thr[u]
            a == Subject(t)
<1>1. /\ thr'[u].pc = r.pc /\ thr'[u].key = r.key /\ AtHedge(r)
      /\ r.pc # "idle" => thr'[u].expoStale
      /\ ~thr'[u].attStale => ~r.attStale
  BY OthersAge, OthersGiveUp DEF SafetyInv, IInv
<1>2. /\ r.pc \in {"mark", "send", "wait", "hedge_unknown_attempt"} /\ OnHedge(r) /\ ~r.attStale
      \/ Claims(r)
  BY <1>1 DEF AtHedge, Claims, OnHedge
<1>3. CASE r.pc \in {"mark", "send", "wait"} /\ OnHedge(r) /\ ~r.attStale
  <2>1. PICK n \in 1 .. MaxCommits : r.key = <<"8xbet", n>>
    BY <1>3, HedgeKey DEF SafetyInv, KeyedPoints, CommitPoints
  <2>2. KnowsRow(r, attempt[a]) /\ KnowsCommit(r, attempt[a])
    BY HedgeFacts DEF HedgeThread, CommitInv, ThreadsCommit
  <2>3. attempt[a][r.key].st \in {"before_send"} \cup PendingAttempt
    BY <1>3, <2>2 DEF KnowsRow, KnowsCommit
  <2>4. QED
    BY <2>1, <2>3 DEF LiveHedge, Live, PendingAttempt
<1>4. QED
  BY <1>2, <1>3 DEF Revives

(* Then thread t was not the one at the exposure.                          *)
LEMMA NobodyAtHedge ==
  ASSUME SafetyInv, CommitInv, HedgeInv, NEW t \in Threads, NEW self, NEW written,
         Advance(t, self, written), ExposureRow \in written,
         \/ expo[Subject(t)].st # "hedging"
         \/ AtHedge(thr[t]) \/ Claims(thr[t]) \/ thr[t].pc = "rec_complete",
         NEW u \in Ours(Subject(t)) \ {t}
  PROVE  ~AtHedge(thr'[u])
<1>. DEFINE r == thr[u]
            a == Subject(t)
<1>1. u \in Threads /\ u # t /\ Subject(u) = a
  BY DEF Ours
<1>2. AtHedge(thr'[u]) => AtHedge(r)
  BY <1>1, OthersGiveUp DEF SafetyInv, IInv
<1>3. /\ AtHedge(r) => expo[a].st = "hedging"
      /\ Claims(r) => Spent(attempt[a])
      /\ Revives(r) => \A n \in 1 .. MaxCommits : LiveHedge(attempt[a], n) => r.key = <<"8xbet", n>>
  BY <1>1, HedgeFacts DEF HedgeThread
<1>4. HedgeAlone(thr[t], r) /\ HedgeAlone(r, thr[t])
  BY <1>1, HedgeFacts
<1>5. CASE expo[a].st # "hedging" \/ AtHedge(thr[t])
  BY <1>2, <1>3, <1>4, <1>5 DEF HedgeAlone
<1>6. CASE Claims(thr[t])
  <2>1. Spent(attempt[a])
    BY <1>6, HedgeFacts DEF HedgeThread
  <2>2. ~Claims(r) /\ ~Revives(r)
    BY <1>4, <1>6 DEF HedgeAlone
  <2>3. QED
    BY <1>1, <2>1, <2>2, StillAtHedge DEF Spent
<1>7. CASE thr[t].pc = "rec_complete"
  <2>1. PICK n \in 1 .. MaxCommits : thr[t].key = <<"8xbet", n>> /\ LiveHedge(attempt[a], n)
    BY <1>7, HolderIsLive DEF CompletionPoints
  <2>2. attempt[a][thr[t].key].st = "response_received"
    BY <1>7, HedgeFacts DEF HedgeThread, KnowsRow
  <2>3. ~Claims(r) /\ ~Revives(r)
    BY <1>3, <1>4, <1>7, <2>1 DEF Spent, HedgeAlone
  <2>4. \A m \in 1 .. MaxCommits : LiveHedge(attempt[a], m) => m = n
    BY <2>1, HedgeFacts DEF HedgeRows
  <2>5. QED
    BY <1>1, <2>1, <2>2, <2>3, <2>4, StillAtHedge
<1>8. QED
  BY <1>5, <1>6, <1>7

(* When a thread with a claim gives it up, no hedge is under way.          *)
LEMMA ClaimGivenUp ==
  ASSUME SafetyInv, HedgeInv, NEW t \in Threads, NEW self, NEW written, Advance(t, self, written),
         Claims(thr[t]), Modest(self)
  PROVE  LET a == Subject(t) IN ~Busy(a, attempt[a], thr') /\ ~Underway(a, attempt[a], thr')
<1>. DEFINE a == Subject(t)
<1>1. Spent(attempt[a])
  BY HedgeFacts DEF HedgeThread
<1>2. ASSUME NEW u \in Ours(a)
      PROVE  ~Claims(thr'[u]) /\ ~Revives(thr'[u])
  <2>1. u \in Threads /\ Subject(u) = a
    BY DEF Ours
  <2>2. CASE u = t
    <3>1. thr'[t] = self
      BY DEF Advance
    <3>2. QED
      BY <2>2, <3>1, ModestClaims
  <2>3. CASE u # t
    <3>1. ~Claims(thr[u]) /\ ~Revives(thr[u])
      BY <2>1, <2>3, HedgeFacts DEF HedgeAlone
    <3>2. QED
      BY <2>1, <2>3, <3>1, OthersGiveUp DEF SafetyInv, IInv
  <2>4. QED
    BY <2>2, <2>3
<1>3. \A u \in Ours(a) : thr'[u].pc # "placing"
  BY <1>2 DEF Claims
<1>4. ~Underway(a, attempt[a], thr')
  BY <1>1, <1>2 DEF Underway
<1>5. QED
  BY <1>3, <1>4 DEF Busy

(* When no hedge is under way and the thread begins none, none is.         *)
LEMMA StaysFree ==
  ASSUME SafetyInv, HedgeInv, NEW t \in Threads, NEW self, NEW written, Advance(t, self, written),
         UNCHANGED attempt, Modest(self), written \subseteq {ActionRow, ExposureRow}
  PROVE  LET a == Subject(t) IN
         /\ ~Busy(a, attempt[a], thr) => ~Busy(a, attempt[a], thr')
         /\ ~Underway(a, attempt[a], thr) => ~Underway(a, attempt[a], thr')
<1>. DEFINE a == Subject(t)
<1>1. ASSUME NEW u \in Ours(a)
      PROVE  /\ Claims(thr'[u]) => Claims(thr[u])
             /\ Revives(thr'[u]) => Revives(thr[u])
             /\ thr'[u].pc = "placing" => thr[u].pc = "placing"
             /\ Claims(thr'[u]) => thr'[u].pc = thr[u].pc
  <2>1. u \in Threads /\ Subject(u) = a
    BY DEF Ours
  <2>2. CASE u = t
    <3>1. thr'[t] = self
      BY DEF Advance
    <3>2. QED
      BY <2>2, <3>1, ModestClaims
  <2>3. CASE u # t
    BY <2>1, <2>3, OthersGiveUp, OthersAge DEF SafetyInv, IInv
  <2>4. QED
    BY <2>2, <2>3
<1>2. Underway(a, attempt[a], thr') => Underway(a, attempt[a], thr)
  BY <1>1 DEF Underway
<1>3. Busy(a, attempt[a], thr') => Busy(a, attempt[a], thr)
  BY <1>1, <1>2 DEF Busy
<1>4. QED
  BY <1>2, <1>3

(* A step that changes the status of the exposure: nobody else is at it,   *)
(* and nobody hedges when it opens or closes.                              *)
LEMMA HedgeExposureMoves ==
  ASSUME SafetyInv, CommitInv, HedgeInv, NEW t \in Threads, NEW self,
         Advance(t, self, {ExposureRow}), NEW to, to # "none", UNCHANGED <<action, attempt>>,
         \A b \in Actions : expo'[b].st = IF b = Subject(t) THEN to ELSE expo[b].st,
         expo[Subject(t)].st \notin {"none", "unhedged_closed"},
         \/ expo[Subject(t)].st # "hedging"
         \/ AtHedge(thr[t]) \/ Claims(thr[t]) \/ thr[t].pc = "rec_complete",
         to \in {"exposure_open", "unhedged_closed"} =>
           /\ Modest(self)
           /\ Claims(thr[t]) \/ ~Busy(Subject(t), attempt[Subject(t)], thr),
         expo'[Subject(t)].st = to => SelfClaims(t, self, {ExposureRow}),
         /\ Effects(t, {ExposureRow}) /\ thr'[t] = self /\ expo'[Subject(t)].st = to
         => SelfKnows(t, self)
  PROVE  HedgeInv'
<1>. DEFINE a == Subject(t)
            written == {ExposureRow}
<1>1. a \in Actions /\ thr'[t] = self /\ expo'[a].st = to /\ ExposureRow \in written
  BY InvOf DEF Advance
<1>. Advance(t, self, written) /\ written \subseteq {ActionRow, ExposureRow}
  OBVIOUS
<1>2. AttemptEffect(t, written)
  BY RowNames DEF AttemptEffect, RowEffect
<1>. HIDE DEF written
<1>3. \A u \in Ours(a) \ {t} : ~AtHedge(thr'[u])
  BY <1>1, NobodyAtHedge
<1>4. to \in {"exposure_open", "unhedged_closed"} => ~Busy(a, attempt'[a], thr')
  BY ClaimGivenUp, StaysFree
<1>5. ExposureEffect(t, written)
  BY <1>1, <1>3, <1>4 DEF ExposureEffect
<1>6. ActionEffect(t, written) /\ ElsewhereSame(t)
  BY DEF ActionEffect, ElsewhereSame
<1>7. QED
  BY <1>1, <1>2, <1>5, <1>6, HedgeKept DEF Effects, written

(* A transition of the exposure.                                           *)
LEMMA HedgeExposureTransition ==
  ASSUME SafetyInv, CommitInv, HedgeInv, NEW t \in Threads, NEW to, to # "none", NEW p,
         TransitionExposure(t, to, p), UNCHANGED <<action, attempt>>,
         CanMoveExposure(t, to) =>
           /\ \/ expo[Subject(t)].st # "hedging"
              \/ AtHedge(thr[t]) \/ Claims(thr[t]) \/ thr[t].pc = "rec_complete"
           /\ to \in {"exposure_open", "unhedged_closed"} =>
                /\ Modest(Goto(t, p))
                /\ Claims(thr[t]) \/ ~Busy(Subject(t), attempt[Subject(t)], thr)
           /\ expo'[Subject(t)].st = to => SelfClaims(t, Goto(t, p), {ExposureRow})
           /\ /\ Effects(t, {ExposureRow}) /\ thr'[t] = Goto(t, p) /\ expo'[Subject(t)].st = to
              => SelfKnows(t, Goto(t, p))
  PROVE  HedgeInv'
<1>1. CASE CanMoveExposure(t, to)
  <2>. DEFINE self == Goto(t, p)
  <2>1. Advance(t, self, {ExposureRow}) /\ expo' = [expo EXCEPT ![Subject(t)].st = to]
    BY <1>1 DEF TransitionExposure
  <2>2. Subject(t) \in Actions /\ expo \in [Actions -> ExposureState]
    BY InvOf DEF TypeOK
  <2>3. \A b \in Actions : expo'[b].st = IF b = Subject(t) THEN to ELSE expo[b].st
    BY <2>1, <2>2 DEF ExposureState
  <2>4. expo[Subject(t)].st \notin {"none", "unhedged_closed"}
    BY <1>1, ExposureMovesFacts DEF CanMoveExposure
  <2>5. /\ to \in {"exposure_open", "unhedged_closed"} => Modest(self)
        /\ expo'[Subject(t)].st = to => SelfClaims(t, self, {ExposureRow})
        /\ Effects(t, {ExposureRow}) /\ thr'[t] = self /\ expo'[Subject(t)].st = to => SelfKnows(t, self)
    BY <1>1
  <2>. HIDE DEF self
  <2>6. QED
    BY <1>1, <2>1, <2>3, <2>4, <2>5, HedgeExposureMoves
<1>2. CASE ~CanMoveExposure(t, to)
  <2>1. Advance(t, Returned(t), {}) /\ UNCHANGED expo
    BY <1>2 DEF TransitionExposure
  <2>2. QED
    BY <2>1, CalmStays, CalmReturn
<1>3. QED
  BY <1>1, <1>2

(* The exposure is completed by a thread that becomes calm.                *)
LEMMA HedgeCompletes ==
  ASSUME SafetyInv, CommitInv, HedgeInv, NEW t \in Threads, NEW self,
         Advance(t, self, {ExposureRow}), expo' = Completed(t), UNCHANGED <<action, attempt>>,
         expo[Subject(t)].st \notin {"none", "unhedged_closed"},
         \/ expo[Subject(t)].st # "hedging"
         \/ AtHedge(thr[t]) \/ thr[t].pc = "rec_complete",
         self.pc \in CalmPoints
  PROVE  HedgeInv'
<1>. DEFINE to == "completed"
<1>1. Subject(t) \in Actions /\ expo \in [Actions -> ExposureState]
  BY InvOf DEF TypeOK
<1>2. \A b \in Actions : expo'[b].st = IF b = Subject(t) THEN to ELSE expo[b].st
  BY <1>1 DEF ExposureState, Completed
<1>3. to \notin {"none", "exposure_open", "unhedged_closed"}
  OBVIOUS
<1>. HIDE DEF to
<1>4. SelfClaims(t, self, {ExposureRow}) /\ SelfKnows(t, self)
  BY CalmSelf
<1>5. QED
  BY <1>2, <1>3, <1>4, HedgeExposureMoves

(* A refused commit leaves no live one.                                    *)
LEMMA RefusalSpends ==
  ASSUME HedgeInv, NEW t \in Threads, NEW n \in 1 .. MaxCommits, KeyOf(t) = <<"8xbet", n>>,
         LiveHedge(attempt[Subject(t)], n), ~LiveHedge(attempt'[Subject(t)], n),
         \A j \in Keys : j # KeyOf(t) => attempt'[Subject(t)][j] = attempt[Subject(t)][j]
  PROVE  Spent(attempt'[Subject(t)])
<1>1. ASSUME NEW m \in 1 .. MaxCommits, LiveHedge(attempt'[Subject(t)], m)
      PROVE  FALSE
  <2>1. m # n
    BY <1>1
  <2>2. <<"8xbet", m>> \in Keys /\ <<"8xbet", m>> # <<"8xbet", n>>
    BY <2>1 DEF Keys, Bookmakers
  <2>3. attempt'[Subject(t)][<<"8xbet", m>>] = attempt[Subject(t)][<<"8xbet", m>>]
    BY <2>2
  <2>4. LiveHedge(attempt[Subject(t)], m)
    BY <1>1, <2>3 DEF LiveHedge
  <2>5. QED
    BY <2>1, <2>4, HedgeFacts DEF HedgeRows
<1>2. QED
  BY <1>1 DEF Spent

(* An attempt is saved.  An 8xbet attempt that nobody has written since is *)
(* unanswered, unless it is about to be sent or to be revived.             *)
LEMMA HedgeAttemptMoves ==
  ASSUME SafetyInv, CommitInv, HedgeInv, NEW t \in Threads, NEW self, NEW st, NEW res,
         attempt' = [attempt EXCEPT ![Subject(t)][KeyOf(t)] = [st |-> st, res |-> res]],
         Advance(t, self, {KeyOf(t)}), UNCHANGED <<action, expo>>, KeyOf(t) \in Keys,
         OnHedge(thr[t]) =>
           \/ attempt[Subject(t)][KeyOf(t)].st \in PendingAttempt
           \/ thr[t].pc = "mark" \/ Revives(thr[t]),
         LET a == Subject(t)
             row == attempt'[a][KeyOf(t)] IN
         /\ row.st = st /\ row.res = res
         /\ \A j \in Keys : j # KeyOf(t) => attempt'[a][j] = attempt[a][j]
         => SelfClaims(t, self, {KeyOf(t)}) /\ (Effects(t, {KeyOf(t)}) /\ thr'[t] = self => SelfKnows(t, self))
  PROVE  HedgeInv'
<1>. DEFINE a == Subject(t)
            k == KeyOf(t)
            old == attempt[a][k]
<1>1. a \in Actions /\ attempt \in [Actions -> [Keys -> AttemptState]] /\ thr'[t] = self
  BY InvOf DEF TypeOK, Advance
<1>2. /\ attempt'[a][k].st = st /\ attempt'[a][k].res = res
      /\ \A j \in Keys : j # k => attempt'[a][j] = attempt[a][j]
      /\ \A b \in Actions \ {a} : attempt'[b] = attempt[b]
  BY <1>1
<1>3. ASSUME OnHedge(thr[t])
      PROVE  /\ Live(old) \/ Revives(thr[t])
             /\ old.st \in PendingAttempt \/ AtHedge(thr[t])
             /\ old.st # "response_received" \/ Revives(thr[t])
  <2>1. CASE old.st \in PendingAttempt
    BY <2>1 DEF PendingAttempt, Live
  <2>2. CASE thr[t].pc = "mark"
    <3>1. ~thr[t].attStale
      BY <1>3, <2>2, HedgeFacts DEF HedgeThread, KnowsRow
    <3>2. old.st = "before_send"
      BY <2>2, <3>1 DEF CommitInv, ThreadsCommit, KnowsCommit, KeyOf
    <3>3. AtHedge(thr[t])
      BY <1>3, <2>2, <3>1 DEF AtHedge
    <3>4. QED
      BY <3>2, <3>3 DEF Live
  <2>3. CASE Revives(thr[t])
    BY <2>3, HedgeRevives DEF SafetyInv
  <2>4. QED
    BY <1>3, <2>1, <2>2, <2>3
<1>4. ASSUME NEW n \in 1 .. MaxCommits
      PROVE  RowEffect(t, {k}, n)
  <2>1. <<"8xbet", n>> \in Keys
    BY DEF Keys, Bookmakers
  <2>2. CASE <<"8xbet", n>> # k
    <3>1. attempt'[a][<<"8xbet", n>>] = attempt[a][<<"8xbet", n>>]
      BY <1>2, <2>1, <2>2
    <3>2. QED
      BY <2>2, <3>1 DEF RowEffect
  <2>3. CASE <<"8xbet", n>> = k
    <3>1. OnHedge(thr[t])
      <4>1. k[1] = "8xbet"
        BY <2>3
      <4>2. QED
        BY <4>1 DEF OnHedge, KeyOf
    <3>2. QED
      BY <1>3, <2>3, <3>1 DEF RowEffect
  <2>4. QED
    BY <2>2, <2>3
<1>5. AttemptEffect(t, {k})
  BY <1>4 DEF AttemptEffect
<1>6. ExposureEffect(t, {k}) /\ ActionEffect(t, {k}) /\ ElsewhereSame(t)
  BY <1>2 DEF ExposureEffect, ActionEffect, ElsewhereSame
<1>7. QED
  BY <1>1, <1>2, <1>5, <1>6, HedgeKept DEF Effects

(* The same for a thread that saves its attempt if nobody else has.        *)
LEMMA HedgeSaves ==
  ASSUME SafetyInv, CommitInv, HedgeInv, NEW t \in Threads, NEW st, NEW res, NEW p, NEW q,
         SaveAttempt(t, st, res, p, q), UNCHANGED <<action, expo>>, KeyOf(t) \in Keys,
         OnHedge(thr[t]) /\ ~thr[t].attStale =>
           \/ attempt[Subject(t)][KeyOf(t)].st \in PendingAttempt
           \/ thr[t].pc = "mark" \/ Revives(thr[t]),
         thr[t].attStale /\ UNCHANGED attempt =>
           SelfClaims(t, Goto(t, q), {}) /\ (Effects(t, {}) => SelfKnows(t, Goto(t, q))),
         LET a == Subject(t)
             row == attempt'[a][KeyOf(t)] IN
         /\ ~thr[t].attStale /\ row.st = st /\ row.res = res
         /\ \A j \in Keys : j # KeyOf(t) => attempt'[a][j] = attempt[a][j]
         => /\ SelfClaims(t, Goto(t, p), {KeyOf(t)})
            /\ Effects(t, {KeyOf(t)}) => SelfKnows(t, Goto(t, p))
  PROVE  HedgeInv'
<1>1. CASE thr[t].attStale
  <2>. DEFINE self == Goto(t, q)
              written == {}
  <2>1. UNCHANGED attempt /\ Advance(t, self, written)
    BY <1>1 DEF SaveAttempt
  <2>2. SelfClaims(t, self, written) /\ (Effects(t, written) => SelfKnows(t, self))
    BY <1>1, <2>1
  <2>3. written \subseteq {ActionRow, ExposureRow}
    OBVIOUS
  <2>. HIDE DEF self, written
  <2>4. QED
    BY <2>1, <2>2, <2>3, StatusesStay
<1>2. CASE ~thr[t].attStale
  <2>. DEFINE self == Goto(t, p)
  <2>1. /\ attempt' = [attempt EXCEPT ![Subject(t)][KeyOf(t)] = [st |-> st, res |-> res]]
        /\ Advance(t, self, {KeyOf(t)})
    BY <1>2 DEF SaveAttempt
  <2>2. LET a == Subject(t)
            row == attempt'[a][KeyOf(t)] IN
        /\ row.st = st /\ row.res = res
        /\ \A j \in Keys : j # KeyOf(t) => attempt'[a][j] = attempt[a][j]
        => SelfClaims(t, self, {KeyOf(t)}) /\ (Effects(t, {KeyOf(t)}) => SelfKnows(t, self))
    BY <1>2
  <2>. HIDE DEF self
  <2>3. QED
    BY <1>2, <2>1, <2>2, HedgeAttemptMoves
<1>3. QED
  BY <1>1, <1>2

(* Saved by a thread that becomes calm.                                    *)
LEMMA CalmSaves ==
  ASSUME SafetyInv, CommitInv, HedgeInv, NEW t \in Threads, NEW st, NEW res,
         NEW p \in CalmPoints \cup {"return"}, NEW q \in CalmPoints \cup {"return"},
         SaveAttempt(t, st, res, p, q), UNCHANGED <<action, expo>>, KeyOf(t) \in Keys,
         OnHedge(thr[t]) /\ ~thr[t].attStale =>
           attempt[Subject(t)][KeyOf(t)].st \in PendingAttempt
  PROVE  HedgeInv'
<1>1. \A x \in CalmPoints \cup {"return"} : Goto(t, x).pc \in CalmPoints
  BY CalmReturn, GotoKeeps DEF CalmPoints, Points
<1>2. /\ SelfClaims(t, Goto(t, q), {}) /\ SelfKnows(t, Goto(t, q))
      /\ SelfClaims(t, Goto(t, p), {KeyOf(t)}) /\ SelfKnows(t, Goto(t, p))
  BY <1>1, CalmSelf
<1>3. QED
  BY <1>2, HedgeSaves

(* A Jun88 ticket opens the exposure, or finds it open: nothing is under   *)
(* way in either case.                                                     *)
LEMMA HedgeOpens ==
  ASSUME SafetyInv, CommitInv, HedgeInv, NEW t \in Threads, NEW self \in ThreadState,
         CommitJun88Ticket(t, self), thr[t].pc \in TicketPoints,
         self.pc \in {"evaluate", "rec_jun_open"}, self.lag = thr[t].lag
  PROVE  HedgeInv'
<1>. DEFINE a == Subject(t)
            k == KeyOf(t)
<1>1. /\ a \in Actions /\ TypeOK /\ action \in [Actions -> ActionState]
      /\ expo \in [Actions -> ExposureState] /\ attempt \in [Actions -> [Keys -> AttemptState]]
  BY InvOf DEF TypeOK
<1>2. k[1] = "jun88" /\ k = thr[t].key
  BY InvOf DEF Fits, KnowsTicket, KeyOf
<1>3. CASE /\ expo[a].st = "none"
           /\ action' = [action EXCEPT ![a] = [@ EXCEPT !.st = "jun88_ticket_received",
                                                       !.link = "own"]]
           /\ attempt' = [attempt EXCEPT ![a][k] =
                            [st |-> "response_received", res |-> "ticket_accepted"]]
           /\ expo' = [expo EXCEPT ![a] = [st |-> "exposure_open", leased |-> FALSE,
                                           jun |-> k[2], hedge |-> 0]]
           /\ Advance(t, [self EXCEPT !.link = "own"], {ActionRow, k})
  <2>. DEFINE new == [self EXCEPT !.link = "own"]
              written == {ActionRow, k}
  <2>1. new.pc = self.pc /\ new.lag = self.lag /\ new.expoStale = self.expoStale
    BY DEF ThreadState
  <2>2. ActionRow \in written /\ Advance(t, new, written)
    BY <1>3
  <2>3. \A n : <<"8xbet", n>> \notin written
    BY <1>2, RowNames
  <2>. HIDE DEF new, written
  <2>4. Modest(new) /\ new.pc # "placing"
    BY <2>1 DEF Modest, HedgingPoints, CommitPoints
  <2>5. /\ \A n \in 1 .. MaxCommits : attempt'[a][<<"8xbet", n>>] = attempt[a][<<"8xbet", n>>]
        /\ \A b \in Actions \ {a} : attempt'[b] = attempt[b] /\ action'[b] = action[b] /\ expo'[b] = expo[b]
        /\ expo'[a].st = "exposure_open" /\ action'[a].st = "jun88_ticket_received"
    <3>1. \A n \in 1 .. MaxCommits : <<"8xbet", n>> \in Keys /\ <<"8xbet", n>> # k
      BY <1>2 DEF Keys, Bookmakers
    <3>2. action[a] \in ActionState
      BY <1>1
    <3>. HIDE DEF k, a
    <3>3. \A n \in 1 .. MaxCommits : attempt'[a][<<"8xbet", n>>] = attempt[a][<<"8xbet", n>>]
      BY <1>1, <1>3, <3>1
    <3>4. QED
      BY <1>1, <1>3, <3>2, <3>3 DEF ActionState
  <2>6. AttemptEffect(t, written)
    BY <2>3, <2>5 DEF AttemptEffect, RowEffect
  <2>7. SelfClaims(t, new, written)
    BY <2>4, ModestClaims
  <2>8. ~Busy(a, attempt[a], thr)
    BY <1>3, HedgeFacts DEF HedgeRows
  <2>9. ~Busy(a, attempt'[a], thr')
    BY <1>1, <2>2, <2>4, <2>6, <2>7, <2>8, BusyBefore
  <2>10. \A u \in Ours(a) \ {t} : ~AtHedge(thr'[u])
    BY <1>1, <1>3, <2>2, HedgeFacts, OthersGiveUp DEF HedgeThread, Ours
  <2>11. ExposureEffect(t, written)
    BY <1>3, <2>2, <2>5, <2>9, <2>10 DEF ExposureEffect
  <2>12. ActionEffect(t, written)
    BY <2>2, <2>5, <2>8 DEF ActionEffect, Busy
  <2>13. SelfKnows(t, new)
    <3>1. ~Underway(a, attempt'[a], thr')
      BY <2>9 DEF Busy
    <3>2. QED
      BY <2>1, <2>5, <3>1 DEF SelfKnows, KnowsRow, KnowsFree, KnowsUnhedged, MatcherPoints,
         CommitPoints, TicketPoints
  <2>14. ElsewhereSame(t)
    BY <2>5 DEF ElsewhereSame
  <2>15. QED
    BY <2>2, <2>6, <2>7, <2>11, <2>12, <2>13, <2>14, HedgeKept DEF Effects
<1>4. CASE /\ TicketKnown(t) /\ UNCHANGED rows
           /\ Advance(t, [self EXCEPT !.link = "lost", !.lag = IF @ > 0 THEN @ - 1 ELSE 0], {})
  <2>. DEFINE new == [self EXCEPT !.link = "lost", !.lag = IF @ > 0 THEN @ - 1 ELSE 0]
              written == {}
  <2>1. thr[t].lag \in 0 .. 2
    BY InvOf DEF ThreadState
  <2>2. new.pc = self.pc /\ new.expoStale = self.expoStale /\ (new.lag = 0 => thr[t].lag <= 1)
    BY <2>1 DEF ThreadState
  <2>3. Advance(t, new, written) /\ written \subseteq {ActionRow, ExposureRow}
    BY <1>4
  <2>. HIDE DEF new, written
  <2>4. Modest(new)
    BY <2>2 DEF Modest, HedgingPoints, CommitPoints
  <2>5. SelfClaims(t, new, written)
    BY <2>4, ModestClaims
  <2>6. thr[t].lag <= 1 => action[a].st = "jun88_ticket_received"
    BY <1>2, <1>4, HedgeFacts DEF TicketKnown, HedgeThread, KnowsUnhedged
  <2>7. new.lag = 0 => /\ ~Underway(a, attempt[a], thr')
                       /\ action[a].st = "jun88_ticket_received"
    BY <1>4, <2>2, <2>3, <2>4, <2>6, HedgeFacts, StaysFree DEF HedgeRows, rows
  <2>8. SelfKnows(t, new)
    BY <1>4, <2>2, <2>7 DEF SelfKnows, KnowsRow, KnowsFree, KnowsUnhedged, MatcherPoints,
       CommitPoints, TicketPoints, rows
  <2>9. QED
    BY <1>4, <2>3, <2>5, <2>8, StatusesStay DEF rows
<1>5. CASE UNCHANGED rows /\ Advance(t, Returned(t), {})
  BY <1>5, CalmStays, CalmReturn DEF rows
<1>6. QED
  BY <1>3, <1>4, <1>5 DEF CommitJun88Ticket
-----------------------------------------------------------------------------
(* The executor                                                            *)

(* A calm thread writes nothing but its action or exposure row, or none.   *)
LEMMA CalmSteps ==
  ASSUME SafetyInv, CommitInv, HedgeInv, NEW t \in Threads, NEW self,
         \E written \in SUBSET {ActionRow, ExposureRow} : Advance(t, self, written),
         self.pc \in CalmPoints, UNCHANGED attempt,
         \A a \in Actions : action'[a].st = action[a].st /\ expo'[a].st = expo[a].st
  PROVE  HedgeInv'
<1>1. PICK written \in SUBSET {ActionRow, ExposureRow} : Advance(t, self, written)
  OBVIOUS
<1>. written \subseteq {ActionRow, ExposureRow}
  OBVIOUS
<1>2. QED
  BY <1>1, CalmStays

(* The action is created while nobody else works on it.                    *)
LEMMA CreatedHedge ==
  ASSUME SafetyInv, CommitInv, HedgeInv, NEW t \in Threads, CreateAction(t)
  PROVE  HedgeInv'
<1>. DEFINE a == Subject(t)
            self == Goto(t, "reserve")
            written == {}
<1>1. /\ a \in Actions /\ action \in [Actions -> ActionState] /\ action[a].st = "none"
      /\ thr[t].pc = "create"
  BY InvOf DEF TypeOK, CreateAction, At, Sees, KnowsStatus
<1>2. /\ action'[a].st = "selecting" /\ \A b \in Actions \ {a} : action'[b] = action[b]
      /\ UNCHANGED <<attempt, expo>> /\ Advance(t, self, written)
  BY <1>1 DEF CreateAction, NoAction
<1>3. \A u \in Ours(a) : thr[u].pc \in {"idle", "create"}
  BY <1>1 DEF SafetyInv, VerdictInv, RowsAgree, Quiet, Ours
<1>4. self.pc \in CalmPoints
  BY GotoKeeps DEF Points, CalmPoints
<1>5. SelfClaims(t, self, written) /\ SelfKnows(t, self)
  BY <1>4, CalmSelf
<1>. HIDE DEF self
<1>6. AttemptEffect(t, written) /\ ExposureEffect(t, written) /\ ElsewhereSame(t)
  BY <1>2 DEF AttemptEffect, RowEffect, ExposureEffect, ElsewhereSame
<1>7. ActionEffect(t, written)
  BY <1>2, <1>3 DEF ActionEffect
<1>8. QED
  BY <1>2, <1>5, <1>6, <1>7, HedgeKept DEF Effects

(* The executor before its first commit and between two of them: it knows  *)
(* that there is no exposure.                                              *)
LEMMA ExecutorHedges ==
  ASSUME SafetyInv, CommitInv, HedgeInv, NEW t \in Threads, ExecutorStep(t)
  PROVE  HedgeInv'
<1>1. CASE CreateAction(t)
  BY <1>1, CreatedHedge
<1>2. CASE ReserveAccount(t)
  <2>1. UNCHANGED <<attempt, expo>>
    BY <1>2 DEF ReserveAccount
  <2>2. CASE Reserve(t, "prepare")
    <3>1. Goto(t, "prepare").pc \in CalmPoints
      BY GotoKeeps DEF Points, CalmPoints
    <3>2. SelfClaims(t, Goto(t, "prepare"), {ActionRow}) /\ SelfKnows(t, Goto(t, "prepare"))
      BY <3>1, CalmSelf
    <3>3. action' = Reserved(Subject(t)) /\ Advance(t, Goto(t, "prepare"), {ActionRow})
      BY <2>2 DEF Reserve
    <3>4. QED
      BY <2>1, <3>2, <3>3, HedgeReserving
  <2>3. CASE TransitionAction(t, "aborted_no_exposure", "release")
    BY <2>1, <2>3, CalmTransition DEF CalmPoints
  <2>4. QED
    BY <1>2, <2>2, <2>3 DEF ReserveAccount
<1>3. CASE PrepareBoth(t) \/ DryRun(t) \/ JunStart(t) \/ JunChanged(t) \/ JunUnknown(t) \/ Abort(t)
  <2>1. UNCHANGED <<attempt, expo>>
    BY <1>3 DEF PrepareBoth, DryRun, JunStart, JunChanged, JunUnknown, Abort
  <2>2. \E to \in {"ready", "aborted_no_exposure", "dry_run_completed", "placing_jun88",
                   "awaiting_odds_confirmation", "submission_unknown"} :
          \E p \in CalmPoints \cup {"return"} : TransitionAction(t, to, p)
    <3>1. \A p \in {"jun_start", "dry_run", "release", "jun_renew", "jun_reallocate", "return"} :
            p \in CalmPoints \cup {"return"}
      BY DEF CalmPoints
    <3>. DEFINE B == IF CommitEnabled THEN "jun_start" ELSE "dry_run"
    <3>2. B \in CalmPoints \cup {"return"}
      BY DEF CalmPoints
    <3>3. PrepareBoth(t) => \/ TransitionAction(t, "ready", B)
                            \/ TransitionAction(t, "aborted_no_exposure", "release")
      BY DEF PrepareBoth
    <3>. HIDE DEF B
    <3>4. QED
      BY <1>3, <3>1, <3>2, <3>3 DEF DryRun, JunStart, JunChanged, JunUnknown, Abort
  <2>3. QED
    BY <2>1, <2>2, CalmTransition
<1>4. CASE JunRenew(t)
  <2>. DEFINE self == [thr[t] EXCEPT !.pc = "new", !.key = <<"jun88", thr[t].round + 1>>]
  <2>1. UNCHANGED <<attempt, expo>> /\ thr[t].pc = "jun_renew" /\ thr[t] \in ThreadState
    BY <1>4, InvOf DEF JunRenew, At
  <2>2. CASE CanReserve(t) /\ action' = Reserved(Subject(t)) /\ Advance(t, self, {ActionRow})
    <3>1. self.pc = "new" /\ self.key[1] = "jun88"
      BY <2>1 DEF ThreadState
    <3>2. Modest(self)
      BY <3>1 DEF Modest, CommitPoints, HedgingPoints, OnHedge
    <3>3. expo[Subject(t)].st = "none"
      <4>1. action[Subject(t)].st = "placing_jun88"
        BY <2>1, <2>2, InvOf DEF CanReserve, Sees, KnowsStatus
      <4>2. QED
        BY <4>1, InvOf, StatusFacts DEF RowsOf
    <3>. HIDE DEF self
    <3>4. SelfClaims(t, self, {ActionRow})
      BY <3>2, ModestClaims
    <3>5. SelfKnows(t, self)
      BY <2>1, <3>1, <3>3 DEF SelfKnows, KnowsRow, KnowsFree, KnowsUnhedged, MatcherPoints
    <3>6. QED
      BY <2>1, <2>2, <3>4, <3>5, HedgeReserving
  <2>3. CASE TransitionAction(t, "aborted_no_exposure", "release")
    BY <2>1, <2>3, CalmTransition DEF CalmPoints
  <2>4. QED
    BY <1>4, <2>2, <2>3 DEF JunRenew
<1>5. CASE JunReallocate(t)
  <2>1. UNCHANGED <<attempt, expo>> /\ thr[t] \in ThreadState
    BY <1>5, InvOf DEF JunReallocate
  <2>2. CASE TransitionAction(t, "aborted_no_exposure", "release")
    BY <2>1, <2>2, CalmTransition DEF CalmPoints
  <2>3. CASE ~TransitionAction(t, "aborted_no_exposure", "release")
    <3>. DEFINE self == [thr[t] EXCEPT !.pc = "jun_start", !.round = @ + 1, !.key = NoKey]
    <3>1. action' = Moved(t, "ready") /\ Advance(t, self, {ActionRow})
      BY <1>5, <2>3 DEF JunReallocate
    <3>2. self.pc \in CalmPoints
      BY <2>1 DEF CalmPoints, ThreadState
    <3>. HIDE DEF self
    <3>3. SelfClaims(t, self, {ActionRow}) /\ SelfKnows(t, self)
      BY <3>2, CalmSelf
    <3>4. QED
      BY <2>1, <3>1, <3>3, HedgeActionMoves
  <2>4. QED
    BY <2>2, <2>3
<1>6. CASE JunAccepted(t) \/ JunOddsChanged(t) \/ JunRejected(t)
  <2>1. /\ KeyOf(t) \in Keys /\ thr[t].pc = "wait" /\ UNCHANGED <<action, expo>>
        /\ ~OnHedge(thr[t]) /\ KeyOf(t)[1] = "jun88"
    BY <1>6, InvOf, SavesItsKey DEF JunAccepted, JunOddsChanged, JunRejected, At, CommitPoints,
       OnHedge, KeyOf
  <2>2. CASE UNCHANGED attempt /\ Advance(t, Goto(t, "jun_ticket"), {})
    <3>. DEFINE self == Goto(t, "jun_ticket")
    <3>1. self.pc = "jun_ticket" /\ self.key = thr[t].key /\ self.lag = thr[t].lag
      BY GotoKeeps DEF Points
    <3>2. KnowsUnhedged(thr[t], action[Subject(t)].st, expo[Subject(t)].st)
      BY HedgeFacts DEF HedgeThread
    <3>3. Advance(t, self, {}) /\ {} \subseteq {ActionRow, ExposureRow}
      BY <2>2
    <3>. HIDE DEF self
    <3>4. SelfClaims(t, self, {})
      BY <3>1, ModestClaims DEF Modest, HedgingPoints, CommitPoints
    <3>5. SelfKnows(t, self)
      BY <2>1, <3>1, <3>2 DEF SelfKnows, KnowsRow, KnowsFree, KnowsUnhedged, MatcherPoints,
         CommitPoints, TicketPoints
    <3>6. \A a \in Actions : action'[a].st = action[a].st /\ expo'[a].st = expo[a].st
      BY <2>1
    <3>7. QED
      BY <2>2, <3>3, <3>4, <3>5, <3>6, StatusesStay
  <2>3. CASE ~(UNCHANGED attempt /\ Advance(t, Goto(t, "jun_ticket"), {}))
    <3>1. \E st, res : \E p \in CalmPoints \cup {"return"} : SaveAttempt(t, st, res, p, "jun_unknown")
      <4>1. \A p \in {"jun_unknown", "abort", "jun_changed"} : p \in CalmPoints \cup {"return"}
        BY DEF CalmPoints
      <4>2. \A p : p \in {"jun_unknown", IF thr[t].round >= MaxReprices THEN "abort" ELSE "jun_changed"}
              => p \in CalmPoints \cup {"return"}
        BY DEF CalmPoints
      <4>3. QED
        BY <1>6, <2>3, <4>1, <4>2 DEF JunAccepted, JunOddsChanged, JunRejected
    <3>2. "jun_unknown" \in CalmPoints \cup {"return"}
      BY DEF CalmPoints
    <3>3. QED
      BY <2>1, <3>1, <3>2, CalmSaves
  <2>4. QED
    BY <2>2, <2>3
<1>7. CASE JunTicket(t)
  <2>. DEFINE self == [thr[t] EXCEPT !.pc = "evaluate", !.key = <<"8xbet", 1>>, !.round = 0,
                                     !.expoStale = FALSE]
  <2>1. thr[t] \in ThreadState /\ MaxCommits \in Nat /\ MaxCommits > 0
    BY InvOf, BoundsAssumption
  <2>2. self \in ThreadState /\ self.pc = "evaluate" /\ self.lag = thr[t].lag
    <3>1. <<"8xbet", 1>> \in Keys /\ 0 \in 0 .. MaxCommits /\ "evaluate" \in Points
      BY <2>1 DEF Keys, Bookmakers, Points
    <3>. HIDE DEF Keys, Points
    <3>2. QED
      BY <2>1, <3>1 DEF ThreadState
  <2>3. CommitJun88Ticket(t, self) /\ thr[t].pc \in TicketPoints
    BY <1>7 DEF JunTicket, At, TicketPoints
  <2>. HIDE DEF self
  <2>4. QED
    BY <2>2, <2>3, HedgeOpens
<1>8. CASE Release(t)
  <2>1. action \in [Actions -> ActionState] /\ UNCHANGED <<attempt, expo>>
    BY <1>8, InvOf DEF Release, TypeOK
  <2>2. \A a \in Actions : action'[a].st = action[a].st
    BY <1>8, <2>1, InvOf DEF Release, ActionState
  <2>3. \E written \in SUBSET {ActionRow, ExposureRow} : Advance(t, Returned(t), written)
    BY <1>8 DEF Release
  <2>4. QED
    BY <2>1, <2>2, <2>3, CalmSteps, CalmReturn
<1>9. QED
  BY <1>1, <1>2, <1>3, <1>4, <1>5, <1>6, <1>7, <1>8 DEF ExecutorStep
-----------------------------------------------------------------------------
(* A commit                                                                *)

(* What a thread at a commit knows, and what it is about to be.            *)
LEMMA AtCommit ==
  ASSUME SafetyInv, CommitInv, HedgeInv, NEW t \in Threads, thr[t].pc \in CommitPoints
  PROVE  /\ KeyOf(t) \in Keys /\ KeyOf(t) = thr[t].key
         /\ OnHedge(thr[t]) \/ KeyOf(t)[1] = "jun88"
         /\ OnHedge(thr[t]) <=> KeyOf(t)[1] = "8xbet"
         /\ OnHedge(thr[t]) => \E n \in 1 .. MaxCommits : KeyOf(t) = <<"8xbet", n>>
         /\ AtHedge(thr[t]) => expo[Subject(t)].st = "hedging"
         /\ KnowsRow(thr[t], attempt[Subject(t)])
         /\ KnowsUnhedged(thr[t], action[Subject(t)].st, expo[Subject(t)].st)
<1>1. KeyOf(t) \in Keys /\ KeyOf(t) = thr[t].key
  BY SavesItsKey DEF KeyOf, SafetyInv
<1>2. KeyOf(t)[1] \in {"jun88", "8xbet"}
  BY <1>1 DEF Keys, Bookmakers
<1>3. OnHedge(thr[t]) => \E n \in 1 .. MaxCommits : KeyOf(t) = <<"8xbet", n>>
  BY <1>1 DEF Keys, OnHedge
<1>4. QED
  BY <1>1, <1>2, <1>3, HedgeFacts DEF HedgeThread, OnHedge

(* The thread goes on with its commit where nothing can be forgotten.      *)
LEMMA SelfGoesOn ==
  ASSUME SafetyInv, CommitInv, HedgeInv, NEW t \in Threads, thr[t].pc \in CommitPoints,
         NEW self, self.key = thr[t].key, self.lag = thr[t].lag,
         self.expoStale = thr[t].expoStale, self.attStale = thr[t].attStale,
         self.pc \in {"send", "wait"},
         thr[t].pc \in {"mark", "send"}, NEW written, UNCHANGED <<action, expo>>,
         OnHedge(thr[t]) /\ ~thr[t].attStale => attempt'[Subject(t)][self.key].st \in PendingAttempt
  PROVE  SelfClaims(t, self, written) /\ SelfKnows(t, self)
<1>1. AtHedge(self) => AtHedge(thr[t])
  BY DEF AtHedge, OnHedge
<1>2. ~Claims(self) /\ ~Revives(self) /\ self.pc # "placing" /\ self.pc # "rec_complete"
  BY DEF Claims, Revives
<1>3. SelfClaims(t, self, written)
  BY <1>1, <1>2, AtCommit DEF SelfClaims
<1>4. KnowsRow(self, attempt'[Subject(t)])
  BY DEF KnowsRow, OnHedge
<1>5. KnowsUnhedged(self, action'[Subject(t)].st, expo'[Subject(t)].st)
  BY AtCommit DEF KnowsUnhedged, CommitPoints
<1>6. QED
  BY <1>3, <1>4, <1>5 DEF SelfKnows, KnowsFree, MatcherPoints

(* It ends at the record of an unresolved submission.                      *)
LEMMA SelfUnresolved ==
  ASSUME SafetyInv, CommitInv, HedgeInv, NEW t \in Threads, thr[t].pc \in CommitPoints \ {"new"},
         NEW awaiting \in BOOLEAN, NEW written, UNCHANGED <<action, expo>>,
         OnHedge(thr[t]) /\ ~thr[t].attStale /\ ~awaiting =>
           attempt[Subject(t)][KeyOf(t)].st \in {"before_send"} \cup PendingAttempt
  PROVE  LET self == Goto(t, Unresolved(t, awaiting)) IN
         SelfClaims(t, self, written) /\ SelfKnows(t, self)
<1>. DEFINE p == Unresolved(t, awaiting)
            self == Goto(t, p)
<1>1. CASE KeyOf(t)[1] = "jun88"
  <2>1. p = "jun_unknown"
    BY <1>1 DEF Unresolved
  <2>2. self.pc \in CalmPoints
    BY <2>1, GotoKeeps DEF Points, CalmPoints
  <2>3. QED
    BY <2>2, CalmSelf
<1>2. CASE KeyOf(t)[1] # "jun88"
  <2>1. p = (IF awaiting THEN "hedge_unknown" ELSE "hedge_unknown_attempt")
    BY <1>2 DEF Unresolved
  <2>2. /\ self.pc = p /\ self.key = thr[t].key /\ self.attStale = thr[t].attStale
        /\ self.expoStale = thr[t].expoStale
    BY <2>1, GotoKeeps DEF Points
  <2>. HIDE DEF p, self
  <2>3. PICK n \in 1 .. MaxCommits : KeyOf(t) = <<"8xbet", n>> /\ self.key = KeyOf(t)
    BY <1>2, <2>2, AtCommit
  <2>4. OnHedge(thr[t]) /\ OnHedge(self)
    BY <1>2, <2>2, <2>3, AtCommit DEF OnHedge
  <2>5. AtHedge(self) => AtHedge(thr[t])
    BY <2>1, <2>2, <2>4 DEF AtHedge, CommitPoints
  <2>6. ~Claims(self) /\ self.pc # "placing" /\ self.pc # "rec_complete"
    BY <2>1, <2>2 DEF Claims
  <2>7. Revives(self) => /\ Live(attempt[Subject(t)][KeyOf(t)])
                         /\ attempt[Subject(t)][KeyOf(t)].st # "response_received"
    BY <2>1, <2>2, <2>4 DEF Revives, Live, PendingAttempt
  <2>8. Revives(self) => Underway(Subject(t), attempt[Subject(t)], thr)
    BY <2>3, <2>7 DEF Underway, Spent, LiveHedge
  <2>9. SelfClaims(t, self, written)
    BY <2>3, <2>5, <2>6, <2>7, <2>8, AtCommit DEF SelfClaims
  <2>10. SelfKnows(t, self)
    BY <2>1, <2>2 DEF SelfKnows, KnowsRow, KnowsFree, KnowsUnhedged, MatcherPoints, CommitPoints,
       TicketPoints
  <2>11. QED
    BY <2>9, <2>10 DEF self, p
<1>3. QED
  BY <1>1, <1>2

(* A commit is recorded: on the hedge, by the thread that claims it.       *)
LEMMA RecordedHedge ==
  ASSUME SafetyInv, CommitInv, HedgeInv, NEW t \in Threads, NewAttempt(t)
  PROVE  HedgeInv'
<1>. DEFINE a == Subject(t)
            k == KeyOf(t)
            written == {}
<1>1. thr[t].pc = "new" /\ thr[t].pc \in CommitPoints /\ UNCHANGED <<action, expo>>
  BY DEF NewAttempt, At, CommitPoints
<1>2. CASE attempt[a][k].st # "none"
  <2>1. UNCHANGED attempt /\ Advance(t, Returned(t), written)
    BY <1>2 DEF NewAttempt
  <2>2. QED
    BY <1>1, <2>1, CalmStays, CalmReturn
<1>3. CASE attempt[a][k].st = "none"
  <2>. DEFINE self == [Goto(t, "mark") EXCEPT !.attStale = FALSE]
  <2>1. /\ attempt' = [attempt EXCEPT ![a][k] = [st |-> "before_send", res |-> "none"]]
        /\ Advance(t, self, written)
    BY <1>3 DEF NewAttempt
  <2>2. /\ self.pc = "mark" /\ self.key = thr[t].key /\ self.lag = thr[t].lag
        /\ self.expoStale = thr[t].expoStale /\ ~self.attStale
    <3>1. Goto(t, "mark") \in ThreadState
      BY InvOf, GotoFields DEF Points
    <3>2. QED
      BY <3>1, GotoKeeps DEF Points, ThreadState
  <2>. HIDE DEF self, written
  <2>3. a \in Actions /\ attempt \in [Actions -> [Keys -> AttemptState]] /\ k \in Keys /\ k = thr[t].key
    BY <1>1, InvOf, AtCommit DEF TypeOK
  <2>. HIDE DEF k
  <2>4. /\ attempt'[a][k].st = "before_send"
        /\ \A j \in Keys : j # k => attempt'[a][j] = attempt[a][j]
        /\ \A b \in Actions \ {a} : attempt'[b] = attempt[b]
    BY <2>1, <2>3
  <2>5. ASSUME NEW n \in 1 .. MaxCommits
        PROVE  RowEffect(t, {}, n)
    <3>1. <<"8xbet", n>> \in Keys
      BY DEF Keys, Bookmakers
    <3>2. CASE <<"8xbet", n>> # k
      <4>1. attempt'[a][<<"8xbet", n>>] = attempt[a][<<"8xbet", n>>]
        BY <2>4, <3>1, <3>2
      <4>2. QED
        BY <4>1 DEF RowEffect
    <3>3. CASE <<"8xbet", n>> = k
      <4>1. OnHedge(thr[t]) /\ k = KeyOf(t)
        <5>1. k[1] = "8xbet"
          BY <3>3
        <5>2. QED
          BY <2>3, <5>1 DEF OnHedge, k
      <4>2. QED
        BY <1>1, <1>3, <2>4, <3>3, <4>1 DEF RowEffect, k
    <3>4. QED
      BY <3>2, <3>3
  <2>6. AttemptEffect(t, written)
    BY <2>5 DEF AttemptEffect, written
  <2>7. ExposureEffect(t, written) /\ ActionEffect(t, written) /\ ElsewhereSame(t)
    BY <1>1, <2>4 DEF ExposureEffect, ActionEffect, ElsewhereSame
  <2>8. AtHedge(self) => AtHedge(thr[t])
    BY <1>1, <2>2 DEF AtHedge, OnHedge
  <2>9. ~Claims(self) /\ ~Revives(self) /\ self.pc # "placing" /\ self.pc # "rec_complete"
    BY <2>2 DEF Claims, Revives
  <2>10. SelfClaims(t, self, written)
    BY <1>1, <2>8, <2>9, AtCommit DEF SelfClaims
  <2>11. SelfKnows(t, self)
    BY <1>1, <2>2, AtCommit DEF SelfKnows, KnowsRow, KnowsFree, KnowsUnhedged, MatcherPoints, CommitPoints
  <2>12. QED
    BY <2>1, <2>6, <2>7, <2>10, <2>11, HedgeKept DEF Effects
<1>4. QED
  BY <1>2, <1>3

(* A commit until it has an answer or is given up.                         *)
LEMMA AttemptHedges ==
  ASSUME SafetyInv, CommitInv, HedgeInv, NEW t \in Threads, AttemptStep(t) \/ MarkFails(t)
  PROVE  HedgeInv'
<1>1. CASE NewAttempt(t)
  BY <1>1, RecordedHedge
<1>2. CASE MarkStarted(t)
  <2>1. thr[t].pc = "mark" /\ thr[t].pc \in CommitPoints \ {"new"} /\ UNCHANGED <<action, expo>>
    BY <1>2 DEF MarkStarted, At, CommitPoints
  <2>2. OnHedge(thr[t]) => ~thr[t].attStale
    BY <2>1, AtCommit DEF KnowsRow
  <2>3. SaveAttempt(t, "submit_started", "none", "send", Unresolved(t, FALSE))
    BY <1>2 DEF MarkStarted
  <2>4. thr[t].attStale /\ UNCHANGED attempt =>
          SelfClaims(t, Goto(t, Unresolved(t, FALSE)), {}) /\ SelfKnows(t, Goto(t, Unresolved(t, FALSE)))
    BY <2>1, <2>2, SelfUnresolved
  <2>5. attempt'[Subject(t)][KeyOf(t)].st = "submit_started" =>
          SelfClaims(t, Goto(t, "send"), {KeyOf(t)}) /\ SelfKnows(t, Goto(t, "send"))
    <3>. DEFINE self == Goto(t, "send")
    <3>1. /\ self.pc = "send" /\ self.key = thr[t].key /\ self.lag = thr[t].lag
          /\ self.expoStale = thr[t].expoStale /\ self.attStale = thr[t].attStale
      BY GotoKeeps DEF Points
    <3>. HIDE DEF self
    <3>2. ASSUME attempt'[Subject(t)][KeyOf(t)].st = "submit_started"
          PROVE  SelfClaims(t, self, {KeyOf(t)}) /\ SelfKnows(t, self)
      BY <2>1, <3>1, <3>2, SelfGoesOn, AtCommit DEF PendingAttempt
    <3>3. QED
      BY <3>2 DEF self
  <2>6. QED
    BY <2>1, <2>3, <2>4, <2>5, HedgeSaves, AtCommit
<1>3. CASE MarkFails(t)
  <2>1. /\ thr[t].pc = "mark" /\ thr[t].pc \in CommitPoints \ {"new"}
        /\ UNCHANGED <<action, attempt, expo>>
    BY <1>3 DEF MarkFails, At, CommitPoints, rows
  <2>2. OnHedge(thr[t]) => attempt[Subject(t)][KeyOf(t)].st = "before_send"
    <3>1. OnHedge(thr[t]) => ~thr[t].attStale
      BY <2>1, AtCommit DEF KnowsRow
    <3>2. KnowsCommit(thr[t], attempt[Subject(t)])
      BY DEF CommitInv, ThreadsCommit
    <3>3. QED
      BY <2>1, <3>1, <3>2 DEF KnowsCommit, KeyOf
  <2>. DEFINE self == Goto(t, Unresolved(t, FALSE))
              written == {}
  <2>3. SelfClaims(t, self, written) /\ SelfKnows(t, self)
    BY <2>1, <2>2, SelfUnresolved
  <2>4. Advance(t, self, written) /\ written \subseteq {ActionRow, ExposureRow}
    BY <1>3 DEF MarkFails
  <2>. HIDE DEF self, written
  <2>5. QED
    BY <2>1, <2>3, <2>4, StatusesStay
<1>4. CASE SendCommit(t)
  <2>1. /\ thr[t].pc = "send" /\ thr[t].pc \in CommitPoints /\ UNCHANGED <<action, attempt, expo>>
        /\ Advance(t, Goto(t, "wait"), {})
    BY <1>4 DEF SendCommit, At, CommitPoints, rows
  <2>. DEFINE self == Goto(t, "wait")
              written == {}
  <2>2. /\ self.pc = "wait" /\ self.key = thr[t].key /\ self.lag = thr[t].lag
        /\ self.expoStale = thr[t].expoStale /\ self.attStale = thr[t].attStale
    BY GotoKeeps DEF Points
  <2>3. Advance(t, self, written) /\ written \subseteq {ActionRow, ExposureRow}
    BY <2>1
  <2>. HIDE DEF self, written
  <2>4. OnHedge(thr[t]) /\ ~thr[t].attStale => attempt[Subject(t)][thr[t].key].st \in PendingAttempt
    BY <2>1, AtCommit DEF KnowsRow
  <2>5. SelfClaims(t, self, written) /\ SelfKnows(t, self)
    BY <2>1, <2>2, <2>4, SelfGoesOn
  <2>6. QED
    BY <2>1, <2>3, <2>5, StatusesStay
<1>5. CASE SendRefused(t) \/ CommitTimeout(t) \/ CommitUnknown(t)
  <2>1. /\ thr[t].pc \in {"send", "wait"} /\ thr[t].pc \in CommitPoints \ {"new"}
        /\ UNCHANGED <<action, expo>>
    BY <1>5 DEF SendRefused, CommitTimeout, CommitUnknown, At, CommitPoints
  <2>2. OnHedge(thr[t]) /\ ~thr[t].attStale => attempt[Subject(t)][KeyOf(t)].st \in PendingAttempt
    BY <2>1, AtCommit DEF KnowsRow
  <2>3. PICK st, res, awaiting :
          /\ awaiting \in BOOLEAN
          /\ SaveAttempt(t, st, res, Unresolved(t, awaiting), Unresolved(t, awaiting))
    <3>1. SendRefused(t) =>
            SaveAttempt(t, "response_received", "rejected", Unresolved(t, FALSE), Unresolved(t, FALSE))
      BY DEF SendRefused
    <3>2. CommitTimeout(t) \/ CommitUnknown(t) =>
            SaveAttempt(t, "awaiting_reconcile", "submission_unknown", Unresolved(t, TRUE),
                        Unresolved(t, TRUE))
      BY DEF CommitTimeout, CommitUnknown
    <3>3. QED
      BY <1>5, <3>1, <3>2
  <2>4. \A written : SelfClaims(t, Goto(t, Unresolved(t, awaiting)), written)
                     /\ SelfKnows(t, Goto(t, Unresolved(t, awaiting)))
    BY <2>1, <2>2, <2>3, SelfUnresolved
  <2>5. KeyOf(t) \in Keys
    BY <2>1, AtCommit
  <2>6. QED
    BY <2>1, <2>2, <2>3, <2>4, <2>5, HedgeSaves
<1>6. QED
  BY <1>1, <1>2, <1>3, <1>4, <1>5 DEF AttemptStep
-----------------------------------------------------------------------------
(* The hedge                                                               *)

(* Points with which a thread knows nothing that could be forgotten.       *)
SilentPoints ==
  {"placing", "hedge_renew", "hedge_done", "hedge_changed", "hedge_rejected", "hedge_unknown",
   "hedge_unknown_attempt", "rec_read", "rec_reopen"}

(* Where a hedge ends that has left the exposure open.                     *)
OpenPoints == {"open", "open_action", "hedge_reprice"}

(* There a thread has nothing to know.                                     *)
LEMMA SilentSelf ==
  ASSUME NEW t, NEW self, self.pc \in SilentPoints \/ (self.pc = "new" /\ OnHedge(self))
  PROVE  SelfKnows(t, self)
  BY DEF SilentPoints, SelfKnows, KnowsRow, KnowsFree, KnowsUnhedged, MatcherPoints, CommitPoints,
         TicketPoints, OnHedge

(* Here it knows, if nobody has written the action, that no hedge is under *)
(* way.                                                                    *)
LEMMA OpenSelf ==
  ASSUME NEW t, NEW self, NEW written, self.pc \in OpenPoints
  PROVE  /\ Modest(self) /\ SelfClaims(t, self, written)
         /\ /\ self.lag = 0 => LET a == Subject(t) IN ~Underway(a, attempt'[a], thr')
            => SelfKnows(t, self)
<1>1. Modest(self)
  BY DEF OpenPoints, Modest, HedgingPoints, CommitPoints
<1>2. (self.lag = 0 => LET a == Subject(t) IN ~Underway(a, attempt'[a], thr')) => SelfKnows(t, self)
  BY DEF OpenPoints, SelfKnows, KnowsRow, KnowsFree, KnowsUnhedged, MatcherPoints, CommitPoints,
         TicketPoints
<1>3. QED
  BY <1>1, <1>2, ModestClaims

(* From where an exposure gets to a status.                                *)
LEMMA ExposureOrigins ==
  ASSUME NEW s, NEW to, <<s, to>> \in ExposureMoves
  PROVE  /\ to = "hedging" => s = "exposure_open"
         /\ to = "exposure_open" => s \in {"hedging", "submission_unknown", "manual_review"}
         /\ to = "unhedged_closed" => s \in {"exposure_open", "submission_unknown", "manual_review"}
<1>1. PICK l \in DOMAIN ExposureNext : s = l /\ to \in ExposureNext[l]
  BY DEF ExposureMoves
<1>2. QED
  BY <1>1 DEF ExposureNext

(* The exposure is saved as it is.                                         *)
LEMMA HedgeSavesExposure ==
  ASSUME SafetyInv, CommitInv, HedgeInv, NEW t \in Threads, NEW p, SaveExposure(t, p),
         UNCHANGED <<action, attempt>>,
         ~thr[t].expoStale =>
           /\ SelfClaims(t, Goto(t, p), {ExposureRow})
           /\ Effects(t, {ExposureRow}) /\ thr'[t] = Goto(t, p) => SelfKnows(t, Goto(t, p))
  PROVE  HedgeInv'
<1>1. UNCHANGED expo
  BY DEF SaveExposure
<1>2. CASE thr[t].expoStale
  <2>1. Advance(t, Returned(t), {})
    BY <1>2 DEF SaveExposure
  <2>2. QED
    BY <1>1, <2>1, CalmStays, CalmReturn
<1>3. CASE ~thr[t].expoStale
  <2>. DEFINE self == Goto(t, p)
              written == {ExposureRow}
  <2>1. Advance(t, self, written) /\ written \subseteq {ActionRow, ExposureRow}
    BY <1>3 DEF SaveExposure
  <2>2. SelfClaims(t, self, written) /\ (Effects(t, written) /\ thr'[t] = self => SelfKnows(t, self))
    BY <1>3
  <2>. HIDE DEF self, written
  <2>3. QED
    BY <1>1, <2>1, <2>2, StatusesStay
<1>4. QED
  BY <1>2, <1>3

(* The beginning of a hedge: the quote is recorded, the exposure set to    *)
(* hedging, the action to placing_8xbet, the reservation renewed.          *)
LEMMA BeginningHedges ==
  ASSUME SafetyInv, CommitInv, HedgeInv, NEW t \in Threads,
         Evaluate(t) \/ Hedging(t) \/ Placing(t) \/ HedgeRenew(t)
  PROVE  HedgeInv'
<1>. DEFINE a == Subject(t)
<1>1. CASE Evaluate(t)
  <2>1. thr[t].pc = "evaluate" /\ UNCHANGED <<action, attempt, expo>>
    BY <1>1 DEF Evaluate, At, SaveExposure
  <2>2. PICK p \in {"open", "hedging"} : SaveExposure(t, p)
    BY <1>1 DEF Evaluate
  <2>3. CASE p = "hedging"
    <3>1. Goto(t, p).pc \in CalmPoints
      BY <2>3, GotoKeeps DEF Points, CalmPoints
    <3>2. SelfClaims(t, Goto(t, p), {ExposureRow}) /\ SelfKnows(t, Goto(t, p))
      BY <3>1, CalmSelf
    <3>3. QED
      BY <2>1, <2>2, <3>2, HedgeSavesExposure
  <2>4. CASE p = "open"
    <3>. DEFINE self == Goto(t, p)
    <3>1. self.pc \in OpenPoints /\ self.lag = thr[t].lag
      BY <2>4, GotoKeeps DEF Points, OpenPoints
    <3>2. ~thr[t].expoStale => Advance(t, self, {ExposureRow})
      BY <2>2 DEF SaveExposure
    <3>. HIDE DEF self
    <3>3. Modest(self) /\ SelfClaims(t, self, {ExposureRow})
      BY <3>1, OpenSelf
    <3>4. ~thr[t].expoStale /\ self.lag = 0 => ~Underway(a, attempt'[a], thr')
      <4>1. ~thr[t].expoStale /\ self.lag = 0 => ~Underway(a, attempt[a], thr)
        BY <2>1, <3>1, HedgeFacts DEF HedgeThread, KnowsFree
      <4>. {ExposureRow} \subseteq {ActionRow, ExposureRow}
        OBVIOUS
      <4>2. QED
        BY <2>1, <3>2, <3>3, <4>1, StaysFree
    <3>5. ~thr[t].expoStale => SelfKnows(t, self)
      BY <3>1, <3>4, OpenSelf
    <3>6. QED
      BY <2>1, <2>2, <3>3, <3>5, HedgeSavesExposure DEF self
  <2>5. QED
    BY <2>3, <2>4
<1>2. CASE Hedging(t)
  <2>1. thr[t].pc = "hedging" /\ UNCHANGED <<action, attempt>> /\ TransitionExposure(t, "hedging", "placing")
    BY <1>2 DEF Hedging, At
  <2>. DEFINE self == Goto(t, "placing")
  <2>2. self.pc = "placing"
    BY GotoKeeps DEF Points
  <2>. HIDE DEF self
  <2>3. ASSUME CanMoveExposure(t, "hedging")
        PROVE  /\ expo[a].st # "hedging"
               /\ expo'[a].st = "hedging" => SelfClaims(t, self, {ExposureRow})
               /\ SelfKnows(t, self)
    <3>1. expo[a].st = "exposure_open"
      BY <2>3, ExposureOrigins DEF CanMoveExposure
    <3>2. ~Busy(a, attempt[a], thr)
      BY <3>1, HedgeFacts DEF HedgeRows
    <3>3. Spent(attempt[a])
      BY <3>2 DEF Busy, Underway
    <3>4. Claims(self) /\ AtHedge(self) /\ ~Revives(self)
      BY <2>2 DEF Claims, AtHedge, Revives
    <3>5. expo'[a].st = "hedging" => SelfClaims(t, self, {ExposureRow})
      BY <2>1, <2>2, <3>1, <3>2, <3>3, <3>4 DEF SelfClaims
    <3>6. SelfKnows(t, self)
      BY <2>2, SilentSelf DEF SilentPoints
    <3>7. QED
      BY <3>1, <3>5, <3>6
  <2>4. QED
    BY <2>1, <2>3, HedgeExposureTransition DEF self
<1>3. CASE Placing(t)
  <2>1. /\ thr[t].pc = "placing" /\ UNCHANGED <<attempt, expo>>
        /\ TransitionAction(t, "placing_8xbet", "hedge_renew")
    BY <1>3 DEF Placing, At
  <2>. DEFINE self == Goto(t, "hedge_renew")
  <2>2. self.pc = "hedge_renew"
    BY GotoKeeps DEF Points
  <2>. HIDE DEF self
  <2>3. Claims(thr[t]) /\ AtHedge(thr[t]) /\ Claims(self) /\ ~Revives(self)
    BY <2>1, <2>2 DEF Claims, AtHedge, Revives
  <2>4. expo[a].st = "hedging" /\ Spent(attempt[a])
    BY <2>3, HedgeFacts DEF HedgeThread
  <2>5. action'[a].st = "placing_8xbet" => SelfClaims(t, self, {ActionRow})
    BY <2>1, <2>2, <2>3, <2>4 DEF SelfClaims
  <2>6. SelfKnows(t, self)
    BY <2>2, SilentSelf DEF SilentPoints
  <2>7. QED
    BY <2>1, <2>5, <2>6, HedgeTransition DEF self
<1>4. CASE HedgeRenew(t)
  <2>1. thr[t].pc = "hedge_renew" /\ UNCHANGED attempt
    BY <1>4 DEF HedgeRenew, At
  <2>2. Claims(thr[t]) /\ AtHedge(thr[t])
    BY <2>1 DEF Claims, AtHedge
  <2>3. expo[a].st = "hedging" /\ Spent(attempt[a])
    BY <2>2, HedgeFacts DEF HedgeThread
  <2>4. a \in Actions /\ expo \in [Actions -> ExposureState] /\ thr[t].key[1] = "8xbet"
    BY <2>1, InvOf DEF TypeOK, Fits, KnowsKey, HedgePoints
  <2>5. CASE Reserve(t, "new") /\ UNCHANGED expo
    <3>. DEFINE self == Goto(t, "new")
    <3>1. self.pc = "new" /\ self.key = thr[t].key
      BY GotoKeeps DEF Points
    <3>2. action' = Reserved(a) /\ Advance(t, self, {ActionRow})
      BY <2>5 DEF Reserve
    <3>. HIDE DEF self
    <3>3. OnHedge(self) /\ ~Revives(self) /\ t \in Ours(a)
      BY <2>4, <3>1 DEF OnHedge, Revives, Ours
    <3>4. Underway(a, attempt[a], thr)
      BY <2>1, <2>2, <3>3 DEF Underway
    <3>5. SelfClaims(t, self, {ActionRow})
      BY <2>1, <2>2, <2>3, <2>5, <3>1, <3>3, <3>4 DEF SelfClaims
    <3>6. SelfKnows(t, self)
      BY <3>1, <3>3, SilentSelf
    <3>7. QED
      BY <2>1, <2>5, <3>2, <3>5, <3>6, HedgeReserving
  <2>6. CASE /\ UNCHANGED action
             /\ expo' = IF thr[t].expoStale THEN expo ELSE [expo EXCEPT ![a].st = "exposure_open"]
             /\ Advance(t, Goto(t, "open"), IF thr[t].expoStale THEN {} ELSE {ExposureRow})
    <3>. DEFINE self == Goto(t, "open")
                written == IF thr[t].expoStale THEN {} ELSE {ExposureRow}
    <3>1. self.pc \in OpenPoints
      BY GotoKeeps DEF Points, OpenPoints
    <3>2. Advance(t, self, written)
      BY <2>6
    <3>3. written \subseteq {ActionRow, ExposureRow} /\ (~thr[t].expoStale => written = {ExposureRow})
      OBVIOUS
    <3>. HIDE DEF self, written
    <3>4. Modest(self) /\ SelfClaims(t, self, written)
      BY <3>1, OpenSelf
    <3>5. ~Underway(a, attempt'[a], thr')
      BY <2>1, <2>2, <3>2, <3>4, ClaimGivenUp
    <3>6. SelfKnows(t, self)
      BY <3>1, <3>5, OpenSelf
    <3>7. CASE thr[t].expoStale
      BY <2>1, <2>6, <3>2, <3>3, <3>4, <3>6, <3>7, StatusesStay
    <3>8. CASE ~thr[t].expoStale
      <4>1. \A b \in Actions : expo'[b].st = IF b = Subject(t) THEN "exposure_open" ELSE expo[b].st
        BY <2>4, <2>6, <3>8 DEF ExposureState
      <4>2. QED
        BY <2>1, <2>2, <2>3, <2>6, <3>2, <3>3, <3>4, <3>6, <3>8, <4>1, HedgeExposureMoves
    <3>9. QED
      BY <3>7, <3>8
  <2>7. QED
    BY <1>4, <2>5, <2>6 DEF HedgeRenew
<1>5. QED
  BY <1>1, <1>2, <1>3, <1>4

(* The thread waits for the answer of its 8xbet commit.                    *)
LEMMA AnsweredHedges ==
  ASSUME SafetyInv, CommitInv, HedgeInv, NEW t \in Threads, HedgeAnswered(t)
  PROVE  HedgeInv'
<1>. DEFINE a == Subject(t)
            k == KeyOf(t)
<1>1. /\ thr[t].pc = "wait" /\ thr[t].pc \in CommitPoints \ {"new"} /\ UNCHANGED <<action, expo>>
      /\ k[1] = "8xbet" /\ k \in Keys /\ OnHedge(thr[t])
  BY AtCommit DEF HedgeAnswered, At, CommitPoints
<1>2. PICK n \in 1 .. MaxCommits : k = <<"8xbet", n>>
  BY <1>1, AtCommit
<1>3. ~thr[t].attStale => attempt[a][k].st \in PendingAttempt
  BY <1>1, AtCommit DEF KnowsRow
<1>4. Unresolved(t, FALSE) = "hedge_unknown_attempt"
  BY <1>1 DEF Unresolved
<1>5. \A written : /\ SelfClaims(t, Goto(t, "hedge_unknown_attempt"), written)
                   /\ SelfKnows(t, Goto(t, "hedge_unknown_attempt"))
  <2>1. \A written : /\ SelfClaims(t, Goto(t, Unresolved(t, FALSE)), written)
                     /\ SelfKnows(t, Goto(t, Unresolved(t, FALSE)))
    BY <1>1, <1>3, SelfUnresolved
  <2>2. QED
    BY <1>4, <2>1
<1>6. PICK res, p :
        /\ p \in {"hedge_done", "hedge_changed", "hedge_rejected", "hedge_unknown_attempt"}
        /\ SaveAttempt(t, "response_received", res, p, "hedge_unknown_attempt")
        /\ p \in {"hedge_changed", "hedge_rejected"} => res \in Negative
  <2>1. PICK p \in {"hedge_done", "hedge_changed", "hedge_rejected", "hedge_unknown_attempt"} :
          /\ SaveAttempt(t, "response_received", thr[t].rsp, p, "hedge_unknown_attempt")
          /\ p = "hedge_changed" => thr[t].rsp = "odds_changed"
          /\ p = "hedge_rejected" => thr[t].rsp = "rejected"
    BY DEF HedgeAnswered
  <2>2. QED
    BY <2>1 DEF Negative
<1>7. ASSUME LET row == attempt'[a][k] IN
             /\ ~thr[t].attStale /\ row.st = "response_received" /\ row.res = res
             /\ \A j \in Keys : j # k => attempt'[a][j] = attempt[a][j]
      PROVE  SelfClaims(t, Goto(t, p), {k}) /\ SelfKnows(t, Goto(t, p))
  <2>1. CASE p = "hedge_unknown_attempt"
    BY <1>5, <2>1
  <2>2. CASE p # "hedge_unknown_attempt"
    <3>. DEFINE self == Goto(t, p)
    <3>1. self.pc = p /\ self.expoStale = thr[t].expoStale
      BY <1>6, GotoKeeps DEF Points
    <3>. HIDE DEF self
    <3>2. SelfKnows(t, self)
      BY <1>6, <2>2, <3>1, SilentSelf DEF SilentPoints
    <3>3. AtHedge(self) => AtHedge(thr[t])
      BY <1>1, <1>6, <2>2, <3>1 DEF AtHedge
    <3>4. ~Revives(self) /\ self.pc # "placing" /\ self.pc # "rec_complete"
      BY <1>6, <2>2, <3>1 DEF Revives
    <3>5. LiveHedge(attempt[a], n)
      BY <1>2, <1>3, <1>7 DEF LiveHedge, Live, PendingAttempt
    <3>6. Claims(self) => Spent(attempt'[a])
      <4>1. Claims(self) => res \in Negative
        BY <1>6, <2>2, <3>1 DEF Claims
      <4>2. res \in Negative => ~LiveHedge(attempt'[a], n)
        BY <1>2, <1>7 DEF LiveHedge, Live
      <4>3. QED
        BY <1>2, <1>7, <3>5, <4>1, <4>2, RefusalSpends
    <3>7. Underway(a, attempt[a], thr)
      BY <3>5 DEF Underway, Spent
    <3>8. SelfClaims(t, self, {k})
      BY <1>1, <1>2, <3>3, <3>4, <3>5, <3>6, <3>7, AtCommit DEF SelfClaims, LiveHedge
    <3>9. QED
      BY <3>2, <3>8 DEF self
  <2>3. QED
    BY <2>1, <2>2
<1>8. QED
  BY <1>1, <1>3, <1>5, <1>6, <1>7, HedgeSaves

(* The end of a round: completed, refused or changed, or unknown.          *)
LEMMA EndingHedges ==
  ASSUME SafetyInv, CommitInv, HedgeInv, NEW t \in Threads,
         \/ HedgeDone(t) \/ Complete(t) \/ HedgeUnknown(t) \/ HedgeUnknownAction(t)
         \/ HedgeUnknownAttempt(t)
  PROVE  HedgeInv'
<1>. DEFINE a == Subject(t)
<1>1. CASE HedgeDone(t)
  <2>1. thr[t].pc = "hedge_done" /\ UNCHANGED <<action, attempt>>
    BY <1>1 DEF HedgeDone, At
  <2>2. CASE CanMoveExposure(t, "completed")
    <3>. DEFINE self == Goto(t, "complete")
    <3>1. self.pc \in CalmPoints
      BY GotoKeeps DEF Points, CalmPoints
    <3>2. expo' = Completed(t) /\ Advance(t, self, {ExposureRow})
      BY <1>1, <2>2 DEF HedgeDone
    <3>. HIDE DEF self
    <3>3. expo[a].st \notin {"none", "unhedged_closed"} /\ AtHedge(thr[t])
      BY <2>1, <2>2, ExposureMovesFacts DEF CanMoveExposure, AtHedge
    <3>4. QED
      BY <2>1, <3>1, <3>2, <3>3, HedgeCompletes
  <2>3. CASE ~CanMoveExposure(t, "completed")
    <3>1. Advance(t, Returned(t), {}) /\ UNCHANGED expo
      BY <1>1, <2>3 DEF HedgeDone
    <3>2. QED
      BY <2>1, <3>1, CalmStays, CalmReturn
  <2>4. QED
    BY <2>2, <2>3
<1>2. CASE Complete(t) \/ HedgeUnknownAction(t)
  <2>1. UNCHANGED <<attempt, expo>>
    BY <1>2 DEF Complete, HedgeUnknownAction
  <2>2. \/ TransitionAction(t, "completed", "release")
        \/ TransitionAction(t, "submission_unknown", "return")
    BY <1>2 DEF Complete, HedgeUnknownAction
  <2>3. {"release", "return"} \subseteq CalmPoints \cup {"return"}
    BY DEF CalmPoints
  <2>4. QED
    BY <2>1, <2>2, <2>3, CalmTransition
<1>3. CASE HedgeUnknown(t)
  <2>1. /\ thr[t].pc = "hedge_unknown" /\ UNCHANGED <<action, attempt>>
        /\ TransitionExposure(t, "submission_unknown", "hedge_unknown_action")
    BY <1>3 DEF HedgeUnknown, At
  <2>2. CanMoveExposure(t, "submission_unknown") => AtHedge(thr[t])
    BY <2>1 DEF CanMoveExposure, AtHedge
  <2>. DEFINE self == Goto(t, "hedge_unknown_action")
  <2>3. self.pc \in CalmPoints
    BY GotoKeeps DEF Points, CalmPoints
  <2>4. SelfClaims(t, self, {ExposureRow}) /\ SelfKnows(t, self)
    BY <2>3, CalmSelf
  <2>. HIDE DEF self
  <2>5. QED
    BY <2>1, <2>2, <2>4, HedgeExposureTransition DEF self
<1>4. CASE HedgeUnknownAttempt(t)
  <2>1. /\ thr[t].pc = "hedge_unknown_attempt" /\ UNCHANGED <<action, expo>>
        /\ SaveAttempt(t, "awaiting_reconcile", "submission_unknown", "hedge_unknown", "return")
    BY <1>4 DEF HedgeUnknownAttempt, At
  <2>2. KeyOf(t) \in Keys /\ (~thr[t].attStale => Revives(thr[t])) /\ OnHedge(thr[t])
    BY <2>1, InvOf, SavesItsKey DEF Revives, Fits, KnowsKey, HedgePoints, OnHedge
  <2>. DEFINE self == Goto(t, "hedge_unknown")
  <2>3. self.pc = "hedge_unknown" /\ self.expoStale = thr[t].expoStale
    BY GotoKeeps DEF Points
  <2>. HIDE DEF self
  <2>4. SelfKnows(t, self)
    BY <2>3, SilentSelf DEF SilentPoints
  <2>5. AtHedge(self) => AtHedge(thr[t]) /\ expo[a].st = "hedging"
    <3>1. AtHedge(self) => AtHedge(thr[t])
      BY <2>1, <2>2, <2>3 DEF AtHedge
    <3>2. QED
      BY <3>1, HedgeFacts DEF HedgeThread
  <2>6. SelfClaims(t, self, {KeyOf(t)})
    BY <2>1, <2>3, <2>5 DEF SelfClaims, Claims, Revives
  <2>7. SelfClaims(t, Goto(t, "return"), {}) /\ SelfKnows(t, Goto(t, "return"))
    BY CalmReturn, CalmSelf
  <2>8. QED
    BY <2>1, <2>2, <2>4, <2>6, <2>7, HedgeSaves DEF self
<1>5. QED
  BY <1>1, <1>2, <1>3, <1>4

(* The exposure stays open, for another round or for the matcher.          *)
LEMMA OpeningHedges ==
  ASSUME SafetyInv, CommitInv, HedgeInv, NEW t \in Threads,
         HedgeChanged(t) \/ HedgeRejected(t) \/ HedgeReprice(t) \/ OpenExposureRow(t) \/ OpenAction(t)
  PROVE  HedgeInv'
<1>. DEFINE a == Subject(t)
<1>. {ExposureRow} \subseteq {ActionRow, ExposureRow} /\ {ActionRow} \subseteq {ActionRow, ExposureRow}
  OBVIOUS
<1>1. CASE HedgeChanged(t) \/ HedgeRejected(t)
  <2>1. PICK p \in {"hedge_reprice", "open"} : TransitionExposure(t, "exposure_open", p)
    BY <1>1 DEF HedgeChanged, HedgeRejected
  <2>2. thr[t].pc \in {"hedge_changed", "hedge_rejected"} /\ UNCHANGED <<action, attempt>>
    BY <1>1 DEF HedgeChanged, HedgeRejected, At
  <2>. DEFINE self == Goto(t, p)
  <2>3. self.pc \in OpenPoints
    BY GotoKeeps DEF Points, OpenPoints
  <2>4. CanMoveExposure(t, "exposure_open") => Advance(t, self, {ExposureRow})
    BY <2>1 DEF TransitionExposure
  <2>5. CanMoveExposure(t, "exposure_open") => AtHedge(thr[t]) /\ Claims(thr[t])
    BY <2>2 DEF CanMoveExposure, AtHedge, Claims
  <2>. HIDE DEF self
  <2>6. Modest(self) /\ SelfClaims(t, self, {ExposureRow})
    BY <2>3, OpenSelf
  <2>7. CanMoveExposure(t, "exposure_open") => SelfKnows(t, self)
    <3>1. CanMoveExposure(t, "exposure_open") => ~Underway(a, attempt'[a], thr')
      BY <2>2, <2>4, <2>5, <2>6, ClaimGivenUp
    <3>2. QED
      BY <2>3, <3>1, OpenSelf
  <2>8. QED
    BY <2>1, <2>2, <2>5, <2>6, <2>7, HedgeExposureTransition DEF self
<1>2. CASE HedgeReprice(t)
  <2>1. thr[t].pc = "hedge_reprice" /\ UNCHANGED <<attempt, expo>> /\ thr[t] \in ThreadState
    BY <1>2, InvOf DEF HedgeReprice, At
  <2>2. CASE CanMoveAction(t, "exposure_open")
    <3>. DEFINE k == KeyOf(t)
                self == IF thr[t].round < MaxHedgeRounds
                        THEN [thr[t] EXCEPT !.pc = "evaluate", !.round = @ + 1, !.key = <<k[1], k[2] + 1>>]
                        ELSE Goto(t, "open")
    <3>1. action' = Moved(t, "exposure_open") /\ Advance(t, self, {ActionRow})
      BY <1>2, <2>2 DEF HedgeReprice
    <3>2. self.pc \in {"evaluate", "open"} /\ self.lag = thr[t].lag
      <4>1. [thr[t] EXCEPT !.pc = "evaluate", !.round = @ + 1, !.key = <<k[1], k[2] + 1>>].pc = "evaluate"
            /\ [thr[t] EXCEPT !.pc = "evaluate", !.round = @ + 1, !.key = <<k[1], k[2] + 1>>].lag = thr[t].lag
        BY <2>1 DEF ThreadState
      <4>2. Goto(t, "open").pc = "open" /\ Goto(t, "open").lag = thr[t].lag
        BY GotoKeeps DEF Points
      <4>3. QED
        BY <4>1, <4>2
    <3>. HIDE DEF self
    <3>3. Modest(self)
      BY <3>2 DEF Modest, HedgingPoints, CommitPoints
    <3>4. SelfClaims(t, self, {ActionRow})
      BY <3>3, ModestClaims
    <3>5. ~Underway(a, attempt[a], thr)
      BY <2>1, <2>2, HedgeFacts DEF HedgeThread, KnowsFree, CanMoveAction
    <3>6. ~Underway(a, attempt'[a], thr')
      BY <2>1, <3>1, <3>3, <3>5, StaysFree
    <3>7. SelfKnows(t, self)
      BY <3>2, <3>6 DEF SelfKnows, KnowsRow, KnowsFree, KnowsUnhedged, MatcherPoints, CommitPoints,
         TicketPoints
    <3>8. QED
      BY <2>1, <3>1, <3>4, <3>5, <3>7, HedgeActionMoves
  <2>3. CASE ~CanMoveAction(t, "exposure_open")
    <3>1. Advance(t, Returned(t), {}) /\ UNCHANGED action
      BY <1>2, <2>3 DEF HedgeReprice
    <3>2. QED
      BY <2>1, <3>1, CalmStays, CalmReturn
  <2>4. QED
    BY <2>2, <2>3
<1>3. CASE OpenExposureRow(t)
  <2>1. /\ thr[t].pc = "open" /\ UNCHANGED <<action, attempt, expo>>
        /\ SaveExposure(t, "open_action")
    BY <1>3 DEF OpenExposureRow, At, SaveExposure
  <2>. DEFINE self == Goto(t, "open_action")
  <2>2. self.pc \in OpenPoints /\ self.lag = thr[t].lag
    BY GotoKeeps DEF Points, OpenPoints
  <2>3. ~thr[t].expoStale => Advance(t, self, {ExposureRow})
    BY <2>1 DEF SaveExposure
  <2>. HIDE DEF self
  <2>4. Modest(self) /\ SelfClaims(t, self, {ExposureRow})
    BY <2>2, OpenSelf
  <2>5. self.lag = 0 => ~Underway(a, attempt[a], thr)
    BY <2>1, <2>2, HedgeFacts DEF HedgeThread, KnowsFree
  <2>6. ~thr[t].expoStale => SelfKnows(t, self)
    <3>1. ~thr[t].expoStale /\ self.lag = 0 => ~Underway(a, attempt'[a], thr')
      BY <2>1, <2>3, <2>4, <2>5, StaysFree
    <3>2. QED
      BY <2>2, <3>1, OpenSelf
  <2>7. QED
    BY <2>1, <2>4, <2>6, HedgeSavesExposure DEF self
<1>4. CASE OpenAction(t)
  <2>1. thr[t].pc = "open_action" /\ UNCHANGED <<attempt, expo>>
    BY <1>4 DEF OpenAction, At
  <2>2. CASE TransitionAction(t, "exposure_open", "return")
    <3>1. CanMoveAction(t, "exposure_open") => ~Underway(a, attempt[a], thr)
      BY <2>1, HedgeFacts DEF HedgeThread, KnowsFree, CanMoveAction
    <3>2. QED
      BY <2>1, <2>2, <3>1, CalmTransition
  <2>3. CASE /\ action[a].st = "exposure_open"
             /\ action' = IF thr[t].lag = 0 THEN Moved(t, "exposure_open") ELSE action
             /\ Advance(t, Returned(t), IF thr[t].lag = 0 THEN {ActionRow} ELSE {})
    <3>1. a \in Actions /\ action \in [Actions -> ActionState]
      BY InvOf DEF TypeOK
    <3>2. \A b \in Actions : action'[b].st = action[b].st
      BY <2>3, <3>1 DEF Moved, ActionState
    <3>3. \E written \in SUBSET {ActionRow, ExposureRow} : Advance(t, Returned(t), written)
      BY <2>3
    <3>4. QED
      BY <2>1, <3>2, <3>3, CalmSteps, CalmReturn
  <2>4. QED
    BY <1>4, <2>2, <2>3 DEF OpenAction
<1>5. QED
  BY <1>1, <1>2, <1>3, <1>4

(* The hedge as a whole.                                                   *)
LEMMA HedgeHedges ==
  ASSUME SafetyInv, CommitInv, HedgeInv, NEW t \in Threads, HedgeStep(t)
  PROVE  HedgeInv'
  BY BeginningHedges, AnsweredHedges, EndingHedges, OpeningHedges DEF HedgeStep
-----------------------------------------------------------------------------
(* The matcher                                                             *)

(* While it has not been written, the exposure that it matches is open.    *)
LEMMA MatcherSelf ==
  ASSUME NEW t, NEW self, NEW written, self.pc \in MatcherPoints,
         ~self.expoStale => expo'[Subject(t)].st = "exposure_open"
  PROVE  SelfClaims(t, self, written) /\ SelfKnows(t, self)
<1>1. Modest(self)
  BY DEF MatcherPoints, Modest, HedgingPoints, CommitPoints
<1>2. SelfKnows(t, self)
  BY DEF SelfKnows, KnowsRow, KnowsFree, KnowsUnhedged, MatcherPoints, CommitPoints, TicketPoints
<1>3. QED
  BY <1>1, <1>2, ModestClaims

(* With an open exposure no hedge is under way.                            *)
LEMMA OpenIsFree ==
  ASSUME HedgeInv, NEW t \in Threads, expo[Subject(t)].st = "exposure_open"
  PROVE  LET a == Subject(t) IN ~Busy(a, attempt[a], thr) /\ ~Underway(a, attempt[a], thr)
  BY HedgeFacts DEF HedgeRows, Busy

(* The matcher leases an exposure, looks at the quote, and hedges, closes  *)
(* or leaves it; closing is the operator's last step too.                  *)
LEMMA MatcherHedges ==
  ASSUME SafetyInv, CommitInv, HedgeInv, NEW t \in Threads, MatcherStep(t)
  PROVE  HedgeInv'
<1>. DEFINE a == Subject(t)
<1>. {ExposureRow} \subseteq {ActionRow, ExposureRow} /\ {} \subseteq {ActionRow, ExposureRow}
  OBVIOUS
<1>0. /\ a \in Actions /\ expo \in [Actions -> ExposureState] /\ thr[t] \in ThreadState
      /\ thr[t].pc \in MatcherPoints /\ ~thr[t].expoStale => expo[a].st = "exposure_open"
  BY InvOf, HedgeFacts DEF TypeOK, HedgeThread, KnowsFree
<1>1. CASE HedgeLease(t)
  <2>1. thr[t].pc = "lease" /\ UNCHANGED <<action, attempt>>
    BY <1>1 DEF HedgeLease, At
  <2>2. CASE thr[t].expoStale
    <3>1. Advance(t, Idle, {}) /\ UNCHANGED expo
      BY <1>1, <2>2 DEF HedgeLease
    <3>2. QED
      BY <2>1, <3>1, CalmStays, CalmReturn
  <2>3. CASE ~thr[t].expoStale
    <3>. DEFINE self == Goto(t, "match")
    <3>1. self.pc = "match"
      BY GotoKeeps DEF Points
    <3>2. expo' = [expo EXCEPT ![a].leased = TRUE] /\ Advance(t, self, {ExposureRow})
      BY <1>1, <2>3 DEF HedgeLease
    <3>. HIDE DEF self
    <3>3. \A b \in Actions : expo'[b].st = expo[b].st
      BY <1>0, <3>2 DEF ExposureState
    <3>4. SelfClaims(t, self, {ExposureRow}) /\ SelfKnows(t, self)
      BY <1>0, <2>1, <2>3, <3>1, <3>3, MatcherSelf DEF MatcherPoints
    <3>5. QED
      BY <2>1, <3>2, <3>3, <3>4, StatusesStay
  <2>4. QED
    BY <2>2, <2>3
<1>2. CASE HedgeMatch(t)
  <2>1. thr[t].pc = "match" /\ UNCHANGED <<action, attempt, expo>>
    BY <1>2 DEF HedgeMatch, At, rows
  <2>2. CASE Advance(t, Returned(t), {})
    BY <2>1, <2>2, CalmStays, CalmReturn
  <2>3. ASSUME NEW p \in {"close", "hedge_reserve"}, Advance(t, Reading(t, [thr[t] EXCEPT !.pc = p]), {})
        PROVE  HedgeInv'
    <3>. DEFINE self == Reading(t, [thr[t] EXCEPT !.pc = p])
                written == {}
    <3>1. self.pc = p /\ self.expoStale = thr[t].expoStale
      BY <1>0 DEF Reading, ThreadState
    <3>2. Advance(t, self, written) /\ written \subseteq {ActionRow, ExposureRow}
      BY <2>3
    <3>. HIDE DEF self, written
    <3>3. CASE p = "hedge_reserve"
      <4>1. SelfClaims(t, self, written) /\ SelfKnows(t, self)
        BY <1>0, <2>1, <3>1, <3>3, MatcherSelf DEF MatcherPoints
      <4>2. QED
        BY <2>1, <3>2, <4>1, StatusesStay
    <3>4. CASE p = "close"
      <4>1. Modest(self)
        BY <3>1, <3>4 DEF Modest, HedgingPoints, CommitPoints
      <4>2. SelfClaims(t, self, written)
        BY <4>1, ModestClaims
      <4>3. ~self.expoStale => expo[a].st = "exposure_open" /\ ~Busy(a, attempt'[a], thr')
        BY <1>0, <2>1, <3>1, <3>2, <4>1, OpenIsFree, StaysFree DEF MatcherPoints
      <4>4. SelfKnows(t, self)
        BY <2>1, <3>1, <3>4, <4>3 DEF SelfKnows, KnowsRow, KnowsFree, KnowsUnhedged, MatcherPoints,
           CommitPoints, TicketPoints
      <4>5. QED
        BY <2>1, <3>2, <4>2, <4>4, StatusesStay
    <3>5. QED
      BY <3>3, <3>4
  <2>4. QED
    BY <1>2, <2>2, <2>3 DEF HedgeMatch
<1>3. CASE HedgeReserve(t)
  <2>1. thr[t].pc = "hedge_reserve" /\ UNCHANGED <<attempt, expo>>
    BY <1>3 DEF HedgeReserve, At
  <2>2. CASE Reserve(t, "hedge_prepare")
    <3>. DEFINE self == Goto(t, "hedge_prepare")
    <3>1. self.pc = "hedge_prepare" /\ self.expoStale = thr[t].expoStale
      BY GotoKeeps DEF Points
    <3>2. action' = Reserved(a) /\ Advance(t, self, {ActionRow})
      BY <2>2 DEF Reserve
    <3>. HIDE DEF self
    <3>3. SelfClaims(t, self, {ActionRow}) /\ SelfKnows(t, self)
      BY <1>0, <2>1, <3>1, MatcherSelf DEF MatcherPoints
    <3>4. QED
      BY <2>1, <3>2, <3>3, HedgeReserving
  <2>3. CASE Advance(t, Returned(t), {}) /\ UNCHANGED action
    BY <2>1, <2>3, CalmStays, CalmReturn
  <2>4. QED
    BY <1>3, <2>2, <2>3 DEF HedgeReserve
<1>4. CASE HedgePrepare(t)
  <2>1. thr[t].pc = "hedge_prepare" /\ UNCHANGED <<action, attempt, expo>>
    BY <1>4 DEF HedgePrepare, At, rows
  <2>2. ASSUME NEW n, Advance(t, [thr[t] EXCEPT !.pc = "evaluate", !.key = <<"8xbet", n>>], {})
        PROVE  HedgeInv'
    <3>. DEFINE self == [thr[t] EXCEPT !.pc = "evaluate", !.key = <<"8xbet", n>>]
                written == {}
    <3>1. self.pc = "evaluate" /\ self.expoStale = thr[t].expoStale
      BY <1>0 DEF ThreadState
    <3>2. Advance(t, self, written) /\ written \subseteq {ActionRow, ExposureRow}
      BY <2>2
    <3>. HIDE DEF self, written
    <3>3. Modest(self)
      BY <3>1 DEF Modest, HedgingPoints, CommitPoints
    <3>4. ~self.expoStale => ~Underway(a, attempt'[a], thr')
      BY <1>0, <2>1, <3>1, <3>2, <3>3, OpenIsFree, StaysFree DEF MatcherPoints
    <3>5. SelfClaims(t, self, written)
      BY <3>3, ModestClaims
    <3>6. SelfKnows(t, self)
      BY <3>1, <3>4 DEF SelfKnows, KnowsRow, KnowsFree, KnowsUnhedged, MatcherPoints, CommitPoints,
         TicketPoints
    <3>7. QED
      BY <2>1, <3>2, <3>5, <3>6, StatusesStay
  <2>3. CASE Advance(t, Returned(t), IF thr[t].expoStale THEN {} ELSE {ExposureRow})
    <3>1. \E written \in SUBSET {ActionRow, ExposureRow} : Advance(t, Returned(t), written)
      BY <2>3
    <3>2. QED
      BY <2>1, <3>1, CalmSteps, CalmReturn
  <2>4. QED
    BY <1>4, <2>2, <2>3 DEF HedgePrepare
<1>5. CASE Unlease(t)
  <2>1. UNCHANGED <<action, attempt>>
    BY <1>5 DEF Unlease
  <2>2. \A b \in Actions : expo'[b].st = expo[b].st
    BY <1>0, <1>5 DEF Unlease, ExposureState
  <2>3. \E written \in SUBSET {ActionRow, ExposureRow} : Advance(t, Idle, written)
    BY <1>5 DEF Unlease
  <2>4. QED
    BY <2>1, <2>2, <2>3, CalmSteps, CalmReturn
<1>6. CASE CloseExposure(t)
  <2>1. /\ thr[t].pc = "close" /\ UNCHANGED <<action, attempt>>
        /\ TransitionExposure(t, "unhedged_closed", "close_action")
    BY <1>6 DEF CloseExposure, At
  <2>2. CanMoveExposure(t, "unhedged_closed") => ~Busy(a, attempt[a], thr) /\ expo[a].st # "hedging"
    BY <2>1, HedgeFacts DEF CanMoveExposure, HedgeThread, KnowsFree
  <2>. DEFINE self == Goto(t, "close_action")
  <2>3. self.pc \in CalmPoints
    BY GotoKeeps DEF Points, CalmPoints
  <2>4. Modest(self) /\ SelfClaims(t, self, {ExposureRow}) /\ SelfKnows(t, self)
    BY <2>3, CalmSelf
  <2>. HIDE DEF self
  <2>5. QED
    BY <2>1, <2>2, <2>4, HedgeExposureTransition DEF self
<1>7. CASE CloseAction(t)
  <2>1. /\ thr[t].pc = "close_action" /\ UNCHANGED <<attempt, expo>>
        /\ TransitionAction(t, "unhedged_closed", "release")
    BY <1>7 DEF CloseAction, At
  <2>2. expo[a].st = "unhedged_closed"
    BY <2>1, InvOf DEF Sees, KnowsExposure
  <2>3. "release" \in CalmPoints \cup {"return"}
    BY DEF CalmPoints
  <2>4. QED
    BY <2>1, <2>2, <2>3, CalmTransition
<1>8. QED
  BY <1>1, <1>2, <1>3, <1>4, <1>5, <1>6, <1>7 DEF MatcherStep
-----------------------------------------------------------------------------
(* Reconciliation                                                          *)

(* A thread that goes from one point to another and writes nothing.        *)
LEMMA HedgeGoesOn ==
  ASSUME SafetyInv, CommitInv, HedgeInv, NEW t \in Threads, NEW self, Advance(t, self, {}),
         UNCHANGED <<action, attempt, expo>>, SelfClaims(t, self, {}),
         Effects(t, {}) /\ thr'[t] = self => SelfKnows(t, self)
  PROVE  HedgeInv'
<1>. DEFINE written == {}
<1>1. written \subseteq {ActionRow, ExposureRow} /\ Advance(t, self, written)
  OBVIOUS
<1>2. SelfClaims(t, self, written) /\ (Effects(t, written) /\ thr'[t] = self => SelfKnows(t, self))
  OBVIOUS
<1>. HIDE DEF written
<1>3. QED
  BY <1>1, <1>2, StatusesStay

(* A commit is picked, asked about, and its answer looked at.              *)
LEMMA AskingHedges ==
  ASSUME SafetyInv, CommitInv, HedgeInv, NEW t \in Threads,
         \/ PickAttempt(t) \/ SendReconcile(t) \/ ReconcileUnanswered(t) \/ ReconcileTicket(t)
  PROVE  HedgeInv'
<1>. DEFINE a == Subject(t)
<1>0. /\ UNCHANGED <<action, attempt, expo>> /\ a \in Actions /\ thr[t] \in ThreadState
      /\ KnowsRow(thr[t], attempt[a]) /\ KnowsUnhedged(thr[t], action[a].st, expo[a].st)
  BY InvOf, HedgeFacts DEF HedgeThread, PickAttempt, SendReconcile, ReconcileUnanswered,
     ReconcileTicket, rows
<1>1. CASE Advance(t, Idle, {}) \/ Advance(t, Returned(t), {})
  BY <1>0, <1>1, CalmStays, CalmReturn
<1>2. CASE PickAttempt(t) /\ ~Advance(t, Idle, {})
  <2>1. PICK k \in PendingKeys(a) : Advance(t, [Goto(t, "ask") EXCEPT !.key = k], {})
    BY <1>2 DEF PickAttempt
  <2>. DEFINE self == [Goto(t, "ask") EXCEPT !.key = k]
  <2>2. self.pc = "ask" /\ self.key = k
    <3>1. Goto(t, "ask") \in ThreadState /\ Goto(t, "ask").pc = "ask"
      BY InvOf, GotoFields DEF Points
    <3>2. QED
      BY <3>1 DEF ThreadState
  <2>3. k \in Keys /\ attempt[a][k].st \in PendingAttempt
    BY DEF PendingKeys
  <2>4. k[1] = "jun88" => expo[a].st = "none"
    <3>1. k[1] = "jun88" => k[2] \in 1 .. MaxCommits /\ Waiting(attempt[a], k[2])
      BY <2>3 DEF Keys, Waiting, Unsettled, PendingAttempt, AttemptStatus
    <3>2. QED
      BY <3>1, InvOf DEF RowsOf, NoneWaiting
  <2>5. Advance(t, self, {})
    BY <2>1
  <2>. HIDE DEF self
  <2>6. SelfClaims(t, self, {})
    BY <2>2, ModestClaims DEF Modest, HedgingPoints, CommitPoints
  <2>7. SelfKnows(t, self)
    BY <1>0, <2>2, <2>3, <2>4 DEF SelfKnows, KnowsRow, KnowsFree, KnowsUnhedged, MatcherPoints
  <2>8. QED
    BY <1>0, <2>5, <2>6, <2>7, HedgeGoesOn
<1>3. CASE SendReconcile(t) /\ ~Advance(t, Idle, {})
  <2>. DEFINE self == Goto(t, "answer")
  <2>1. thr[t].pc = "ask" /\ Advance(t, self, {})
    BY <1>3 DEF SendReconcile, At
  <2>2. /\ self.pc = "answer" /\ self.key = thr[t].key /\ self.lag = thr[t].lag
        /\ self.attStale = thr[t].attStale
    BY GotoKeeps DEF Points
  <2>. HIDE DEF self
  <2>3. SelfClaims(t, self, {})
    BY <2>2, ModestClaims DEF Modest, HedgingPoints, CommitPoints
  <2>4. SelfKnows(t, self)
    BY <1>0, <2>1, <2>2 DEF SelfKnows, KnowsRow, KnowsFree, KnowsUnhedged, MatcherPoints, OnHedge
  <2>5. QED
    BY <1>0, <2>1, <2>3, <2>4, HedgeGoesOn
<1>4. CASE ReconcileTicket(t) /\ ~Advance(t, Returned(t), {})
  <2>1. thr[t].pc = "answer"
    BY <1>4 DEF ReconcileTicket, At
  <2>2. PICK p \in {"rec_jun", "rec_hedge"} :
          Advance(t, IF p = "rec_hedge" THEN [Goto(t, p) EXCEPT !.expoStale = FALSE] ELSE Goto(t, p), {})
    BY <1>4, CalmReturn DEF ReconcileTicket
  <2>. DEFINE self == IF p = "rec_hedge" THEN [Goto(t, p) EXCEPT !.expoStale = FALSE] ELSE Goto(t, p)
  <2>3. /\ self.pc = p /\ self.key = thr[t].key /\ self.lag = thr[t].lag
        /\ self.attStale = thr[t].attStale
    <3>1. Goto(t, p) \in ThreadState
      BY InvOf, GotoFields DEF Points
    <3>2. QED
      BY <3>1, GotoKeeps DEF Points, ThreadState
  <2>4. Advance(t, self, {})
    BY <2>2
  <2>. HIDE DEF self
  <2>5. SelfClaims(t, self, {})
    BY <2>3, ModestClaims DEF Modest, HedgingPoints, CommitPoints
  <2>6. SelfKnows(t, self)
    BY <1>0, <2>1, <2>3 DEF SelfKnows, KnowsRow, KnowsFree, KnowsUnhedged, MatcherPoints, OnHedge,
       CommitPoints, TicketPoints
  <2>7. QED
    BY <1>0, <2>4, <2>5, <2>6, HedgeGoesOn
<1>5. QED
  BY <1>1, <1>2, <1>3, <1>4 DEF ReconcileUnanswered

(* No ticket: the commit is refused, and its exposure free again.          *)
LEMMA NoTicketHedges ==
  ASSUME SafetyInv, CommitInv, HedgeInv, NEW t \in Threads,
         ReconcileNoTicket(t) \/ ReconcileRead(t) \/ ReconcileReopen(t)
  PROVE  HedgeInv'
<1>. DEFINE a == Subject(t)
            k == KeyOf(t)
<1>1. CASE ReconcileNoTicket(t)
  <2>1. /\ thr[t].pc = "answer" /\ UNCHANGED <<action, expo>> /\ thr[t].rsp \in Negative
        /\ k \in Keys /\ k = thr[t].key
    BY <1>1, SavesItsKey DEF ReconcileNoTicket, At, Negative, SafetyInv, ReconcilePoints, KeyOf
  <2>2. PICK p \in {"abort", "rec_read", "return"} :
          /\ SaveAttempt(t, "response_received", thr[t].rsp, p, "return")
          /\ p = "rec_read" => k[1] = "8xbet"
    BY <1>1 DEF ReconcileNoTicket
  <2>3. OnHedge(thr[t]) /\ ~thr[t].attStale => attempt[a][k].st \in PendingAttempt
    BY <2>1, HedgeFacts DEF HedgeThread, KnowsRow
  <2>4. "return" \in CalmPoints \cup {"return"} /\ "abort" \in CalmPoints \cup {"return"}
    BY DEF CalmPoints
  <2>5. CASE p # "rec_read"
    BY <2>1, <2>2, <2>3, <2>4, <2>5, CalmSaves
  <2>6. CASE p = "rec_read"
    <3>. DEFINE self == Goto(t, p)
    <3>1. self.pc = "rec_read"
      BY <2>6, GotoKeeps DEF Points
    <3>2. PICK n \in 1 .. MaxCommits : k = <<"8xbet", n>>
      BY <2>1, <2>2, <2>6 DEF Keys
    <3>. HIDE DEF self
    <3>3. ASSUME LET row == attempt'[a][k] IN
                 /\ ~thr[t].attStale /\ row.st = "response_received" /\ row.res = thr[t].rsp
                 /\ \A j \in Keys : j # k => attempt'[a][j] = attempt[a][j]
          PROVE  SelfClaims(t, self, {k})
      <4>1. OnHedge(thr[t])
        BY <2>1, <2>2, <2>6 DEF OnHedge
      <4>2. LiveHedge(attempt[a], n)
        BY <2>3, <3>2, <3>3, <4>1 DEF LiveHedge, Live, PendingAttempt
      <4>3. ~LiveHedge(attempt'[a], n)
        BY <2>1, <3>2, <3>3 DEF LiveHedge, Live
      <4>4. Spent(attempt'[a])
        BY <3>2, <3>3, <4>2, <4>3, RefusalSpends
      <4>5. ~AtHedge(self) /\ ~Revives(self) /\ Underway(a, attempt[a], thr)
        BY <3>1, <4>2 DEF AtHedge, Revives, Underway, Spent
      <4>6. QED
        BY <3>1, <3>2, <4>2, <4>4, <4>5 DEF SelfClaims, LiveHedge
    <3>4. SelfKnows(t, self)
      BY <3>1, SilentSelf DEF SilentPoints
    <3>5. SelfClaims(t, Goto(t, "return"), {}) /\ SelfKnows(t, Goto(t, "return"))
      BY CalmReturn, CalmSelf
    <3>6. QED
      BY <2>1, <2>2, <2>3, <3>3, <3>4, <3>5, HedgeSaves DEF self
  <2>7. QED
    BY <2>5, <2>6
<1>2. CASE ReconcileRead(t)
  <2>. DEFINE self == [Goto(t, "rec_reopen") EXCEPT !.expoStale = FALSE]
  <2>1. thr[t].pc = "rec_read" /\ UNCHANGED <<action, attempt, expo>> /\ Advance(t, self, {})
    BY <1>2 DEF ReconcileRead, At, rows
  <2>2. self.pc = "rec_reopen"
    <3>1. Goto(t, "rec_reopen") \in ThreadState
      BY InvOf, GotoFields DEF Points
    <3>2. QED
      BY <3>1, GotoKeeps DEF Points, ThreadState
  <2>. HIDE DEF self
  <2>3. Claims(thr[t]) /\ t \in Ours(a)
    BY <2>1 DEF Claims, Ours
  <2>4. Spent(attempt[a]) /\ Underway(a, attempt[a], thr)
    BY <2>1, <2>3, HedgeFacts DEF HedgeThread, Underway
  <2>5. ~AtHedge(self) /\ ~Revives(self)
    BY <2>2 DEF AtHedge, Revives
  <2>6. SelfClaims(t, self, {})
    BY <2>1, <2>2, <2>3, <2>4, <2>5 DEF SelfClaims
  <2>7. SelfKnows(t, self)
    BY <2>2, SilentSelf DEF SilentPoints
  <2>8. QED
    BY <2>1, <2>6, <2>7, HedgeGoesOn
<1>3. CASE ReconcileReopen(t)
  <2>1. thr[t].pc = "rec_reopen" /\ UNCHANGED <<action, attempt>>
    BY <1>3 DEF ReconcileReopen, At
  <2>2. ~thr[t].expoStale => Claims(thr[t])
    BY <2>1 DEF Claims
  <2>. DEFINE self == Goto(t, "open")
  <2>3. self.pc \in OpenPoints
    BY GotoKeeps DEF Points, OpenPoints
  <2>. HIDE DEF self
  <2>4. Modest(self) /\ SelfClaims(t, self, {ExposureRow})
    BY <2>3, OpenSelf
  <2>5. ~thr[t].expoStale /\ Advance(t, self, {ExposureRow}) => SelfKnows(t, self)
    <3>1. ~thr[t].expoStale /\ Advance(t, self, {ExposureRow}) => ~Underway(a, attempt'[a], thr')
      BY <2>1, <2>2, <2>4, ClaimGivenUp
    <3>2. QED
      BY <2>3, <3>1, OpenSelf
  <2>6. CASE TransitionExposure(t, "exposure_open", "open")
    <3>1. CanMoveExposure(t, "exposure_open") => ~thr[t].expoStale /\ Advance(t, self, {ExposureRow})
      BY <2>6 DEF TransitionExposure, CanMoveExposure, self
    <3>2. QED
      BY <2>1, <2>2, <2>4, <2>5, <2>6, <3>1, HedgeExposureTransition DEF self
  <2>7. CASE SaveExposure(t, "open")
    <3>1. ~thr[t].expoStale => Advance(t, self, {ExposureRow})
      BY <2>7 DEF SaveExposure, self
    <3>2. QED
      BY <2>1, <2>4, <2>5, <2>7, <3>1, HedgeSavesExposure DEF self
  <2>8. QED
    BY <1>3, <2>6, <2>7 DEF ReconcileReopen
<1>4. QED
  BY <1>1, <1>2, <1>3

(* A ticket: the exposure is opened or completed.                          *)
LEMMA TicketHedges ==
  ASSUME SafetyInv, CommitInv, HedgeInv, NEW t \in Threads,
         ReconcileJun(t) \/ ReconcileJunOpen(t) \/ ReconcileHedge(t) \/ ReconcileComplete(t)
  PROVE  HedgeInv'
<1>. DEFINE a == Subject(t)
            k == KeyOf(t)
<1>1. CASE ReconcileJun(t)
  <2>. DEFINE self == Goto(t, "rec_jun_open")
  <2>1. CommitJun88Ticket(t, self) /\ thr[t].pc \in TicketPoints
    BY <1>1 DEF ReconcileJun, At, TicketPoints
  <2>2. self \in ThreadState /\ self.pc = "rec_jun_open" /\ self.lag = thr[t].lag
    BY InvOf, GotoFields, GotoKeeps DEF Points
  <2>. HIDE DEF self
  <2>3. QED
    BY <2>1, <2>2, HedgeOpens
<1>2. CASE ReconcileJunOpen(t)
  <2>1. /\ thr[t].pc = "rec_jun_open" /\ UNCHANGED <<attempt, expo>>
        /\ TransitionAction(t, "exposure_open", "return")
    BY <1>2 DEF ReconcileJunOpen, At
  <2>2. CanMoveAction(t, "exposure_open") => ~Underway(a, attempt[a], thr)
    BY <2>1, HedgeFacts DEF CanMoveAction, HedgeThread, KnowsFree, HedgeRows
  <2>3. QED
    BY <2>1, <2>2, CalmTransition
<1>3. CASE ReconcileHedge(t)
  <2>1. thr[t].pc = "rec_hedge" /\ UNCHANGED <<action, expo>>
    BY <1>3 DEF ReconcileHedge, At
  <2>2. k \in Keys /\ k = thr[t].key /\ OnHedge(thr[t])
    BY <2>1, InvOf, SavesItsKey DEF ReconcilePoints, KeyOf, Sees, HoldsTicket, CompletionPoints,
       OnHedge
  <2>3. ~thr[t].attStale => attempt[a][k].st \in PendingAttempt
    BY <2>1, <2>2, HedgeFacts DEF HedgeThread, KnowsRow
  <2>4. PICK p \in {"rec_complete", "return"} :
          SaveAttempt(t, "response_received", "ticket_accepted", p, "return")
    BY <1>3 DEF ReconcileHedge
  <2>5. CASE p = "return"
    BY <2>1, <2>2, <2>3, <2>4, <2>5, CalmSaves
  <2>6. CASE p = "rec_complete"
    <3>. DEFINE self == Goto(t, p)
    <3>1. self.pc = "rec_complete" /\ self.key = k
      BY <2>2, <2>6, GotoKeeps DEF Points
    <3>. HIDE DEF self
    <3>2. ~AtHedge(self) /\ ~Claims(self) /\ ~Revives(self)
      BY <3>1 DEF AtHedge, Claims, Revives
    <3>3. LET row == attempt'[a][k] IN
          row.st = "response_received" /\ row.res = "ticket_accepted"
          => SelfClaims(t, self, {k}) /\ SelfKnows(t, self)
      BY <3>1, <3>2 DEF SelfClaims, Live, Negative, SelfKnows, KnowsRow, KnowsFree, KnowsUnhedged,
         MatcherPoints, CommitPoints, TicketPoints
    <3>4. SelfClaims(t, Goto(t, "return"), {}) /\ SelfKnows(t, Goto(t, "return"))
      BY CalmReturn, CalmSelf
    <3>5. QED
      BY <2>1, <2>2, <2>3, <2>4, <3>3, <3>4, HedgeSaves DEF self
  <2>7. QED
    BY <2>5, <2>6
<1>4. CASE ReconcileComplete(t)
  <2>1. thr[t].pc = "rec_complete" /\ UNCHANGED <<action, attempt>>
    BY <1>4 DEF ReconcileComplete, At
  <2>2. CASE ~thr[t].expoStale /\ expo[a].st \in {"submission_unknown", "hedging", "manual_review"}
    <3>. DEFINE self == Goto(t, "complete")
    <3>1. self.pc \in CalmPoints
      BY GotoKeeps DEF Points, CalmPoints
    <3>2. expo' = Completed(t) /\ Advance(t, self, {ExposureRow})
      BY <1>4, <2>2 DEF ReconcileComplete
    <3>. HIDE DEF self
    <3>3. QED
      BY <2>1, <2>2, <3>1, <3>2, HedgeCompletes
  <2>3. CASE ~(~thr[t].expoStale /\ expo[a].st \in {"submission_unknown", "hedging", "manual_review"})
    <3>1. Advance(t, Returned(t), {}) /\ UNCHANGED expo
      BY <1>4, <2>3 DEF ReconcileComplete
    <3>2. QED
      BY <2>1, <3>1, CalmStays, CalmReturn
  <2>4. QED
    BY <2>2, <2>3
<1>5. QED
  BY <1>1, <1>2, <1>3, <1>4

(* Reconciliation as a whole.                                              *)
LEMMA ReconcileHedges ==
  ASSUME SafetyInv, CommitInv, HedgeInv, NEW t \in Threads, ReconcileStep(t)
  PROVE  HedgeInv'
  BY AskingHedges, NoTicketHedges, TicketHedges DEF ReconcileStep
-----------------------------------------------------------------------------
(* The operator                                                            *)

(* An action that is reported open, with an exposure that is not hedging,  *)
(* has no hedge under way.                                                 *)
LEMMA ReportedOpenIsFree ==
  ASSUME HedgeInv, NEW t \in Threads, action[Subject(t)].st = "exposure_open",
         expo[Subject(t)].st # "hedging"
  PROVE  LET a == Subject(t) IN ~Busy(a, attempt[a], thr)
<1>. DEFINE a == Subject(t)
<1>1. ~Underway(a, attempt[a], thr)
  BY HedgeFacts DEF HedgeRows
<1>2. ASSUME NEW u \in Ours(a)
      PROVE  thr[u].pc # "placing"
  <2>1. u \in Threads /\ Subject(u) = a
    BY DEF Ours
  <2>2. AtHedge(thr[u]) => expo[a].st = "hedging"
    BY <2>1, HedgeFacts DEF HedgeThread
  <2>3. QED
    BY <2>2 DEF AtHedge
<1>3. QED
  BY <1>1, <1>2 DEF Busy

(* The operator reads the rows and decides.                                *)
LEMMA DecidingHedges ==
  ASSUME SafetyInv, CommitInv, HedgeInv, NEW t \in Threads,
         OperatorReopen(t) \/ OperatorClose(t) \/ OperatorTicket(t) \/ OperatorRefused(t)
  PROVE  HedgeInv'
<1>. DEFINE a == Subject(t)
<1>0. /\ UNCHANGED <<action, attempt, expo>> /\ a \in Actions /\ thr[t] \in ThreadState
      /\ attempt \in [Actions -> [Keys -> AttemptState]] /\ thr[t].pc = "resolve"
  BY InvOf DEF TypeOK, OperatorReopen, OperatorClose, OperatorTicket, OperatorRefused, rows, At
<1>1. CASE OperatorReopen(t) \/ OperatorClose(t)
  <2>1. PICK p \in {"reopen", "close"} :
          /\ Advance(t, Reading(t, [thr[t] EXCEPT !.pc = p]), {})
          /\ action[a].st = "exposure_open" /\ expo[a].st \in {"exposure_open", "manual_review"}
          /\ p = "reopen" => expo[a].st = "manual_review"
    BY <1>1 DEF OperatorReopen, OperatorClose
  <2>. DEFINE self == Reading(t, [thr[t] EXCEPT !.pc = p])
              written == {}
  <2>2. self.pc = p
    BY <1>0 DEF Reading, ThreadState
  <2>3. Advance(t, self, written) /\ written \subseteq {ActionRow, ExposureRow}
    BY <2>1
  <2>. HIDE DEF self, written
  <2>4. Modest(self)
    BY <2>2 DEF Modest, HedgingPoints, CommitPoints
  <2>5. SelfClaims(t, self, written)
    BY <2>4, ModestClaims
  <2>6. ~Busy(a, attempt'[a], thr')
    BY <1>0, <2>1, <2>3, <2>4, ReportedOpenIsFree, StaysFree
  <2>7. SelfKnows(t, self)
    BY <1>0, <2>1, <2>2, <2>6 DEF SelfKnows, KnowsRow, KnowsFree, KnowsUnhedged, MatcherPoints,
       CommitPoints, TicketPoints
  <2>8. QED
    BY <1>0, <2>3, <2>5, <2>7, StatusesStay
<1>2. CASE OperatorTicket(t)
  <2>1. PICK n \in CommitNumbers(a, "8xbet") :
          LET k == <<"8xbet", n>>
              row == attempt[a][k] IN
          /\ <<a, "8xbet", n>> \in tickets
          /\ Advance(t, Reading(t, [thr[t] EXCEPT !.key = k, !.attStale = FALSE,
                          !.pc = IF row.st = "response_received" THEN "evidence_exposure"
                                 ELSE "evidence_attempt"]), {})
    BY <1>2 DEF OperatorTicket
  <2>. DEFINE k == <<"8xbet", n>>
              p == IF attempt[a][k].st = "response_received" THEN "evidence_exposure" ELSE "evidence_attempt"
              self == Reading(t, [thr[t] EXCEPT !.key = k, !.attStale = FALSE, !.pc = p])
  <2>2. self.pc = p /\ self.key = k
    BY <1>0 DEF Reading, ThreadState
  <2>3. p \in {"evidence_exposure", "evidence_attempt"}
        /\ (p = "evidence_attempt" => attempt[a][k].st \in PendingAttempt)
    <3>1. k \in Keys /\ TicketAt(a, k) \in tickets
      BY <2>1 DEF CommitNumbers, Keys, Bookmakers, TicketAt
    <3>2. attempt[a][k].st \notin {"none", "before_send"}
      BY <1>0, <3>1, TicketIsLive
    <3>3. attempt[a][k].st \in AttemptStatus \cup {"none"}
      BY <1>0, <3>1 DEF AttemptState
    <3>4. QED
      BY <3>2, <3>3 DEF AttemptStatus, PendingAttempt
  <2>4. Advance(t, self, {})
    BY <2>1
  <2>. HIDE DEF self, p, k
  <2>5. SelfClaims(t, self, {})
    BY <2>2, <2>3, ModestClaims DEF Modest, HedgingPoints, CommitPoints
  <2>6. SelfKnows(t, self)
    BY <1>0, <2>2, <2>3 DEF SelfKnows, KnowsRow, KnowsFree, KnowsUnhedged, MatcherPoints,
       CommitPoints, TicketPoints
  <2>7. QED
    BY <1>0, <2>4, <2>5, <2>6, HedgeGoesOn
<1>3. CASE OperatorRefused(t)
  <2>1. Advance(t, Idle, {})
    BY <1>3 DEF OperatorRefused
  <2>2. QED
    BY <1>0, <2>1, CalmStays, CalmReturn
<1>4. QED
  BY <1>1, <1>2, <1>3

(* The operator writes: a review, an exposure given back to the matcher,   *)
(* or a ticket recorded.                                                   *)
LEMMA OperatorHedges ==
  ASSUME SafetyInv, CommitInv, HedgeInv, NEW t \in Threads, OperatorStep(t)
  PROVE  HedgeInv'
<1>. DEFINE a == Subject(t)
<1>1. CASE OperatorReview(t)
  <2>1. /\ thr[t].pc = "resolve" /\ UNCHANGED <<action, attempt>>
        /\ TransitionExposure(t, "manual_review", "return")
    BY <1>1 DEF OperatorReview, At
  <2>2. expo[a].st # "hedging"
    BY <1>1 DEF OperatorReview
  <2>. DEFINE self == Goto(t, "return")
  <2>3. SelfClaims(t, self, {ExposureRow}) /\ SelfKnows(t, self)
    BY CalmReturn, CalmSelf
  <2>. HIDE DEF self
  <2>4. QED
    BY <2>1, <2>2, <2>3, HedgeExposureTransition DEF self
<1>2. CASE ReopenExposure(t)
  <2>1. /\ thr[t].pc = "reopen" /\ UNCHANGED <<action, attempt>>
        /\ TransitionExposure(t, "exposure_open", "return")
    BY <1>2 DEF ReopenExposure, At
  <2>2. CanMoveExposure(t, "exposure_open") => ~Busy(a, attempt[a], thr) /\ expo[a].st # "hedging"
    BY <2>1, HedgeFacts DEF CanMoveExposure, HedgeThread, KnowsFree
  <2>. DEFINE self == Goto(t, "return")
  <2>3. Modest(self) /\ SelfClaims(t, self, {ExposureRow}) /\ SelfKnows(t, self)
    BY CalmReturn, CalmSelf
  <2>. HIDE DEF self
  <2>4. QED
    BY <2>1, <2>2, <2>3, HedgeExposureTransition DEF self
<1>3. CASE EvidenceAttempt(t)
  <2>1. thr[t].pc = "evidence_attempt" /\ UNCHANGED <<action, expo>>
    BY <1>3 DEF EvidenceAttempt, At
  <2>2. KeyOf(t) \in Keys /\ KeyOf(t) = thr[t].key
    BY <2>1, InvOf, SavesItsKey DEF EvidencePoints, KeyOf
  <2>3. OnHedge(thr[t]) /\ ~thr[t].attStale => attempt[a][KeyOf(t)].st \in PendingAttempt
    BY <2>1, <2>2, HedgeFacts DEF HedgeThread, KnowsRow
  <2>4. SaveAttempt(t, "response_received", "ticket_accepted", "evidence_exposure", "return")
    BY <1>3 DEF EvidenceAttempt
  <2>5. "evidence_exposure" \in CalmPoints \cup {"return"} /\ "return" \in CalmPoints \cup {"return"}
    BY DEF CalmPoints
  <2>6. QED
    BY <2>1, <2>2, <2>3, <2>4, <2>5, CalmSaves
<1>4. CASE EvidenceExposure(t)
  <2>1. thr[t].pc = "evidence_exposure" /\ UNCHANGED <<action, attempt>>
    BY <1>4 DEF EvidenceExposure, At
  <2>2. CASE thr[t].expoStale
    <3>1. Advance(t, Returned(t), {}) /\ UNCHANGED expo
      BY <1>4, <2>2 DEF EvidenceExposure
    <3>2. QED
      BY <2>1, <3>1, CalmStays, CalmReturn
  <2>3. CASE ~thr[t].expoStale
    <3>. DEFINE self == Goto(t, "complete")
    <3>1. self.pc \in CalmPoints
      BY GotoKeeps DEF Points, CalmPoints
    <3>2. expo' = Completed(t) /\ Advance(t, self, {ExposureRow})
      BY <1>4, <2>3 DEF EvidenceExposure
    <3>. HIDE DEF self
    <3>3. expo[a].st \in {"exposure_open", "submission_unknown", "manual_review"}
      BY <2>1, <2>3, InvOf DEF Sees, KnowsExposure, EvidencePoints
    <3>4. QED
      BY <2>1, <3>1, <3>2, <3>3, HedgeCompletes
  <2>4. QED
    BY <2>2, <2>3
<1>5. QED
  BY <1>1, <1>2, <1>3, <1>4, DecidingHedges DEF OperatorStep
-----------------------------------------------------------------------------
(* Arrivals, expiries, collectors and faults                               *)

(* A thread that goes on as it was, or becomes calm.                       *)
Quietens(u) ==
  \/ thr'[u].pc \in CalmPoints
  \/ /\ thr'[u].pc = thr[u].pc /\ thr'[u].key = thr[u].key /\ thr'[u].lag = thr[u].lag
     /\ thr'[u].expoStale = thr[u].expoStale /\ thr'[u].attStale = thr[u].attStale

(* A calm thread claims and knows nothing.                                 *)
LEMMA CalmThread ==
  ASSUME NEW r, r.pc \in CalmPoints
  PROVE  /\ ~AtHedge(r) /\ ~Claims(r) /\ ~Revives(r) /\ r.pc # "placing"
         /\ \A ac, at, ex, busy, under : HedgeThread(r, ac, at, ex, busy, under)
         /\ \A s : HedgeAlone(r, s) /\ (s.pc \in CalmPoints => HedgeAlone(s, r))
<1>1. ~AtHedge(r) /\ ~Claims(r) /\ ~Revives(r) /\ r.pc # "placing" /\ r.pc # "rec_complete"
  BY DEF CalmPoints, AtHedge, Claims, Revives
<1>2. \A ac, at, ex, busy, under :
        KnowsRow(r, at) /\ KnowsFree(r, ac, ex, busy, under) /\ KnowsUnhedged(r, ac, ex)
  BY DEF CalmPoints, KnowsRow, KnowsFree, KnowsUnhedged, MatcherPoints, CommitPoints, TicketPoints
<1>3. \A s : s.pc \in CalmPoints => s.pc # "rec_complete" /\ ~AtHedge(s) /\ ~Claims(s)
  BY DEF CalmPoints, AtHedge, Claims
<1>4. QED
  BY <1>1, <1>2, <1>3 DEF HedgeThread, HedgeAlone

(* When no status and no attempt changes and every thread quietens, less   *)
(* is under way and nothing is forgotten.                                  *)
LEMMA LessHedge ==
  ASSUME HedgeInv, UNCHANGED attempt,
         \A a \in Actions : action'[a].st = action[a].st /\ expo'[a].st = expo[a].st,
         \A u \in Threads : Quietens(u)
  PROVE  HedgeInv'
<1>. SUFFICES ASSUME NEW a \in Actions
              PROVE  HedgeOf(a, action'[a].st, attempt'[a], expo'[a].st, thr')
  BY DEF HedgeInv
<1>. DEFINE under == Underway(a, attempt[a], thr)
            busy == Busy(a, attempt[a], thr)
            ac == action[a].st
            ex == expo[a].st
            at == attempt[a]
<1>1. HedgeOf(a, ac, at, ex, thr)
  BY DEF HedgeInv
<1>2. ASSUME NEW u \in Ours(a), thr'[u].pc \notin CalmPoints
      PROVE  /\ thr'[u].pc = thr[u].pc /\ thr'[u].key = thr[u].key /\ thr'[u].lag = thr[u].lag
             /\ thr'[u].expoStale = thr[u].expoStale /\ thr'[u].attStale = thr[u].attStale
  BY <1>2 DEF Quietens, Ours
<1>3. ASSUME NEW u \in Ours(a)
      PROVE  /\ AtHedge(thr'[u]) => AtHedge(thr[u])
             /\ Claims(thr'[u]) => Claims(thr[u]) /\ thr'[u].pc = thr[u].pc
             /\ Revives(thr'[u]) => Revives(thr[u])
             /\ thr'[u].pc = "placing" => thr[u].pc = "placing"
  <2>1. CASE thr'[u].pc \in CalmPoints
    BY <2>1, CalmThread
  <2>2. CASE thr'[u].pc \notin CalmPoints
    BY <1>2, <2>2 DEF AtHedge, Claims, Revives, OnHedge
  <2>3. QED
    BY <2>1, <2>2
<1>4. (Underway(a, at, thr') => under) /\ (Busy(a, at, thr') => busy)
  BY <1>3 DEF Underway, Busy
<1>5. HedgeRows(ac, at, ex, Busy(a, at, thr'), Underway(a, at, thr'))
  BY <1>1, <1>4 DEF HedgeOf, HedgeRows
<1>6. ASSUME NEW u \in Ours(a)
      PROVE  HedgeThread(thr'[u], ac, at, ex, Busy(a, at, thr'), Underway(a, at, thr'))
  <2>1. CASE thr'[u].pc \in CalmPoints
    BY <2>1, CalmThread
  <2>2. CASE thr'[u].pc \notin CalmPoints
    <3>1. HedgeThread(thr[u], ac, at, ex, busy, under)
      BY <1>1 DEF HedgeOf
    <3>. HIDE DEF busy, under
    <3>2. KnowsRow(thr'[u], at) /\ KnowsUnhedged(thr'[u], ac, ex)
      BY <1>2, <2>2, <3>1 DEF HedgeThread, KnowsRow, KnowsUnhedged, OnHedge
    <3>3. KnowsFree(thr'[u], ac, ex, Busy(a, at, thr'), Underway(a, at, thr'))
      BY <1>2, <1>4, <2>2, <3>1 DEF HedgeThread, KnowsFree
    <3>4. QED
      BY <1>2, <1>3, <2>2, <3>1, <3>2, <3>3 DEF HedgeThread
  <2>3. QED
    BY <2>1, <2>2
<1>7. ASSUME NEW u \in Ours(a), NEW v \in Ours(a), u # v
      PROVE  HedgeAlone(thr'[u], thr'[v])
  <2>1. CASE thr'[u].pc \in CalmPoints
    BY <2>1, CalmThread
  <2>2. CASE thr'[u].pc \notin CalmPoints
    <3>1. HedgeAlone(thr[u], thr[v])
      BY <1>1, <1>7 DEF HedgeOf
    <3>2. Revives(thr'[v]) => thr'[v].key = thr[v].key
      BY <1>2, CalmThread
    <3>3. QED
      BY <1>2, <1>3, <2>2, <3>1, <3>2 DEF HedgeAlone
  <2>3. QED
    BY <2>1, <2>2
<1>8. HedgeOf(a, ac, at, ex, thr')
  BY <1>5, <1>6, <1>7 DEF HedgeOf
<1>. HIDE DEF ac, ex, at
<1>9. action'[a].st = ac /\ attempt'[a] = at /\ expo'[a].st = ex
  BY DEF ac, ex, at
<1>10. QED
  BY <1>8, <1>9

(* A thread begins: a gate passed, an exposure due, rows read.             *)
LEMMA ArrivalHedges ==
  ASSUME SafetyInv, CommitInv, HedgeInv, NEW a \in Actions, Arrival(a)
  PROVE  HedgeInv'
<1>1. UNCHANGED <<action, attempt, expo>>
  BY DEF Arrival, Gate, HedgeList, ReconcileManually, OperatorReads, rows
<1>2. CASE HedgeList(a)
  <2>. DEFINE t == <<"hedge", a>>
              self == [Idle EXCEPT !.pc = "lease"]
  <2>1. t \in Threads /\ Subject(t) = a /\ Advance(t, self, {}) /\ expo[a].st = "exposure_open"
    BY <1>2 DEF HedgeList, Threads, Subject
  <2>2. self.pc \in MatcherPoints
    BY DEF Idle, MatcherPoints
  <2>. HIDE DEF self, t
  <2>3. SelfClaims(t, self, {}) /\ SelfKnows(t, self)
    BY <1>1, <2>1, <2>2, MatcherSelf
  <2>4. QED
    BY <1>1, <2>1, <2>3, HedgeGoesOn
<1>3. CASE Gate(a) \/ ReconcileManually(a) \/ OperatorReads(a)
  <2>1. \E t \in Threads : \E self : Advance(t, self, {}) /\ self.pc \in {"create", "listed", "resolve"}
    <3>1. Gate(a) => LET t == <<"exec", a>> IN t \in Threads /\ Advance(t, [Idle EXCEPT !.pc = "create"], {})
      BY DEF Gate, Threads
    <3>2. ReconcileManually(a) =>
            LET t == <<"manual", a>> IN
            t \in Threads /\ Advance(t, Reading(t, [Idle EXCEPT !.pc = "listed"]), {})
      BY DEF ReconcileManually, Threads
    <3>3. OperatorReads(a) =>
            LET t == <<"operate", a>> IN t \in Threads /\ Advance(t, [Idle EXCEPT !.pc = "resolve"], {})
      BY DEF OperatorReads, Threads
    <3>4. /\ [Idle EXCEPT !.pc = "create"].pc = "create" /\ [Idle EXCEPT !.pc = "resolve"].pc = "resolve"
          /\ \A t : Reading(t, [Idle EXCEPT !.pc = "listed"]).pc = "listed"
      BY DEF Idle, Reading
    <3>5. QED
      BY <1>3, <3>1, <3>2, <3>3, <3>4
  <2>2. PICK t \in Threads : \E self : Advance(t, self, {}) /\ self.pc \in {"create", "listed", "resolve"}
    BY <2>1
  <2>3. PICK self : Advance(t, self, {}) /\ self.pc \in {"create", "listed", "resolve"}
    BY <2>2
  <2>4. self.pc \in CalmPoints
    BY <2>3 DEF CalmPoints
  <2>5. QED
    BY <1>1, <2>3, <2>4, CalmStays
<1>4. QED
  BY <1>2, <1>3 DEF Arrival

(* Time, the collectors, the list of a pass, and the faults.               *)
LEMMA SurroundingsHedge ==
  ASSUME SafetyInv, CommitInv, HedgeInv,
         \/ ListPending \/ BackendCrashes \/ UNCHANGED vars
         \/ \E a \in Actions : LeaseExpires(a)
         \/ \E bm \in Bookmakers : CollectorStep(bm) \/ CollectorRestarts(bm)
         \/ \E t \in Threads : ThreadFails(t)
  PROVE  HedgeInv'
<1>0. /\ action \in [Actions -> ActionState] /\ expo \in [Actions -> ExposureState]
      /\ thr \in [Threads -> ThreadState]
  BY DEF SafetyInv, IInv, TypeOK
<1>. DEFINE Statuses == \A a \in Actions : action'[a].st = action[a].st /\ expo'[a].st = expo[a].st
<1>1. CASE ListPending
  <2>1. UNCHANGED <<action, attempt, expo>>
    BY <1>1 DEF ListPending, rows
  <2>2. ASSUME NEW u \in Threads
        PROVE  Quietens(u)
    <3>1. \/ thr'[u] = thr[u]
          \/ thr'[u] = Reading(u, [Idle EXCEPT !.pc = "listed"])
      BY <1>1 DEF ListPending
    <3>2. Reading(u, [Idle EXCEPT !.pc = "listed"]).pc \in CalmPoints
      BY DEF Idle, Reading, CalmPoints
    <3>3. QED
      BY <3>1, <3>2 DEF Quietens
  <2>3. QED
    BY <2>1, <2>2, LessHedge
<1>2. CASE BackendCrashes
  <2>1. Statuses /\ UNCHANGED attempt
    BY <1>0, <1>2 DEF BackendCrashes, ActionState
  <2>2. ASSUME NEW u \in Threads
        PROVE  Quietens(u)
    <3>1. thr'[u] = Idle /\ Idle.pc \in CalmPoints
      BY <1>2 DEF BackendCrashes, Idle, CalmPoints
    <3>2. QED
      BY <3>1 DEF Quietens
  <2>3. QED
    BY <2>1, <2>2, LessHedge
<1>3. CASE UNCHANGED vars
  <2>1. UNCHANGED <<action, attempt, expo, thr>>
    BY <1>3 DEF vars, rows
  <2>2. \A u \in Threads : Quietens(u)
    BY <2>1 DEF Quietens
  <2>3. QED
    BY <2>1, <2>2, LessHedge
<1>4. ASSUME NEW a \in Actions, LeaseExpires(a)
      PROVE  HedgeInv'
  <2>1. Statuses /\ UNCHANGED <<attempt, thr>>
    <3>1. CASE action' = [action EXCEPT ![a].held = FALSE] /\ UNCHANGED expo
      BY <1>0, <1>4, <3>1 DEF LeaseExpires, ActionState
    <3>2. CASE expo' = [expo EXCEPT ![a].leased = FALSE] /\ UNCHANGED action
      BY <1>0, <1>4, <3>2 DEF LeaseExpires, ExposureState
    <3>3. QED
      BY <1>4, <3>1, <3>2 DEF LeaseExpires
  <2>2. QED
    BY <2>1, LessHedge DEF Quietens
<1>5. ASSUME NEW bm \in Bookmakers, CollectorStep(bm) \/ CollectorRestarts(bm)
      PROVE  HedgeInv'
  <2>1. UNCHANGED <<action, attempt, expo>>
    BY <1>5 DEF CollectorStep, CollectorRestarts, HandleCommit, HandleReconcile, DropExpired, rows
  <2>2. ASSUME NEW m, NEW result, Deliver(m, result), NEW u \in Threads
        PROVE  Quietens(u)
    BY <1>0, <2>2 DEF Deliver, Quietens, ThreadState
  <2>3. \A u \in Threads : Quietens(u)
    <3>1. UNCHANGED thr => \A u \in Threads : Quietens(u)
      BY DEF Quietens
    <3>2. QED
      BY <1>5, <2>2, <3>1 DEF CollectorStep, CollectorRestarts, HandleCommit, HandleReconcile,
         DropExpired
  <2>4. QED
    BY <2>1, <2>3, LessHedge
<1>6. ASSUME NEW t \in Threads, ThreadFails(t)
      PROVE  HedgeInv'
  <2>1. UNCHANGED <<action, attempt, expo>>
    BY <1>6 DEF ThreadFails, rows
  <2>2. Advance(t, Idle, {}) \/ Advance(t, Returned(t), {})
    BY <1>6 DEF ThreadFails
  <2>3. QED
    BY <2>1, <2>2, CalmStays, CalmReturn
<1>7. QED
  BY <1>1, <1>2, <1>3, <1>4, <1>5, <1>6

-----------------------------------------------------------------------------
(* The results, on a reliable wire                                         *)

(* In the beginning nobody works on anything.                              *)
LEMMA InitHedges ==
  ASSUME Init
  PROVE  HedgeInv
<1>. SUFFICES ASSUME NEW a \in Actions
              PROVE  HedgeOf(a, action[a].st, attempt[a], expo[a].st, thr)
  BY DEF HedgeInv
<1>1. /\ action[a].st = "none" /\ expo[a].st = "none"
      /\ \A n \in 1 .. MaxCommits : ~LiveHedge(attempt[a], n)
  <2>1. \A n \in 1 .. MaxCommits : <<"8xbet", n>> \in Keys
    BY DEF Keys, Bookmakers
  <2>2. QED
    BY <2>1 DEF Init, NoAction, NoAttempt, NoExposure, LiveHedge, Live
<1>2. \A t \in Ours(a) : thr[t].pc \in CalmPoints
  BY DEF Init, Ours, Idle, CalmPoints
<1>3. ~Underway(a, attempt[a], thr) /\ ~Busy(a, attempt[a], thr)
  BY <1>1, <1>2, CalmThread DEF Underway, Busy, Spent
<1>4. HedgeRows(action[a].st, attempt[a], expo[a].st, Busy(a, attempt[a], thr),
                Underway(a, attempt[a], thr))
  BY <1>1, <1>3 DEF HedgeRows
<1>5. QED
  BY <1>2, <1>4, CalmThread DEF HedgeOf

(* Every step.                                                             *)
LEMMA NextHedges ==
  ASSUME SafetyInv, CommitInv, HedgeInv, [Next]_vars
  PROVE  HedgeInv'
<1>1. ASSUME NEW t \in Threads, ThreadStep(t)
      PROVE  HedgeInv'
  BY <1>1, ExecutorHedges, AttemptHedges, HedgeHedges, MatcherHedges, ReconcileHedges,
     OperatorHedges DEF ThreadStep
<1>2. ASSUME NEW a \in Actions, Arrival(a)
      PROVE  HedgeInv'
  BY <1>2, ArrivalHedges
<1>3. ASSUME NEW t \in Threads, MarkFails(t)
      PROVE  HedgeInv'
  BY <1>3, AttemptHedges
<1>4. QED
  BY <1>1, <1>2, <1>3, SurroundingsHedge DEF Next, Fault

(* While executors, matchers, reconciliation passes and operators work on  *)
(* an action in any order, at most one of them hedges its exposure, frees  *)
(* it or takes an answer back, and at most one 8xbet commit is alive.      *)
THEOREM HedgesHold ==
  ASSUME ReliableWire
  PROVE  Spec => []HedgeInv
<1>1. Init => HedgeInv
  BY InitHedges
<1>2. SafetyInv /\ TicketInv /\ HedgeInv /\ [Next]_vars => HedgeInv'
  BY NextHedges DEF TicketInv
<1>3. QED
  BY <1>1, <1>2, SafetyHolds, TicketsHold, PTL DEF Spec
-----------------------------------------------------------------------------
(* A commit that is not live, neither fresh nor refused, has no ticket and *)
(* will never have one.                                                    *)
LEMMA DeadIsHopeless ==
  ASSUME CommitInv, NEW a \in Actions, NEW k \in Keys, ~Live(attempt[a][k])
  PROVE  Hopeless(thr, inbox[k[1]], tickets, a, k)
<1>1. CommitOf(a, k, attempt[a][k], thr, inbox[k[1]], journal, tickets)
  BY DEF CommitInv, CommitsFit
<1>2. CASE attempt[a][k].st = "response_received" /\ attempt[a][k].res \in Negative
  BY <1>1, <1>2 DEF CommitOf
<1>3. CASE attempt[a][k].st = "none"
  <2>1. journal[<<a, k>>] = "none" /\ ~Queued(inbox[k[1]], a, k) /\ TicketAt(a, k) \notin tickets
    BY <1>1, <1>3 DEF CommitOf
  <2>2. ~Sending(thr, a, k)
    BY <1>3 DEF Sending, CommitInv, ThreadsCommit, KnowsCommit
  <2>3. QED
    BY <2>1, <2>2 DEF Hopeless
<1>4. QED
  BY <1>2, <1>3 DEF Live

(* No 8xbet commit of an action is in flight when none of its numbers is.  *)
LEMMA NoHedgeInFlight ==
  ASSUME IInv, NEW a \in Actions,
         \A n \in 1 .. MaxCommits :
           ~Sending(thr, a, <<"8xbet", n>>) /\ ~Queued(inbox["8xbet"], a, <<"8xbet", n>>)
  PROVE  ~InFlight(a, "8xbet")
<1>1. ASSUME NEW t \in Threads, Subject(t) = a, At(t, "send"), KeyOf(t)[1] = "8xbet"
      PROVE  FALSE
  <2>1. KeyOf(t) \in Keys
    BY <1>1, SavesItsKey DEF At, CommitPoints
  <2>2. PICK n \in 1 .. MaxCommits : KeyOf(t) = <<"8xbet", n>>
    BY <1>1, <2>1 DEF Keys
  <2>3. QED
    BY <1>1, <2>2 DEF Sending, At, KeyOf
<1>2. ASSUME NEW i \in DOMAIN inbox["8xbet"], inbox["8xbet"][i].kind = "commit",
             inbox["8xbet"][i].key[1] = a
      PROVE  FALSE
  <2>1. "8xbet" \in Bookmakers
    BY DEF Bookmakers
  <2>2. inbox["8xbet"][i] \in Message /\ inbox["8xbet"][i].key[2][1] = "8xbet"
    BY <2>1, QueueElements DEF IInv, QueuesFit, CommandFits
  <2>3. PICK n \in 1 .. MaxCommits : inbox["8xbet"][i].key = <<a, <<"8xbet", n>>>>
    BY <1>2, <2>2 DEF Message, Keys
  <2>4. QED
    BY <1>2, <2>3 DEF Queued
<1>3. QED
  BY <1>1, <1>2 DEF InFlight

(* No retry, reprice, rematch or reconciliation ever leaves two tickets at *)
(* one bookmaker for one action: a ticket is live, and only one commit of  *)
(* each leg can be.                                                        *)
THEOREM OneTicketOfEachLeg ==
  ASSUME ReliableWire
  PROVE  Spec => []OneTicketPerLeg
<1>1. TicketInv /\ HedgeInv /\ OneJunTicket => OneTicketPerLeg
  <2> SUFFICES ASSUME TicketInv, HedgeInv, OneJunTicket, NEW a \in Actions
               PROVE  \A bm \in Bookmakers : Cardinality(TicketsOf(a, bm)) <= 1
    BY DEF OneTicketPerLeg
  <2>1. Cardinality(TicketsOf(a, "jun88")) <= 1
    BY DEF OneJunTicket
  <2>2. Cardinality(TicketsOf(a, "8xbet")) <= 1
    <3>1. ASSUME NEW n \in TicketsOf(a, "8xbet")
          PROVE  n \in 1 .. MaxCommits /\ LiveHedge(attempt[a], n)
      <4>1. /\ n \in 1 .. MaxCommits /\ TicketAt(a, <<"8xbet", n>>) \in tickets
            /\ <<"8xbet", n>> \in Keys
        BY DEF TicketsOf, TicketAt, Keys, Bookmakers
      <4>2. QED
        BY <4>1, TicketIsLive DEF TicketInv, LiveHedge
    <3>2. \A m, n \in 1 .. MaxCommits :
             LiveHedge(attempt[a], m) /\ LiveHedge(attempt[a], n) => m = n
      BY DEF HedgeInv, HedgeOf, HedgeRows
    <3>3. \A m, n \in TicketsOf(a, "8xbet") : m = n
      BY <3>1, <3>2
    <3>4. CASE TicketsOf(a, "8xbet") = {}
      BY <3>4, FS_EmptySet
    <3>5. CASE TicketsOf(a, "8xbet") # {}
      <4>1. PICK n : TicketsOf(a, "8xbet") = {n}
        BY <3>3, <3>5
      <4>2. QED
        BY <4>1, FS_Singleton
    <3>6. QED
      BY <3>4, <3>5
  <2>3. QED
    BY <2>1, <2>2 DEF Bookmakers
<1>2. QED
  BY <1>1, TicketsHold, HedgesHold, JunTicketIsTheOnlyOne, PTL

(* An exposure the operator has closed as unhedged has no 8xbet ticket,    *)
(* and none can arrive any more: every commit of it was refused for good.  *)
THEOREM ClosedExposuresAreUnhedged ==
  ASSUME ReliableWire
  PROVE  Spec => []ClosedIsUnhedged
<1>1. IInv /\ TicketInv /\ HedgeInv => ClosedIsUnhedged
  <2> SUFFICES ASSUME IInv, TicketInv, HedgeInv, NEW a \in Actions, expo[a].st = "unhedged_closed"
               PROVE  TicketsOf(a, "8xbet") = {} /\ ~InFlight(a, "8xbet")
    BY DEF ClosedIsUnhedged
  <2>1. Spent(attempt[a])
    BY DEF HedgeInv, HedgeOf, HedgeRows, Busy, Underway
  <2>2. ASSUME NEW n \in 1 .. MaxCommits
        PROVE  Hopeless(thr, inbox["8xbet"], tickets, a, <<"8xbet", n>>)
    <3>1. <<"8xbet", n>> \in Keys /\ <<"8xbet", n>>[1] = "8xbet"
      BY DEF Keys, Bookmakers
    <3>2. ~Live(attempt[a][<<"8xbet", n>>])
      BY <2>1 DEF Spent, LiveHedge
    <3>3. QED
      BY <3>1, <3>2, DeadIsHopeless DEF TicketInv
  <2>3. TicketsOf(a, "8xbet") = {}
    BY <2>2 DEF Hopeless, TicketsOf, TicketAt
  <2>4. QED
    BY <2>2, <2>3, NoHedgeInFlight DEF Hopeless
<1>2. QED
  BY <1>1, TicketsHold, HedgesHold, InvariantHolds, PTL

(* The matcher sends a new hedge only when the previous one is resolved:   *)
(* the row it is about to mark is the only live one.                       *)
THEOREM NewHedgesWait ==
  ASSUME ReliableWire
  PROVE  Spec => []MatcherWaitsForResolution
<1>1. SafetyInv /\ TicketInv /\ HedgeInv => MatcherWaitsForResolution
  <2> SUFFICES ASSUME SafetyInv, TicketInv, HedgeInv, NEW a \in Actions,
                      "hedge" \in Roles, thr[<<"hedge", a>>].pc = "mark"
               PROVE  ~InFlight(a, "8xbet")
    BY DEF MatcherWaitsForResolution
  <2> DEFINE t == <<"hedge", a>>
  <2>1. t \in Threads /\ t \in Ours(a) /\ Subject(t) = a /\ Role(t) # "exec"
    BY DEF Threads, Ours, Subject, Role
  <2>2. thr[t].key \in Keys
    BY <2>1, SavesItsKey DEF CommitPoints, KeyOf, SafetyInv
  <2>3. thr[t].key[1] = "8xbet"
    <3>1. KnowsRole(t, thr[t])
      BY <2>1 DEF SafetyInv, VerdictInv, ThreadsSee, Sees
    <3>2. QED
      BY <2>1, <2>2, <3>1 DEF KnowsRole, CommitPoints, Keys, Bookmakers
  <2>4. PICK m \in 1 .. MaxCommits : thr[t].key = <<"8xbet", m>>
    BY <2>2, <2>3 DEF Keys
  <2>5. ~thr[t].attStale
    <3>1. KnowsRow(thr[t], attempt[a])
      BY <2>1 DEF HedgeInv, HedgeOf, HedgeThread
    <3>2. QED
      BY <2>3, <3>1 DEF KnowsRow, OnHedge
  <2>6. attempt[a][<<"8xbet", m>>].st = "before_send"
    <3>1. KnowsCommit(thr[t], attempt[a])
      BY <2>1 DEF TicketInv, CommitInv, ThreadsCommit
    <3>2. QED
      BY <2>4, <2>5, <3>1 DEF KnowsCommit
  <2>. HIDE DEF t
  <2>7. ASSUME NEW n \in 1 .. MaxCommits
        PROVE  ~Sending(thr, a, <<"8xbet", n>>) /\ ~Queued(inbox["8xbet"], a, <<"8xbet", n>>)
    <3>1. <<"8xbet", n>> \in Keys /\ <<"8xbet", n>>[1] = "8xbet"
      BY DEF Keys, Bookmakers
    <3>2. CASE n = m
      <4>1. CommitOf(a, <<"8xbet", n>>, attempt[a][<<"8xbet", n>>], thr, inbox["8xbet"], journal,
                     tickets)
        BY <3>1 DEF TicketInv, CommitInv, CommitsFit
      <4>2. ~Sending(thr, a, <<"8xbet", n>>)
        BY <2>6, <3>2 DEF Sending, TicketInv, CommitInv, ThreadsCommit, KnowsCommit
      <4>3. QED
        BY <2>6, <3>2, <4>1, <4>2 DEF CommitOf
    <3>3. CASE n # m
      <4>1. LiveHedge(attempt[a], m)
        BY <2>6 DEF LiveHedge, Live
      <4>2. ~LiveHedge(attempt[a], n)
        BY <3>3, <4>1 DEF HedgeInv, HedgeOf, HedgeRows
      <4>3. Hopeless(thr, inbox["8xbet"], tickets, a, <<"8xbet", n>>)
        BY <3>1, <4>2, DeadIsHopeless DEF TicketInv, LiveHedge
      <4>4. QED
        BY <4>3 DEF Hopeless
    <3>4. QED
      BY <3>2, <3>3
  <2>8. QED
    BY <2>7, NoHedgeInFlight DEF SafetyInv
<1>2. QED
  BY <1>1, TicketsHold, HedgesHold, SafetyHolds, PTL

-----------------------------------------------------------------------------
(* The refinement of TwoLegBet                                             *)

(* What a verdict says of the tickets, and in which order they come.       *)
OutcomesAgree ==
  \A a \in Actions :
    /\ heldBy[a] \in {{}, {"jun88"}, {"jun88", "8xbet"}}
    /\ verdictOf[a] \in {"open", "aborted", "unhedged", "completed"}
    /\ verdictOf[a] = "aborted" => heldBy[a] = {}
    /\ verdictOf[a] = "unhedged" => heldBy[a] = {"jun88"}
    /\ verdictOf[a] = "completed" => heldBy[a] = {"jun88", "8xbet"}

(* Who holds a ticket.                                                     *)
LEMMA HeldFacts ==
  ASSUME NEW a \in Actions
  PROVE  /\ heldBy[a] \subseteq {"jun88", "8xbet"}
         /\ "jun88" \in heldBy[a] <=> \E n \in 1 .. MaxCommits : TicketAt(a, <<"jun88", n>>) \in tickets
         /\ "8xbet" \in heldBy[a] <=> \E n \in 1 .. MaxCommits : TicketAt(a, <<"8xbet", n>>) \in tickets
<1>1. heldBy[a] = {bm \in Bookmakers : TicketsOf(a, bm) # {}}
  BY DEF heldBy
<1>2. \A bm : TicketsOf(a, bm) # {} <=> \E n \in 1 .. MaxCommits : <<a, bm, n>> \in tickets
  BY DEF TicketsOf
<1>3. QED
  BY <1>1, <1>2 DEF Bookmakers, TicketAt

(* The verdicts that are recorded agree with the tickets.                  *)
LEMMA VerdictsFit ==
  ASSUME SafetyInv, TicketInv, HedgeInv
  PROVE  OutcomesAgree
<1>. SUFFICES ASSUME NEW a \in Actions
              PROVE  /\ heldBy[a] \in {{}, {"jun88"}, {"jun88", "8xbet"}}
                     /\ verdictOf[a] \in {"open", "aborted", "unhedged", "completed"}
                     /\ verdictOf[a] = "aborted" => heldBy[a] = {}
                     /\ verdictOf[a] = "unhedged" => heldBy[a] = {"jun88"}
                     /\ verdictOf[a] = "completed" => heldBy[a] = {"jun88", "8xbet"}
  BY DEF OutcomesAgree
<1>. DEFINE jun == \E n \in 1 .. MaxCommits : TicketAt(a, <<"jun88", n>>) \in tickets
            hedge == \E n \in 1 .. MaxCommits : TicketAt(a, <<"8xbet", n>>) \in tickets
            ac == action[a].st
            ex == expo[a].st
<1>1. verdictOf[a] = CASE ac = "completed" -> "completed"
                       [] ac = "unhedged_closed" -> "unhedged"
                       [] ac \in GivenUp -> "aborted"
                       [] OTHER -> "open"
  BY DEF verdictOf, GivenUp
<1>2. /\ verdictOf[a] \in {"open", "aborted", "unhedged", "completed"}
      /\ verdictOf[a] = "aborted" => ac \in GivenUp
      /\ verdictOf[a] = "unhedged" => ac = "unhedged_closed"
      /\ verdictOf[a] = "completed" => ac = "completed"
  BY <1>1 DEF GivenUp
<1>3. RowsOf(a, ac, attempt[a], expo[a], tickets)
  BY DEF SafetyInv, VerdictInv, RowsAgree
<1>4. JunLegOf(ac, attempt[a], expo[a])
  BY DEF TicketInv, JunLegs
<1>5. HedgeRows(ac, attempt[a], ex, Busy(a, attempt[a], thr), Underway(a, attempt[a], thr))
  BY DEF HedgeInv, HedgeOf
<1>6. ex # "none" => jun
  <2>1. ex # "none" => <<a, "jun88", expo[a].jun>> \in tickets
    BY DEF SafetyInv, IInv, RowsFit
  <2>2. tickets \subseteq Actions \X Bookmakers \X (1 .. MaxCommits)
    BY DEF SafetyInv, IInv, TypeOK
  <2>3. QED
    BY <2>1, <2>2 DEF TicketAt
<1>7. hedge => ex # "none"
  BY DEF SafetyInv, IInv, RowsFit, TicketAt
<1>8. ac \in GivenUp => ~jun /\ ex = "none"
  <2>1. ASSUME ac \in GivenUp, NEW n \in 1 .. MaxCommits
        PROVE  TicketAt(a, <<"jun88", n>>) \notin tickets
    <3>. DEFINE k == <<"jun88", n>>
    <3>1. k \in Keys
      BY DEF Keys, Bookmakers
    <3>2. attempt[a][k].st \in AttemptStatus \cup {"none"}
      BY <3>1 DEF SafetyInv, IInv, TypeOK, AttemptState
    <3>3. attempt[a][k].st \notin Unsettled /\ expo[a].st = "none"
      BY <1>4, <2>1 DEF JunLegOf, NoneWaiting, Waiting
    <3>4. ~Live(attempt[a][k])
      BY <1>4, <3>1, <3>2, <3>3 DEF JunLegOf, Live, Unsettled
    <3>5. QED
      BY <3>1, <3>4, DeadIsHopeless DEF TicketInv, Hopeless
  <2>2. ac \in GivenUp => ex = "none"
    BY <1>4 DEF JunLegOf
  <2>3. QED
    BY <2>1, <2>2
<1>9. ac = "unhedged_closed" => ex # "none" /\ ~hedge
  <2>1. ASSUME ac = "unhedged_closed", NEW n \in 1 .. MaxCommits
        PROVE  TicketAt(a, <<"8xbet", n>>) \notin tickets
    <3>1. ~LiveHedge(attempt[a], n)
      BY <1>5, <2>1 DEF HedgeRows, Busy, Underway, Spent
    <3>2. <<"8xbet", n>> \in Keys
      BY DEF Keys, Bookmakers
    <3>3. QED
      BY <3>1, <3>2, DeadIsHopeless DEF TicketInv, Hopeless, LiveHedge
  <2>2. ac = "unhedged_closed" => ex # "none"
    BY <1>5 DEF HedgeRows
  <2>3. QED
    BY <2>1, <2>2
<1>10. ac = "completed" => ex # "none" /\ hedge
  <2>1. ac = "completed" => ex = "completed" /\ <<a, "8xbet", expo[a].hedge>> \in tickets
    BY <1>3 DEF RowsOf
  <2>2. tickets \subseteq Actions \X Bookmakers \X (1 .. MaxCommits)
    BY DEF SafetyInv, IInv, TypeOK
  <2>3. QED
    BY <2>1, <2>2 DEF TicketAt
<1>. HIDE DEF jun, hedge, ac, ex
<1>11. /\ heldBy[a] \subseteq {"jun88", "8xbet"}
       /\ "jun88" \in heldBy[a] <=> jun
       /\ "8xbet" \in heldBy[a] <=> hedge
  BY HeldFacts DEF jun, hedge
<1>12. QED
  BY <1>2, <1>6, <1>7, <1>8, <1>9, <1>10, <1>11

(* The other actions stay as they are.                                     *)
OthersKeep(t) == \A b \in Actions \ {Subject(t)} : action'[b] = action[b]

(* Whatever a thread does to the row of its action.                        *)
LEMMA OthersUntouched ==
  ASSUME SafetyInv, NEW t \in Threads,
         \/ UNCHANGED action
         \/ \E to : action' = Moved(t, to)
         \/ \E to, p : TransitionAction(t, to, p)
         \/ \E p : Reserve(t, p)
         \/ action' = Reserved(Subject(t))
  PROVE  OthersKeep(t)
<1>1. action \in [Actions -> ActionState] /\ Subject(t) \in Actions
  BY InvOf DEF TypeOK
<1>2. \/ UNCHANGED action
      \/ \E row : action' = [action EXCEPT ![Subject(t)] = row]
  BY DEF TransitionAction, Moved, Reserve, Reserved
<1>3. QED
  BY <1>1, <1>2 DEF OthersKeep

(* A thread moves its own action, and places no bet itself.                *)
LEMMA ThreadMovesOne ==
  ASSUME SafetyInv, NEW t \in Threads, ThreadStep(t)
  PROVE  OthersKeep(t) /\ UNCHANGED tickets
<1>1. CASE ExecutorStep(t)
  <2>0. action \in [Actions -> ActionState] /\ Subject(t) \in Actions
    BY InvOf DEF TypeOK
  <2>1. CASE CreateAction(t)
    BY <2>0, <2>1 DEF CreateAction, OthersKeep, wire
  <2>2. CASE ReserveAccount(t) \/ JunRenew(t)
    BY <2>2, OthersUntouched DEF ReserveAccount, JunRenew, wire
  <2>3. CASE PrepareBoth(t) \/ DryRun(t) \/ JunStart(t) \/ JunChanged(t) \/ JunUnknown(t)
             \/ Abort(t)
    BY <2>3, OthersUntouched
       DEF PrepareBoth, DryRun, JunStart, JunChanged, JunUnknown, Abort, wire
  <2>4. CASE JunReallocate(t)
    BY <2>4, OthersUntouched DEF JunReallocate, wire
  <2>5. CASE JunAccepted(t) \/ JunOddsChanged(t) \/ JunRejected(t)
    BY <2>5, OthersUntouched DEF JunAccepted, JunOddsChanged, JunRejected, wire
  <2>6. CASE JunTicket(t)
    <3>1. UNCHANGED tickets
      BY <2>6 DEF JunTicket, CommitJun88Ticket, wire
    <3>2. \/ UNCHANGED action
          \/ \E row : action' = [action EXCEPT ![Subject(t)] = row]
      BY <2>6 DEF JunTicket, CommitJun88Ticket, rows
    <3>3. QED
      BY <2>0, <3>1, <3>2 DEF OthersKeep
  <2>7. CASE Release(t)
    BY <2>0, <2>7 DEF Release, OthersKeep, wire
  <2>8. QED
    BY <1>1, <2>1, <2>2, <2>3, <2>4, <2>5, <2>6, <2>7 DEF ExecutorStep
<1>2. CASE AttemptStep(t)
  <2>1. UNCHANGED action /\ UNCHANGED tickets
    BY <1>2 DEF AttemptStep, NewAttempt, MarkStarted, SendCommit, SendRefused, CommitTimeout,
       CommitUnknown, rows, wire
  <2>2. QED
    BY <2>1, OthersUntouched
<1>3. CASE HedgeStep(t)
  <2>1. UNCHANGED tickets
    BY <1>3 DEF HedgeStep, Evaluate, Hedging, Placing, HedgeRenew, HedgeAnswered, HedgeDone,
       Complete, HedgeChanged, HedgeReprice, HedgeRejected, OpenExposureRow, OpenAction,
       HedgeUnknownAttempt, HedgeUnknown, HedgeUnknownAction, wire
  <2>2. \/ UNCHANGED action
        \/ \E to : action' = Moved(t, to)
        \/ \E to, p : TransitionAction(t, to, p)
        \/ \E p : Reserve(t, p)
    <3>1. CASE Placing(t) \/ Complete(t) \/ HedgeUnknownAction(t)
      BY <3>1 DEF Placing, Complete, HedgeUnknownAction
    <3>2. CASE HedgeRenew(t)
      BY <3>2 DEF HedgeRenew
    <3>3. CASE HedgeReprice(t)
      BY <3>3 DEF HedgeReprice
    <3>4. CASE OpenAction(t)
      BY <3>4 DEF OpenAction
    <3>5. CASE UNCHANGED action
      BY <3>5
    <3>6. QED
      BY <1>3, <3>1, <3>2, <3>3, <3>4, <3>5 DEF HedgeStep, Evaluate, Hedging, HedgeAnswered,
         HedgeDone, HedgeChanged, HedgeRejected, OpenExposureRow, HedgeUnknownAttempt,
         HedgeUnknown
  <2>3. QED
    BY <2>1, <2>2, OthersUntouched
<1>4. CASE MatcherStep(t)
  <2>1. UNCHANGED tickets
    BY <1>4 DEF MatcherStep, HedgeLease, HedgeMatch, HedgeReserve, HedgePrepare, Unlease,
       CloseExposure, CloseAction, wire
  <2>2. \/ UNCHANGED action
        \/ \E to, p : TransitionAction(t, to, p)
        \/ \E p : Reserve(t, p)
    BY <1>4 DEF MatcherStep, HedgeLease, HedgeMatch, HedgeReserve, HedgePrepare, Unlease,
       CloseExposure, CloseAction, rows
  <2>3. QED
    BY <2>1, <2>2, OthersUntouched
<1>5. CASE ReconcileStep(t)
  <2>0. action \in [Actions -> ActionState] /\ Subject(t) \in Actions
    BY InvOf DEF TypeOK
  <2>1. CASE ReconcileJun(t)
    <3>1. UNCHANGED tickets
      BY <2>1 DEF ReconcileJun, CommitJun88Ticket, wire
    <3>2. \/ UNCHANGED action
          \/ \E row : action' = [action EXCEPT ![Subject(t)] = row]
      BY <2>1 DEF ReconcileJun, CommitJun88Ticket, rows
    <3>3. QED
      BY <2>0, <3>1, <3>2 DEF OthersKeep
  <2>2. CASE ReconcileJunOpen(t)
    BY <2>2, OthersUntouched DEF ReconcileJunOpen, wire
  <2>3. CASE ~ReconcileJun(t) /\ ~ReconcileJunOpen(t)
    <3>1. UNCHANGED action /\ UNCHANGED tickets
      BY <1>5, <2>3 DEF ReconcileStep, PickAttempt, SendReconcile, ReconcileUnanswered,
         ReconcileTicket, ReconcileNoTicket, ReconcileHedge, ReconcileComplete, ReconcileRead,
         ReconcileReopen, rows, wire
    <3>2. QED
      BY <3>1, OthersUntouched
  <2>4. QED
    BY <2>1, <2>2, <2>3
<1>6. CASE OperatorStep(t)
  <2>1. UNCHANGED action /\ UNCHANGED tickets
    BY <1>6 DEF OperatorStep, OperatorReview, OperatorReopen, ReopenExposure, OperatorClose,
       OperatorTicket, EvidenceAttempt, EvidenceExposure, OperatorRefused, rows, wire
  <2>2. QED
    BY <2>1, OthersUntouched
<1>7. QED
  BY <1>1, <1>2, <1>3, <1>4, <1>5, <1>6 DEF ThreadStep

(* A step moves one action, or a bookmaker accepts one bet.                *)
LEMMA OneThingHappens ==
  ASSUME SafetyInv, [Next]_vars
  PROVE  \/ /\ UNCHANGED tickets
            /\ \/ \A b \in Actions : action'[b].st = action[b].st
               \/ \E a \in Actions : \A b \in Actions \ {a} : action'[b] = action[b]
         \/ /\ UNCHANGED action
            /\ \E a \in Actions, k \in Keys : tickets' = tickets \cup {TicketAt(a, k)}
<1>0. action \in [Actions -> ActionState]
  BY DEF SafetyInv, IInv, TypeOK
<1>1. CASE \E t \in Threads : ThreadStep(t)
  BY <1>1, ThreadMovesOne, ThreadFacts DEF OthersKeep, SafetyInv, IInv
<1>2. CASE \/ UNCHANGED vars \/ ListPending
           \/ \E a \in Actions : Arrival(a)
           \/ \E t \in Threads : ThreadFails(t) \/ MarkFails(t)
           \/ \E bm \in Bookmakers : CollectorRestarts(bm)
  BY <1>2 DEF vars, ListPending, Arrival, Gate, HedgeList, ReconcileManually, OperatorReads,
     ThreadFails, MarkFails, CollectorRestarts, rows, wire
<1>3. ASSUME NEW a \in Actions, LeaseExpires(a)
      PROVE  UNCHANGED tickets /\ \A b \in Actions : action'[b].st = action[b].st
  BY <1>0, <1>3 DEF LeaseExpires, ActionState, wire
<1>4. CASE BackendCrashes
  BY <1>0, <1>4 DEF BackendCrashes, ActionState, wire
<1>5. ASSUME NEW bm \in Bookmakers, CollectorStep(bm)
      PROVE  /\ UNCHANGED action
             /\ \/ UNCHANGED tickets
                \/ \E a \in Actions, k \in Keys : tickets' = tickets \cup {TicketAt(a, k)}
  <2>1. CASE HandleReconcile(bm) \/ DropExpired(bm)
    BY <2>1 DEF HandleReconcile, DropExpired, rows
  <2>2. CASE HandleCommit(bm)
    <3>1. inbox[bm] # <<>> /\ inbox[bm] \in Seq(Message)
      BY <2>2 DEF HandleCommit, SafetyInv, IInv, TypeOK
    <3>2. Head(inbox[bm]) \in Message
      BY <3>1
    <3>3. Head(inbox[bm]).key[1] \in Actions /\ Head(inbox[bm]).key[2] \in Keys
      BY <3>2 DEF Message
    <3>4. UNCHANGED action
      BY <2>2 DEF HandleCommit, rows
    <3>5. \/ UNCHANGED tickets
          \/ tickets' = tickets \cup {TicketAt(Head(inbox[bm]).key[1], Head(inbox[bm]).key[2])}
      BY <2>2 DEF HandleCommit, TicketAt
    <3>6. QED
      BY <3>3, <3>4, <3>5
  <2>3. QED
    BY <1>5, <2>1, <2>2 DEF CollectorStep
<1>6. QED
  BY <1>1, <1>2, <1>3, <1>4, <1>5 DEF Next, Fault

(* Such a step is one of TwoLegBet, or changes nothing that it tells.      *)
LEMMA StepIsTwoLeg ==
  ASSUME SafetyInv, [Next]_vars, OutcomesAgree, OutcomesAgree'
  PROVE  [TwoLeg!Next]_<<heldBy, verdictOf>>
<1>1. CASE /\ UNCHANGED tickets
           /\ \/ \A b \in Actions : action'[b].st = action[b].st
              \/ \E a \in Actions : \A b \in Actions \ {a} : action'[b] = action[b]
  <2>1. heldBy' = heldBy
    BY <1>1 DEF heldBy, TicketsOf
  <2>2. \A b \in Actions : action'[b].st = action[b].st => verdictOf'[b] = verdictOf[b]
    BY DEF verdictOf
  <2>3. /\ verdictOf = [b \in Actions |-> verdictOf[b]]
        /\ verdictOf' = [b \in Actions |-> verdictOf'[b]]
    BY DEF verdictOf
  <2>4. CASE \A b \in Actions : verdictOf'[b] = verdictOf[b]
    BY <2>1, <2>3, <2>4
  <2>5. CASE \E a \in Actions : /\ verdictOf'[a] # verdictOf[a]
                                /\ \A b \in Actions \ {a} : verdictOf'[b] = verdictOf[b]
    <3>1. PICK a \in Actions : /\ verdictOf'[a] # verdictOf[a]
                               /\ \A b \in Actions \ {a} : verdictOf'[b] = verdictOf[b]
      BY <2>5
    <3>2. verdictOf[a] = "open"
      <4>1. action[a].st \notin TerminalAction
        BY <2>2, <3>1, NextKeepsVerdicts DEF KeepsVerdicts
      <4>2. QED
        BY <4>1 DEF verdictOf, TerminalAction
    <3>3. verdictOf' = [verdictOf EXCEPT ![a] = verdictOf'[a]]
      BY <2>3, <3>1
    <3>4. verdictOf'[a] \in {"aborted", "unhedged", "completed"}
      BY <3>1, <3>2 DEF OutcomesAgree
    <3>5. CASE verdictOf'[a] = "aborted"
      <4>1. heldBy[a] = {}
        BY <2>1, <3>5 DEF OutcomesAgree
      <4>2. TwoLeg!Abort(a)
        BY <2>1, <3>2, <3>3, <3>5, <4>1 DEF TwoLeg!Abort
      <4>3. QED
        BY <4>2 DEF TwoLeg!Next
    <3>6. CASE verdictOf'[a] = "unhedged"
      <4>1. heldBy[a] = {"jun88"}
        BY <2>1, <3>6 DEF OutcomesAgree
      <4>2. TwoLeg!CloseUnhedged(a)
        BY <2>1, <3>2, <3>3, <3>6, <4>1 DEF TwoLeg!CloseUnhedged
      <4>3. QED
        BY <4>2 DEF TwoLeg!Next
    <3>7. CASE verdictOf'[a] = "completed"
      <4>1. heldBy[a] = {"jun88", "8xbet"}
        BY <2>1, <3>7 DEF OutcomesAgree
      <4>2. TwoLeg!Complete(a)
        BY <2>1, <3>2, <3>3, <3>7, <4>1 DEF TwoLeg!Complete
      <4>3. QED
        BY <4>2 DEF TwoLeg!Next
    <3>8. QED
      BY <3>4, <3>5, <3>6, <3>7
  <2>6. QED
    BY <1>1, <2>2, <2>4, <2>5
<1>2. ASSUME UNCHANGED action,
             NEW a \in Actions, NEW k \in Keys, tickets' = tickets \cup {TicketAt(a, k)}
      PROVE  [TwoLeg!Next]_<<heldBy, verdictOf>>
  <2>1. verdictOf' = verdictOf
    BY <1>2 DEF verdictOf
  <2>2. PICK bm \in Bookmakers, n \in 1 .. MaxCommits : TicketAt(a, k) = <<a, bm, n>>
    BY DEF TicketAt, Keys
  <2>3. \A b \in Actions, x \in Bookmakers :
          TicketsOf(b, x)' = IF b = a /\ x = bm THEN TicketsOf(b, x) \cup {n} ELSE TicketsOf(b, x)
    BY <1>2, <2>2 DEF TicketsOf
  <2>4. \A b \in Actions \ {a} : heldBy'[b] = heldBy[b]
    BY <2>3 DEF heldBy
  <2>5. heldBy'[a] = heldBy[a] \cup {bm}
    BY <2>3 DEF heldBy
  <2>6. heldBy' = [heldBy EXCEPT ![a] = heldBy[a] \cup {bm}]
    BY <2>4, <2>5 DEF heldBy
  <2>7. /\ heldBy[a] \in {{}, {"jun88"}, {"jun88", "8xbet"}}
        /\ heldBy'[a] \in {{}, {"jun88"}, {"jun88", "8xbet"}}
        /\ verdictOf[a] \in {"open", "aborted", "unhedged", "completed"}
        /\ verdictOf[a] = "aborted" => heldBy[a] = {} /\ heldBy'[a] = {}
        /\ verdictOf[a] = "unhedged" => heldBy[a] = {"jun88"} /\ heldBy'[a] = {"jun88"}
        /\ verdictOf[a] = "completed" => heldBy[a] = {"jun88", "8xbet"}
    BY <2>1 DEF OutcomesAgree
  <2>8. CASE bm \in heldBy[a]
    <3>1. heldBy'[a] = heldBy[a]
      BY <2>5, <2>8
    <3>2. heldBy' = heldBy
      BY <2>4, <3>1 DEF heldBy
    <3>3. QED
      BY <2>1, <3>2
  <2>9. CASE bm \notin heldBy[a]
    <3>1. verdictOf[a] = "open"
      BY <2>5, <2>7, <2>9 DEF Bookmakers
    <3>2. CASE bm = "jun88"
      <4>1. heldBy[a] = {} /\ heldBy[a] \cup {bm} = {"jun88"}
        BY <2>7, <2>9, <3>2
      <4>2. TwoLeg!BetFirstLeg(a)
        BY <2>1, <2>6, <3>1, <4>1 DEF TwoLeg!BetFirstLeg
      <4>3. QED
        BY <4>2 DEF TwoLeg!Next
    <3>3. CASE bm = "8xbet"
      <4>1. "8xbet" \in heldBy'[a] /\ "8xbet" \notin heldBy[a]
        BY <2>5, <2>9, <3>3
      <4>2. heldBy'[a] = {"jun88", "8xbet"}
        BY <2>7, <4>1
      <4>3. "jun88" \in heldBy[a]
        BY <2>5, <3>3, <4>2
      <4>4. heldBy[a] = {"jun88"} /\ heldBy[a] \cup {bm} = {"jun88", "8xbet"}
        BY <2>7, <3>3, <4>1, <4>3
      <4>5. TwoLeg!BetHedge(a)
        BY <2>1, <2>6, <3>1, <4>4 DEF TwoLeg!BetHedge
      <4>6. QED
        BY <4>5 DEF TwoLeg!Next
    <3>4. QED
      BY <3>2, <3>3 DEF Bookmakers
  <2>10. QED
    BY <2>8, <2>9
<1>3. QED
  BY <1>1, <1>2, OneThingHappens

(* Whatever the interleaving, and however often the program crashes or     *)
(* restarts, an action implements the two-leg promise of TwoLegBet: Jun88  *)
(* first and at most once, 8xbet only against a Jun88 ticket and at most   *)
(* once, and a verdict that agrees with the tickets for good.              *)
THEOREM ActionsAreTwoLegBets ==
  ASSUME ReliableWire
  PROVE  Spec => TwoLegSpec
<1>1. Init => TwoLeg!Init
  <2>. SUFFICES ASSUME Init PROVE TwoLeg!Init
    OBVIOUS
  <2>1. heldBy = [a \in Actions |-> {}]
    BY DEF Init, heldBy, TicketsOf
  <2>2. verdictOf = [a \in Actions |-> "open"]
    BY DEF Init, NoAction, verdictOf
  <2>3. QED
    BY <2>1, <2>2 DEF TwoLeg!Init
<1>2. SafetyInv /\ TicketInv /\ HedgeInv => OutcomesAgree
  BY VerdictsFit
<1>3. SafetyInv /\ OutcomesAgree /\ OutcomesAgree' /\ [Next]_vars
      => [TwoLeg!Next]_<<heldBy, verdictOf>>
  BY StepIsTwoLeg
<1>4. QED
  BY <1>1, <1>2, <1>3, SafetyHolds, TicketsHold, HedgesHold, PTL DEF Spec, TwoLegSpec, TwoLeg!Spec
===============================================================================
