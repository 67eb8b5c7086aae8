-------------------------- MODULE LiveBettingProofs --------------------------
(***************************************************************************)
(* IInv and SafetyInv are inductive invariants of LiveBetting, for any set *)
(* of actions, any set of roles and any bounds, whatever restarts and      *)
(* however commands overtake one another.  TypeOK and PersistenceBarrier   *)
(* follow from the first; VerdictIsFinal, CompletedHasBothTickets,         *)
(* AccountExclusive and ExposureLimit from the two.                        *)
(*                                                                         *)
(* Nearly every action moves one thread and touches the rows of its        *)
(* action.  ThreadMoves proves once what such a move owes IInv; the lemmas *)
(* after it specialise it to the ways the program saves a row.  What is    *)
(* left for an action is that its thread knows enough at its next control  *)
(* point (Fits).  Steps on the wire are treated one by one.                *)
(*                                                                         *)
(* StepKeeps says once what a step of one thread owes SafetyInv.  The      *)
(* other threads of the action lose what they knew of a row when it is     *)
(* written (Outdated), so a step owes the agreement of the rows of its own *)
(* action, what its thread knows at its next control point, and that it    *)
(* does not take the account.                                              *)
(***************************************************************************)
EXTENDS LiveBettingVerdicts, SequenceTheorems, FiniteSetTheorems, TLAPS

-----------------------------------------------------------------------------
(* Control states                                                          *)

(* Points a thread may reach with whatever it knows.                       *)
FreePoints == Points \ (KeyedPoints \cup FirstPoints \cup JunPoints)

(* A thread is a pair of a role and an action, and nobody is NoThread.     *)
LEMMA ThreadFacts ==
  ASSUME NEW t \in Threads
  PROVE  /\ Role(t) \in Roles /\ Subject(t) \in Actions
         /\ t = <<Role(t), Subject(t)>>
         /\ t # NoThread
  BY RolesAssumption DEF Threads, Role, Subject, NoThread

(* Idle and Returned are control states, and no answer is left in them.    *)
LEMMA IdleFacts ==
  ASSUME NEW t \in Threads
  PROVE  /\ Idle \in ThreadState
         /\ Returned(t) \in ThreadState
         /\ Returned(t).pc \in {"idle", "unlease"}
         /\ Returned(t).rsp = "none"
<1>1. MaxCommits \in Nat
  BY BoundsAssumption
<1>2. "idle" \in Points /\ "unlease" \in Points
  BY DEF Points
<1>3. Idle \in ThreadState
  BY <1>1, <1>2 DEF Idle, ThreadState, Links
<1>4. [Idle EXCEPT !.pc = "unlease"] \in ThreadState
  BY <1>2, <1>3 DEF ThreadState
<1>5. QED
  BY <1>3, <1>4 DEF Returned, Idle

(* A thread at a free point without an answer fits, whatever the rows.     *)
LEMMA FreeFits ==
  ASSUME NEW t, NEW r, NEW ex, NEW tk, r.pc \in FreePoints, r.rsp = "none"
  PROVE  Fits(t, r, ex, tk)
  BY DEF Fits, KnowsKey, KnowsRound, KnowsTicket, FreePoints, KeyedPoints, CommitPoints,
         FirstPoints, JunPoints, HedgePoints, EvidencePoints, ReconcilePoints,
         MatcherPoints, TicketPoints, WaitPoints, Results

(* A thread that returned has nothing to know.                             *)
LEMMA ReturnedFits ==
  ASSUME NEW t \in Threads, NEW ex, NEW tk
  PROVE  Fits(t, Returned(t), ex, tk) /\ Fits(t, Idle, ex, tk)
<1>1. "idle" \in FreePoints /\ "unlease" \in FreePoints
  BY DEF FreePoints, Points, KeyedPoints, CommitPoints, FirstPoints, JunPoints,
         HedgePoints, EvidencePoints, ReconcilePoints, TicketPoints
<1>2. Idle.pc = "idle" /\ Idle.rsp = "none"
  BY DEF Idle
<1>3. QED
  BY <1>1, <1>2, IdleFacts, FreeFits

(* What Goto changes.                                                      *)
LEMMA GotoFacts ==
  ASSUME TypeOK, NEW t \in Threads, NEW p \in Points
  PROVE  /\ p # "return" => Goto(t, p) = [thr[t] EXCEPT !.pc = p, !.rsp = "none"]
         /\ Goto(t, "return") = Returned(t)
         /\ p # "return" => Goto(t, p) \in ThreadState
  BY DEF Goto, TypeOK, ThreadState, Results

(* Nor has one that goes to a point without a key.                         *)
LEMMA GotoFree ==
  ASSUME TypeOK, NEW t \in Threads, NEW p \in FreePoints \cup {"return"}, NEW ex, NEW tk
  PROVE  Goto(t, p) \in ThreadState /\ Fits(t, Goto(t, p), ex, tk)
<1>1. CASE p = "return"
  BY <1>1, IdleFacts, ReturnedFits DEF Goto
<1>2. CASE p # "return"
  <2>1. Goto(t, p) \in ThreadState /\ Goto(t, p) = [thr[t] EXCEPT !.pc = p, !.rsp = "none"]
    BY <1>2, GotoFacts DEF FreePoints
  <2>2. Goto(t, p).pc = p /\ Goto(t, p).rsp = "none"
    BY <2>1 DEF TypeOK, ThreadState
  <2>3. QED
    BY <1>2, <2>1, <2>2, FreeFits
<1>3. QED
  BY <1>1, <1>2

-----------------------------------------------------------------------------
(* One thread moves                                                        *)

(* Outdated changes what a thread thinks of its snapshots, never where it  *)
(* is, its key, its round or its answer.                                   *)
LEMMA OutdatedFacts ==
  ASSUME NEW r \in ThreadState, NEW written
  PROVE  /\ Outdated(r, written) \in ThreadState
         /\ Outdated(r, written).pc = r.pc /\ Outdated(r, written).key = r.key
         /\ Outdated(r, written).round = r.round /\ Outdated(r, written).rsp = r.rsp
<1>. DEFINE lag == IF ActionRow \in written /\ r.lag < 2 THEN r.lag + 1 ELSE r.lag
            es == IF ExposureRow \in written THEN TRUE ELSE r.expoStale
            as == IF r.key \in written THEN TRUE ELSE r.attStale
<1>1. lag \in 0 .. 2 /\ es \in BOOLEAN /\ as \in BOOLEAN
  <2>1. r.lag \in 0 .. 2 /\ r.expoStale \in BOOLEAN /\ r.attStale \in BOOLEAN
    BY DEF ThreadState
  <2>2. lag \in 0 .. 2
    BY <2>1
  <2>3. es \in BOOLEAN /\ as \in BOOLEAN
    BY <2>1, Zenon
  <2>4. QED
    BY <2>2, <2>3
<1>2. Outdated(r, written) = [r EXCEPT !.lag = lag, !.expoStale = es, !.attStale = as]
  BY DEF Outdated
<1>. HIDE DEF lag, es, as
<1>3. QED
  BY <1>1, <1>2 DEF ThreadState

(* Advance moves one thread; the others keep their place, key, round and   *)
(* answer.                                                                 *)
LEMMA AdvanceFacts ==
  ASSUME TypeOK, NEW t \in Threads, NEW self \in ThreadState, NEW written,
         Advance(t, self, written)
  PROVE  /\ thr' \in [Threads -> ThreadState]
         /\ thr'[t] = self
         /\ \A u \in Threads : u # t =>
              /\ thr'[u].pc = thr[u].pc /\ thr'[u].key = thr[u].key
              /\ thr'[u].round = thr[u].round /\ thr'[u].rsp = thr[u].rsp
<1>1. thr \in [Threads -> ThreadState]
  BY DEF TypeOK
<1>2. QED
  BY <1>1, OutdatedFacts DEF Advance

(* Forgetting requests changes only whom a command is answered to.         *)
LEMMA ForgottenFacts ==
  ASSUME TypeOK, NEW ts
  PROVE  /\ Forgotten(ts) \in [Bookmakers -> Seq(Message)]
         /\ \A bm \in Bookmakers :
              /\ DOMAIN Forgotten(ts)[bm] = DOMAIN inbox[bm]
              /\ \A i \in DOMAIN inbox[bm] :
                   /\ Forgotten(ts)[bm][i].key = inbox[bm][i].key
                   /\ \/ Forgotten(ts)[bm][i].to = NoThread
                      \/ /\ Forgotten(ts)[bm][i] = inbox[bm][i]
                         /\ inbox[bm][i].to \notin ts
<1>1. ASSUME NEW m \in Message
      PROVE  /\ [m EXCEPT !.to = NoThread] \in Message
             /\ [m EXCEPT !.to = NoThread].kind = m.kind
             /\ [m EXCEPT !.to = NoThread].key = m.key
             /\ [m EXCEPT !.to = NoThread].to = NoThread
  BY DEF Message, NoThread
<1>2. ASSUME NEW bm \in Bookmakers
      PROVE  /\ Forgotten(ts)[bm] \in Seq(Message)
             /\ DOMAIN Forgotten(ts)[bm] = DOMAIN inbox[bm]
             /\ \A i \in DOMAIN inbox[bm] :
                  /\ inbox[bm][i] \in Message
                  /\ Forgotten(ts)[bm][i] =
                      IF inbox[bm][i].to \in ts THEN [inbox[bm][i] EXCEPT !.to = NoThread]
                      ELSE inbox[bm][i]
  <2>1. inbox[bm] \in Seq(Message)
    BY DEF TypeOK
  <2>2. PICK n \in Nat : inbox[bm] \in [1 .. n -> Message]
    BY <2>1, SeqDef
  <2>3. Forgotten(ts)[bm] \in [1 .. n -> Message]
    BY <1>1, <2>2 DEF Forgotten
  <2>4. Forgotten(ts)[bm] \in Seq(Message)
    BY <2>3, SeqDef
  <2>5. DOMAIN Forgotten(ts)[bm] = DOMAIN inbox[bm]
    BY <2>2, <2>3
  <2>6. ASSUME NEW i \in DOMAIN inbox[bm]
        PROVE  /\ inbox[bm][i] \in Message
               /\ Forgotten(ts)[bm][i] =
                    IF inbox[bm][i].to \in ts THEN [inbox[bm][i] EXCEPT !.to = NoThread]
                    ELSE inbox[bm][i]
    BY <2>2 DEF Forgotten
  <2>7. QED
    BY <2>4, <2>5, <2>6
<1>3. Forgotten(ts) = [bm \in Bookmakers |-> Forgotten(ts)[bm]]
  BY DEF Forgotten
<1>4. ASSUME NEW bm \in Bookmakers, NEW i \in DOMAIN inbox[bm]
      PROVE  /\ Forgotten(ts)[bm][i].key = inbox[bm][i].key
             /\ \/ Forgotten(ts)[bm][i].to = NoThread
                \/ /\ Forgotten(ts)[bm][i] = inbox[bm][i]
                   /\ inbox[bm][i].to \notin ts
  <2>1. inbox[bm][i] \in Message
    BY <1>2
  <2>2. CASE inbox[bm][i].to \in ts
    <3>1. Forgotten(ts)[bm][i] = [inbox[bm][i] EXCEPT !.to = NoThread]
      BY <1>2, <2>2
    <3>2. QED
      BY <1>1, <2>1, <3>1
  <2>3. CASE inbox[bm][i].to \notin ts
    BY <1>2, <2>3
  <2>4. QED
    BY <2>2, <2>3
<1>5. Forgotten(ts) \in [Bookmakers -> Seq(Message)]
  BY <1>2, <1>3
<1>6. QED
  BY <1>2, <1>4, <1>5

(* Every element of a queue is a command.                                  *)
LEMMA QueueElements ==
  ASSUME TypeOK, NEW bm \in Bookmakers
  PROVE  \A i \in DOMAIN inbox[bm] : inbox[bm][i] \in Message
<1>1. PICK n \in Nat : inbox[bm] \in [1 .. n -> Message]
  BY SeqDef DEF TypeOK
<1>2. QED
  BY <1>1

(* What a step of thread t on the rows owes the invariant: t fits its new  *)
(* control state; an exposure keeps its Jun88 ticket; an 8xbet commit has  *)
(* an exposure.  A thread that waits takes its request out of the          *)
(* registry, unless it has been answered.                                  *)
LEMMA ThreadMoves ==
  ASSUME IInv, NEW t \in Threads, NEW self \in ThreadState, NEW written,
         Advance(t, self, written), Fits(t, self, expo', tickets),
         action' \in [Actions -> ActionState],
         attempt' \in [Actions -> [Keys -> AttemptState]],
         expo' \in [Actions -> ExposureState],
         faults' \in 0 .. MaxFaults,
         UNCHANGED <<journal, tickets>>,
         \/ inbox' = inbox /\ (thr[t].pc \notin WaitPoints \/ thr[t].rsp # "none")
         \/ inbox' = Forgotten({t}),
         \A a \in Actions :
           /\ expo[a].st # "none" => expo'[a].st # "none"
           /\ expo'[a].st # "none" => <<a, "jun88", expo'[a].jun>> \in tickets
           /\ \A n \in 1 .. MaxCommits :
                attempt'[a][<<"8xbet", n>>].st # "none" => expo'[a].st # "none"
  PROVE  IInv'
<1>. TypeOK /\ ThreadsFit /\ QueuesFit /\ JournalFits /\ RowsFit
  BY DEF IInv
<1>1. /\ thr' \in [Threads -> ThreadState]
      /\ thr'[t] = self
      /\ \A u \in Threads : u # t =>
           /\ thr'[u].pc = thr[u].pc /\ thr'[u].key = thr[u].key
           /\ thr'[u].round = thr[u].round /\ thr'[u].rsp = thr[u].rsp
  BY AdvanceFacts
<1>2. TypeOK'
  BY <1>1, ForgottenFacts DEF TypeOK
<1>3. ThreadsFit'
  <2>. SUFFICES ASSUME NEW u \in Threads
                PROVE  Fits(u, thr'[u], expo', tickets)
    BY DEF ThreadsFit
  <2>1. CASE u = t
    BY <1>1, <2>1
  <2>2. CASE u # t
    <3>1. Fits(u, thr[u], expo, tickets) /\ u[2] \in Actions
      BY ThreadFacts DEF ThreadsFit, Subject
    <3>2. expo[u[2]].st # "none" => expo'[u[2]].st # "none"
      BY <3>1
    <3>3. KnowsKey(u, thr'[u], expo') /\ KnowsRound(thr'[u])
      BY <1>1, <2>2, <3>1, <3>2 DEF Fits, KnowsKey, KnowsRound
    <3>4. KnowsTicket(u, thr'[u], tickets)
      BY <1>1, <2>2, <3>1 DEF Fits, KnowsTicket
    <3>5. QED
      BY <3>3, <3>4 DEF Fits
  <2>3. QED
    BY <2>1, <2>2
<1>4. QueuesFit'
  <2>1. ASSUME NEW bm \in Bookmakers, NEW m \in Message,
               CommandFits(bm, m, thr, expo), m.to # t
        PROVE  CommandFits(bm, m, thr', expo')
    <3>1. m.key[1] \in Actions
      BY DEF Message
    <3>2. m.to \in Threads =>
            /\ thr'[m.to].pc = thr[m.to].pc /\ thr'[m.to].key = thr[m.to].key
            /\ thr'[m.to].rsp = thr[m.to].rsp
      BY <1>1, <2>1
    <3>3. QED
      BY <2>1, <3>1, <3>2 DEF CommandFits
  <2>2. ASSUME NEW bm \in Bookmakers, NEW i \in DOMAIN inbox[bm]
        PROVE  CommandFits(bm, inbox[bm][i], thr, expo) /\ inbox[bm][i] \in Message
    BY QueueElements DEF QueuesFit
  <2>3. CASE inbox' = inbox /\ (thr[t].pc \notin WaitPoints \/ thr[t].rsp # "none")
    <3>1. ASSUME NEW bm \in Bookmakers, NEW i \in DOMAIN inbox[bm]
          PROVE  CommandFits(bm, inbox[bm][i], thr', expo')
      <4>1. inbox[bm][i].to # t
        BY <2>2, <2>3 DEF CommandFits
      <4>2. QED
        BY <2>1, <2>2, <4>1
    <3>2. QED
      BY <2>3, <3>1 DEF QueuesFit
  <2>4. CASE inbox' = Forgotten({t})
    <3>1. ASSUME NEW bm \in Bookmakers
          PROVE  DOMAIN inbox'[bm] = DOMAIN inbox[bm]
      BY <2>4, ForgottenFacts
    <3>2. ASSUME NEW bm \in Bookmakers, NEW i \in DOMAIN inbox[bm]
          PROVE  /\ inbox'[bm][i].key = inbox[bm][i].key
                 /\ \/ inbox'[bm][i].to = NoThread
                    \/ inbox'[bm][i] = inbox[bm][i] /\ inbox[bm][i].to # t
      BY <2>4, ForgottenFacts
    <3>3. ASSUME NEW bm \in Bookmakers, NEW i \in DOMAIN inbox[bm]
          PROVE  CommandFits(bm, inbox'[bm][i], thr', expo')
      <4>1. CASE inbox'[bm][i].to = NoThread
        <5>1. inbox[bm][i].key[1] \in Actions
          BY <2>2 DEF Message
        <5>2. inbox'[bm][i].to \notin Threads
          BY <4>1, ThreadFacts
        <5>3. /\ inbox[bm][i].key[2][1] = bm
              /\ bm = "8xbet" => expo[inbox[bm][i].key[1]].st # "none"
          BY <2>2 DEF CommandFits
        <5>4. inbox'[bm][i].key = inbox[bm][i].key
          BY <3>2
        <5>5. bm = "8xbet" => expo'[inbox[bm][i].key[1]].st # "none"
          BY <5>1, <5>3
        <5>6. QED
          BY <5>2, <5>3, <5>4, <5>5 DEF CommandFits
      <4>2. CASE inbox'[bm][i] = inbox[bm][i] /\ inbox[bm][i].to # t
        BY <2>1, <2>2, <4>2
      <4>3. QED
        BY <3>2, <4>1, <4>2
    <3>4. ASSUME NEW bm \in Bookmakers
          PROVE  AnswersOnce(inbox'[bm])
      BY <3>1, <3>2, ThreadFacts DEF AnswersOnce, QueuesFit
    <3>5. QED
      BY <3>1, <3>3, <3>4 DEF QueuesFit
  <2>5. QED
    BY <2>3, <2>4
<1>5. JournalFits'
  BY DEF JournalFits
<1>6. RowsFit'
  <2>. SUFFICES ASSUME NEW a \in Actions, NEW n \in 1 .. MaxCommits
                PROVE  /\ expo'[a].st # "none" => <<a, "jun88", expo'[a].jun>> \in tickets
                       /\ attempt'[a][<<"8xbet", n>>].st # "none"
                            \/ <<a, "8xbet", n>> \in tickets => expo'[a].st # "none"
    BY DEF RowsFit
  <2>1. QED
    BY DEF RowsFit
<1>7. QED
  BY <1>2, <1>3, <1>4, <1>5, <1>6 DEF IInv

-----------------------------------------------------------------------------
(* What a thread still knows at the next point                             *)

(* What a thread knows stays true when exposures only come.                *)
LEMMA FitsMonotone ==
  ASSUME NEW t \in Threads, NEW r, NEW ex, NEW ex2, NEW tk, Fits(t, r, ex, tk),
         \A a \in Actions : ex[a].st # "none" => ex2[a].st # "none"
  PROVE  Fits(t, r, ex2, tk)
<1>1. t[2] \in Actions
  BY ThreadFacts DEF Subject
<1>2. QED
  BY <1>1 DEF Fits, KnowsKey

(* A thread that does not wait has no answer.                              *)
LEMMA Unanswered ==
  ASSUME IInv, NEW t \in Threads, thr[t].pc \notin WaitPoints
  PROVE  thr[t].rsp = "none"
  BY DEF IInv, ThreadsFit, Fits, KnowsTicket

(* Goto changes the control point and drops the answer.                    *)
LEMMA GotoFields ==
  ASSUME TypeOK, NEW t \in Threads, NEW p \in Points
  PROVE  /\ Goto(t, p) \in ThreadState
         /\ Goto(t, p).pc = p /\ Goto(t, p).key = thr[t].key
         /\ Goto(t, p).round = thr[t].round /\ Goto(t, p).rsp = "none"
<1>1. p # "return"
  BY DEF Points
<1>2. thr[t] \in ThreadState
  BY DEF TypeOK
<1>3. Goto(t, p) \in ThreadState /\ Goto(t, p) = [thr[t] EXCEPT !.pc = p, !.rsp = "none"]
  BY <1>1, GotoFacts
<1>4. QED
  BY <1>2, <1>3 DEF ThreadState

(* A thread with an 8xbet key keeps it through the steps of the hedge.     *)
LEMMA HedgeGoto ==
  ASSUME IInv, NEW t \in Threads, NEW p \in HedgePoints \cup CommitPoints,
         thr[t].pc \in HedgePoints \cup CommitPoints, thr[t].key[1] = "8xbet"
  PROVE  Goto(t, p) \in ThreadState /\ Fits(t, Goto(t, p), expo, tickets)
<1>1. p \in Points /\ p \in KeyedPoints
  BY DEF HedgePoints, CommitPoints, Points, KeyedPoints
<1>2. /\ Goto(t, p) \in ThreadState
      /\ Goto(t, p).pc = p /\ Goto(t, p).key = thr[t].key
      /\ Goto(t, p).round = thr[t].round /\ Goto(t, p).rsp = "none"
  BY <1>1, GotoFields DEF IInv
<1>3. KnowsKey(t, thr[t], expo) /\ KnowsRound(thr[t])
  BY DEF IInv, ThreadsFit, Fits
<1>4. thr[t].pc \in KeyedPoints
  BY DEF KeyedPoints
<1>5. p \notin MatcherPoints \cup FirstPoints \cup JunPoints \cup TicketPoints
  BY DEF MatcherPoints, FirstPoints, JunPoints, TicketPoints, HedgePoints, CommitPoints
<1>6. KnowsKey(t, Goto(t, p), expo)
  BY <1>1, <1>2, <1>3, <1>4, <1>5 DEF KnowsKey
<1>7. KnowsRound(Goto(t, p))
  BY <1>2, <1>3, <1>5 DEF KnowsRound, JunPoints
<1>8. KnowsTicket(t, Goto(t, p), tickets)
  BY <1>2, <1>5 DEF KnowsTicket, Results
<1>9. QED
  BY <1>2, <1>6, <1>7, <1>8 DEF Fits

(* An unresolved commit, of either leg.                                    *)
LEMMA UnresolvedFits ==
  ASSUME IInv, NEW t \in Threads, thr[t].pc \in CommitPoints, NEW b \in BOOLEAN
  PROVE  /\ Goto(t, Unresolved(t, b)) \in ThreadState
         /\ Fits(t, Goto(t, Unresolved(t, b)), expo, tickets)
<1>1. CASE thr[t].key[1] = "jun88"
  <2>1. Unresolved(t, b) = "jun_unknown" /\ "jun_unknown" \in FreePoints
    BY <1>1 DEF Unresolved, KeyOf, FreePoints, Points, KeyedPoints, CommitPoints,
            FirstPoints, JunPoints, HedgePoints, EvidencePoints, ReconcilePoints,
            TicketPoints
  <2>2. QED
    BY <2>1, GotoFree DEF IInv
<1>2. CASE thr[t].key[1] = "8xbet"
  <2>1. CASE Unresolved(t, b) = "hedge_unknown"
    <3>1. "hedge_unknown" \in FreePoints
      BY DEF FreePoints, Points, KeyedPoints, CommitPoints, FirstPoints, JunPoints,
             HedgePoints, EvidencePoints, ReconcilePoints, TicketPoints
    <3>2. QED
      BY <2>1, <3>1, GotoFree DEF IInv
  <2>2. CASE Unresolved(t, b) = "hedge_unknown_attempt"
    <3>1. "hedge_unknown_attempt" \in HedgePoints
      BY DEF HedgePoints
    <3>2. QED
      BY <1>2, <2>2, <3>1, HedgeGoto
  <2>3. QED
    BY <1>2, <2>1, <2>2 DEF Unresolved, KeyOf
<1>3. thr[t].key \in Keys
  BY DEF IInv, ThreadsFit, Fits, KnowsKey, KeyedPoints
<1>4. thr[t].key[1] \in Bookmakers
  BY <1>3 DEF Keys
<1>5. QED
  BY <1>1, <1>2, <1>4 DEF Bookmakers

-----------------------------------------------------------------------------
(* The ways a step saves rows                                              *)

(* Nothing but the action row.                                             *)
LEMMA ActionRowMoves ==
  ASSUME IInv, NEW t \in Threads, NEW self \in ThreadState, NEW written,
         Advance(t, self, written), Fits(t, self, expo, tickets),
         thr[t].pc \notin WaitPoints \/ thr[t].rsp # "none",
         action' \in [Actions -> ActionState],
         UNCHANGED <<attempt, expo, wire, faults>>
  PROVE  IInv'
<1>1. UNCHANGED <<journal, tickets, inbox>> /\ expo' = expo /\ attempt' = attempt
  BY DEF wire
<1>2. /\ attempt' \in [Actions -> [Keys -> AttemptState]]
      /\ expo' \in [Actions -> ExposureState]
      /\ faults' \in 0 .. MaxFaults
  BY DEF IInv, TypeOK
<1>3. \A a \in Actions :
        /\ expo[a].st # "none" => expo'[a].st # "none"
        /\ expo'[a].st # "none" => <<a, "jun88", expo'[a].jun>> \in tickets
        /\ \A n \in 1 .. MaxCommits :
             attempt'[a][<<"8xbet", n>>].st # "none" => expo'[a].st # "none"
  BY <1>1 DEF IInv, RowsFit
<1>4. Fits(t, self, expo', tickets)
  BY <1>1
<1>5. QED
  BY <1>1, <1>2, <1>3, <1>4, ThreadMoves

(* A step that saves the exposure row of its action.                       *)
LEMMA ExposureRowMoves ==
  ASSUME IInv, NEW t \in Threads, NEW self \in ThreadState, NEW written,
         Advance(t, self, written), Fits(t, self, expo, tickets),
         thr[t].pc \notin WaitPoints \/ thr[t].rsp # "none",
         action' \in [Actions -> ActionState],
         expo' \in [Actions -> ExposureState],
         \A a \in Actions : /\ expo'[a].jun = expo[a].jun
                            /\ expo[a].st # "none" <=> expo'[a].st # "none",
         UNCHANGED <<attempt, wire, faults>>
  PROVE  IInv'
<1>1. UNCHANGED <<journal, tickets, inbox>> /\ attempt' = attempt
  BY DEF wire
<1>2. /\ attempt' \in [Actions -> [Keys -> AttemptState]]
      /\ faults' \in 0 .. MaxFaults
  BY DEF IInv, TypeOK
<1>3. \A a \in Actions :
        /\ expo[a].st # "none" => expo'[a].st # "none"
        /\ expo'[a].st # "none" => <<a, "jun88", expo'[a].jun>> \in tickets
        /\ \A n \in 1 .. MaxCommits :
             attempt'[a][<<"8xbet", n>>].st # "none" => expo'[a].st # "none"
  BY <1>1 DEF IInv, RowsFit
<1>4. Fits(t, self, expo', tickets)
  BY FitsMonotone
<1>5. QED
  BY <1>1, <1>2, <1>3, <1>4, ThreadMoves

(* Saved action rows have their type.                                      *)
LEMMA ActionRowTypes ==
  ASSUME TypeOK, NEW t \in Threads, NEW to \in ActionStatus
  PROVE  /\ Moved(t, to) \in [Actions -> ActionState]
         /\ Reserved(Subject(t)) \in [Actions -> ActionState]
<1>1. Subject(t) \in Actions /\ thr[t].link \in Links
  BY ThreadFacts DEF TypeOK, ThreadState
<1>2. action[Subject(t)] \in ActionState /\ action \in [Actions -> ActionState]
  BY <1>1 DEF TypeOK
<1>3. [action[Subject(t)] EXCEPT !.st = to, !.link = thr[t].link] \in ActionState
  BY <1>1, <1>2 DEF ActionState
<1>4. [action[Subject(t)] EXCEPT !.resv = "mine", !.held = TRUE] \in ActionState
  BY <1>2 DEF ActionState
<1>5. QED
  BY <1>1, <1>2, <1>3, <1>4 DEF Moved, Reserved

(* A step that is one transition of the action.                            *)
LEMMA TransitionActionStep ==
  ASSUME IInv, NEW t \in Threads, NEW to \in ActionStatus, NEW p,
         TransitionAction(t, to, p), thr[t].pc \notin WaitPoints,
         Goto(t, p) \in ThreadState, Fits(t, Goto(t, p), expo, tickets),
         UNCHANGED <<attempt, expo, wire, faults>>
  PROVE  IInv'
<1>1. CASE action' = Moved(t, to) /\ Advance(t, Goto(t, p), {ActionRow})
  <2>1. action' \in [Actions -> ActionState]
    BY <1>1, ActionRowTypes DEF IInv
  <2>2. QED
    BY <1>1, <2>1, ActionRowMoves
<1>2. CASE UNCHANGED action /\ Advance(t, Returned(t), {})
  <2>1. action' \in [Actions -> ActionState]
    BY <1>2 DEF IInv, TypeOK
  <2>2. QED
    BY <1>2, <2>1, IdleFacts, ReturnedFits, ActionRowMoves
<1>3. QED
  BY <1>1, <1>2 DEF TransitionAction

(* A step that takes the reservation.                                      *)
LEMMA ReserveStep ==
  ASSUME IInv, NEW t \in Threads, NEW p, Reserve(t, p), thr[t].pc \notin WaitPoints,
         Goto(t, p) \in ThreadState, Fits(t, Goto(t, p), expo, tickets),
         UNCHANGED <<attempt, expo, wire, faults>>
  PROVE  IInv'
<1>1. action' \in [Actions -> ActionState]
  BY ActionRowTypes DEF Reserve, IInv, ActionStatus, LiveAction
<1>2. QED
  BY <1>1, ActionRowMoves DEF Reserve

(* A step that is one transition of the exposure.                          *)
LEMMA TransitionExposureStep ==
  ASSUME IInv, NEW t \in Threads, NEW to, NEW p,
         TransitionExposure(t, to, p), thr[t].pc \notin WaitPoints,
         Goto(t, p) \in ThreadState, Fits(t, Goto(t, p), expo, tickets),
         UNCHANGED <<action, attempt, wire, faults>>
  PROVE  IInv'
<1>0. action' \in [Actions -> ActionState] /\ UNCHANGED attempt
  BY DEF IInv, TypeOK
<1>1. CASE /\ CanMoveExposure(t, to)
           /\ expo' = [expo EXCEPT ![Subject(t)].st = to]
           /\ Advance(t, Goto(t, p), {ExposureRow})
  <2>1. /\ Subject(t) \in Actions /\ expo[Subject(t)].st # "none"
        /\ to # "none" /\ to \in ExposureStatus
    BY <1>1, ThreadFacts DEF CanMoveExposure, ExposureMoves, ExposureNext, ExposureStatus
  <2>2. expo' \in [Actions -> ExposureState]
    BY <1>1, <2>1 DEF IInv, TypeOK, ExposureState
  <2>3. \A a \in Actions : /\ expo'[a].jun = expo[a].jun
                           /\ expo[a].st # "none" <=> expo'[a].st # "none"
    BY <1>1, <2>1 DEF IInv, TypeOK, ExposureState
  <2>4. QED
    BY <1>0, <1>1, <2>2, <2>3, ExposureRowMoves
<1>2. CASE UNCHANGED expo /\ Advance(t, Returned(t), {})
  BY <1>0, <1>2, IdleFacts, ReturnedFits, ActionRowMoves
<1>3. QED
  BY <1>1, <1>2 DEF TransitionExposure

(* SaveExposure and the other saves that leave the exposure's status.      *)
LEMMA SaveExposureStep ==
  ASSUME IInv, NEW t \in Threads, NEW p, SaveExposure(t, p), thr[t].pc \notin WaitPoints,
         Goto(t, p) \in ThreadState, Fits(t, Goto(t, p), expo, tickets),
         UNCHANGED <<action, attempt, wire, faults>>
  PROVE  IInv'
<1>1. action' \in [Actions -> ActionState] /\ UNCHANGED <<attempt, expo>>
  BY DEF IInv, TypeOK, SaveExposure
<1>2. CASE thr[t].expoStale
  BY <1>1, <1>2, IdleFacts, ReturnedFits, ActionRowMoves DEF SaveExposure
<1>3. CASE ~thr[t].expoStale
  BY <1>1, <1>3, ActionRowMoves DEF SaveExposure
<1>4. QED
  BY <1>2, <1>3

(* The attempt that the thread's key names.                                *)
LEMMA AttemptRowMoves ==
  ASSUME IInv, NEW t \in Threads, NEW self \in ThreadState, NEW written,
         Advance(t, self, written), Fits(t, self, expo, tickets),
         thr[t].pc \in KeyedPoints, NEW row \in AttemptState,
         \/ UNCHANGED attempt
         \/ attempt' = [attempt EXCEPT ![Subject(t)][KeyOf(t)] = row],
         \/ inbox' = inbox /\ (thr[t].pc \notin WaitPoints \/ thr[t].rsp # "none")
         \/ inbox' = Forgotten({t}),
         UNCHANGED <<action, expo, journal, tickets, faults>>
  PROVE  IInv'
<1>1. /\ Subject(t) \in Actions /\ Subject(t) = t[2]
      /\ KeyOf(t) \in Keys
      /\ KeyOf(t)[1] = "8xbet" => expo[Subject(t)].st # "none"
  BY ThreadFacts DEF IInv, ThreadsFit, Fits, KnowsKey, KeyOf, Subject
<1>2. /\ action' \in [Actions -> ActionState]
      /\ expo' \in [Actions -> ExposureState]
      /\ faults' \in 0 .. MaxFaults
  BY DEF IInv, TypeOK
<1>3. /\ attempt' \in [Actions -> [Keys -> AttemptState]]
      /\ \A a \in Actions, k \in Keys :
           attempt'[a][k] = attempt[a][k] \/ (a = Subject(t) /\ k = KeyOf(t))
  <2>1. CASE UNCHANGED attempt
    BY <2>1 DEF IInv, TypeOK
  <2>2. CASE attempt' = [attempt EXCEPT ![Subject(t)][KeyOf(t)] = row]
    BY <1>1, <2>2 DEF IInv, TypeOK
  <2>3. QED
    BY <2>1, <2>2
<1>4. \A n \in 1 .. MaxCommits : <<"8xbet", n>> \in Keys
  BY DEF Keys, Bookmakers
<1>5. \A a \in Actions :
        /\ expo[a].st # "none" => expo'[a].st # "none"
        /\ expo'[a].st # "none" => <<a, "jun88", expo'[a].jun>> \in tickets
        /\ \A n \in 1 .. MaxCommits :
             attempt'[a][<<"8xbet", n>>].st # "none" => expo'[a].st # "none"
  <2>. TAKE a \in Actions
  <2>1. ASSUME NEW n \in 1 .. MaxCommits, attempt'[a][<<"8xbet", n>>].st # "none"
        PROVE  expo[a].st # "none"
    <3>1. CASE a = Subject(t) /\ <<"8xbet", n>> = KeyOf(t)
      BY <1>1, <3>1
    <3>2. CASE attempt'[a][<<"8xbet", n>>] = attempt[a][<<"8xbet", n>>]
      BY <2>1, <3>2 DEF IInv, RowsFit
    <3>3. QED
      BY <1>3, <1>4, <3>1, <3>2
  <2>2. QED
    BY <2>1 DEF IInv, RowsFit
<1>6. Fits(t, self, expo', tickets)
  OBVIOUS
<1>7. QED
  BY <1>2, <1>3, <1>5, <1>6, ThreadMoves

(* A step that saves the attempt the thread works on, whether or not it    *)
(* drops a queued command with it.                                         *)
LEMMA SaveAttemptStep ==
  ASSUME IInv, NEW t \in Threads, NEW st \in AttemptStatus, NEW res \in Results \cup {"none"},
         NEW p, NEW q, SaveAttempt(t, st, res, p, q), thr[t].pc \in KeyedPoints,
         Goto(t, p) \in ThreadState, Fits(t, Goto(t, p), expo, tickets),
         Goto(t, q) \in ThreadState, Fits(t, Goto(t, q), expo, tickets),
         \/ inbox' = inbox /\ (thr[t].pc \notin WaitPoints \/ thr[t].rsp # "none")
         \/ inbox' = Forgotten({t}),
         UNCHANGED <<action, expo, journal, tickets, faults>>
  PROVE  IInv'
<1>1. [st |-> st, res |-> res] \in AttemptState
  BY DEF AttemptState
<1>2. PICK self \in {Goto(t, p), Goto(t, q)}, w \in {{}, {KeyOf(t)}} : Advance(t, self, w)
  BY DEF SaveAttempt
<1>3. self \in ThreadState /\ Fits(t, self, expo, tickets)
  BY <1>2
<1>4. \/ UNCHANGED attempt
      \/ attempt' = [attempt EXCEPT ![Subject(t)][KeyOf(t)] = [st |-> st, res |-> res]]
  BY DEF SaveAttempt
<1>5. QED
  BY <1>1, <1>2, <1>3, <1>4, AttemptRowMoves

(* The same lemmas for steps to a free point.                              *)
LEMMA FreePointList ==
  {"dry_run", "release", "abort", "jun_unknown", "open", "open_action", "complete",
   "hedge_unknown", "hedge_unknown_action", "close", "close_action", "unlease", "listed",
   "rec_jun_open", "rec_read", "rec_reopen", "resolve", "reopen", "idle"} \subseteq FreePoints
  BY DEF FreePoints, Points, KeyedPoints, CommitPoints, FirstPoints, JunPoints,
         HedgePoints, EvidencePoints, ReconcilePoints, TicketPoints

(* A transition of the action to a point without a key.                    *)
LEMMA ActionToFree ==
  ASSUME IInv, NEW t \in Threads, NEW to \in ActionStatus,
         NEW p \in FreePoints \cup {"return"},
         TransitionAction(t, to, p), thr[t].pc \notin WaitPoints,
         UNCHANGED <<attempt, expo, wire, faults>>
  PROVE  IInv'
  BY GotoFree, TransitionActionStep DEF IInv

(* A transition of the exposure to a point without a key.                  *)
LEMMA ExposureToFree ==
  ASSUME IInv, NEW t \in Threads, NEW to, NEW p \in FreePoints \cup {"return"},
         TransitionExposure(t, to, p), thr[t].pc \notin WaitPoints,
         UNCHANGED <<action, attempt, wire, faults>>
  PROVE  IInv'
  BY GotoFree, TransitionExposureStep DEF IInv

(* No row is written: the thread goes to self.                             *)
LEMMA ThreadOnly ==
  ASSUME IInv, NEW t \in Threads, NEW self \in ThreadState, NEW written,
         Advance(t, self, written), Fits(t, self, expo, tickets),
         thr[t].pc \notin WaitPoints \/ thr[t].rsp # "none",
         UNCHANGED <<rows, wire, faults>>
  PROVE  IInv'
<1>1. action' \in [Actions -> ActionState] /\ UNCHANGED <<attempt, expo, wire, faults>>
  BY DEF IInv, TypeOK, rows
<1>2. QED
  BY <1>1, ActionRowMoves

(* IInv of one thread.                                                     *)
LEMMA Knows ==
  ASSUME IInv, NEW t \in Threads
  PROVE  /\ thr[t] \in ThreadState /\ thr[t].round \in 0 .. MaxCommits
         /\ Fits(t, thr[t], expo, tickets)
         /\ KnowsKey(t, thr[t], expo) /\ KnowsRound(thr[t])
         /\ KnowsTicket(t, thr[t], tickets)
<1>1. thr[t] \in ThreadState
  BY DEF IInv, TypeOK
<1>2. QED
  BY <1>1 DEF IInv, ThreadsFit, Fits, ThreadState

(* Before the first commit a thread knows its round only.                  *)
LEMMA RoundFits ==
  ASSUME NEW t, NEW r, NEW ex, NEW tk, r.rsp = "none",
         \/ r.pc \in FirstPoints \ MatcherPoints /\ r.round = 0
         \/ r.pc \in {"jun_start", "jun_renew"} /\ r.round <= MaxReprices
         \/ r.pc \in {"jun_changed", "jun_reallocate"} /\ r.round < MaxReprices,
         r.round \in Nat
  PROVE  Fits(t, r, ex, tk)
<1>1. MaxReprices \in Nat
  BY BoundsAssumption
<1>2. /\ r.pc \notin KeyedPoints \cup MatcherPoints
      /\ r.pc \in FirstPoints => r.round = 0
      /\ r.pc \in JunPoints => r.round <= MaxReprices
      /\ r.pc \in {"jun_changed", "jun_reallocate"} => r.round < MaxReprices
  BY <1>1 DEF KeyedPoints, CommitPoints, FirstPoints, JunPoints, HedgePoints,
              EvidencePoints, ReconcilePoints, TicketPoints, MatcherPoints
<1>3. KnowsKey(t, r, ex)
  BY <1>2 DEF KnowsKey, KeyedPoints
<1>4. KnowsRound(r)
  BY <1>2 DEF KnowsRound, KeyedPoints
<1>5. KnowsTicket(t, r, tk)
  BY <1>2 DEF KnowsTicket, KeyedPoints, Results
<1>6. QED
  BY <1>3, <1>4, <1>5 DEF Fits

(* The points at which the round is bounded.                               *)
LEMMA RoundGoto ==
  ASSUME IInv, NEW t \in Threads, NEW p,
         \/ p \in FirstPoints \ MatcherPoints /\ thr[t].round = 0
         \/ p \in {"jun_start", "jun_renew"} /\ thr[t].round <= MaxReprices
         \/ p \in {"jun_changed", "jun_reallocate"} /\ thr[t].round < MaxReprices
  PROVE  Goto(t, p) \in ThreadState /\ Fits(t, Goto(t, p), expo, tickets)
<1>1. p \in Points
  BY DEF FirstPoints, Points
<1>2. MaxCommits \in Nat
  BY BoundsAssumption
<1>3. thr[t].round \in Nat
  BY <1>2, Knows
<1>4. /\ Goto(t, p) \in ThreadState
      /\ Goto(t, p).pc = p /\ Goto(t, p).round = thr[t].round /\ Goto(t, p).rsp = "none"
  BY <1>1, GotoFields DEF IInv
<1>5. QED
  BY <1>3, <1>4, RoundFits

(* Fits reads no snapshot.                                                 *)
LEMMA FitsFields ==
  ASSUME NEW t, NEW r, NEW r2, NEW ex, NEW tk, Fits(t, r, ex, tk),
         r2.pc = r.pc, r2.key = r.key, r2.round = r.round, r2.rsp = r.rsp
  PROVE  Fits(t, r2, ex, tk)
  BY DEF Fits, KnowsKey, KnowsRound, KnowsTicket

(* CommitJun88Ticket opens an exposure only for a ticket the thread knows. *)
LEMMA CommitJun88TicketStep ==
  ASSUME IInv, NEW t \in Threads, NEW self \in ThreadState, CommitJun88Ticket(t, self),
         thr[t].pc \in TicketPoints, UNCHANGED <<wire, faults>>,
         \A ex : ex[Subject(t)].st # "none" => Fits(t, self, ex, tickets)
  PROVE  IInv'
<1>. DEFINE a == Subject(t)
            k == KeyOf(t)
<1>. TypeOK
  BY DEF IInv
<1>1. /\ a \in Actions /\ k \in Keys /\ k[1] = "jun88" /\ k[2] \in 1 .. MaxCommits
      /\ <<a, "jun88", k[2]>> \in tickets
      /\ thr[t].pc \notin WaitPoints
  <2>1. KnowsKey(t, thr[t], expo) /\ KnowsTicket(t, thr[t], tickets)
    BY Knows
  <2>2. thr[t].pc \in KeyedPoints /\ thr[t].pc \notin WaitPoints
    BY DEF TicketPoints, KeyedPoints, WaitPoints
  <2>3. a \in Actions /\ a = t[2] /\ k = thr[t].key
    BY ThreadFacts DEF Subject, KeyOf
  <2>4. k \in Keys /\ k[1] = "jun88" /\ <<a, k[1], k[2]>> \in tickets
    BY <2>1, <2>2, <2>3 DEF KnowsKey, KnowsTicket
  <2>5. QED
    BY <2>2, <2>3, <2>4 DEF Keys
<1>2. \A l \in Links, g \in 0 .. 2 :
        /\ [self EXCEPT !.link = l] \in ThreadState
        /\ [self EXCEPT !.link = l, !.lag = g] \in ThreadState
        /\ \A ex : ex[a].st # "none" =>
             /\ Fits(t, [self EXCEPT !.link = l], ex, tickets)
             /\ Fits(t, [self EXCEPT !.link = l, !.lag = g], ex, tickets)
  <2>. TAKE l \in Links, g \in 0 .. 2
  <2>. DEFINE r1 == [self EXCEPT !.link = l]
              r2 == [self EXCEPT !.link = l, !.lag = g]
  <2>1. /\ r1 \in ThreadState /\ r2 \in ThreadState
        /\ r1.pc = self.pc /\ r1.key = self.key /\ r1.round = self.round /\ r1.rsp = self.rsp
        /\ r2.pc = self.pc /\ r2.key = self.key /\ r2.round = self.round /\ r2.rsp = self.rsp
    BY DEF ThreadState
  <2>. HIDE DEF r1, r2
  <2>2. ASSUME NEW ex, ex[a].st # "none"
        PROVE  Fits(t, r1, ex, tickets) /\ Fits(t, r2, ex, tickets)
    <3>1. Fits(t, self, ex, tickets)
      BY <2>2
    <3>2. QED
      BY <2>1, <3>1, FitsFields
  <2>3. QED
    BY <2>1, <2>2 DEF r1, r2
<1>3. CASE /\ expo[a].st = "none"
           /\ action' = [action EXCEPT ![a] = [@ EXCEPT !.st = "jun88_ticket_received",
                                                       !.link = "own"]]
           /\ attempt' = [attempt EXCEPT ![a][k] =
                            [st |-> "response_received", res |-> "ticket_accepted"]]
           /\ expo' = [expo EXCEPT ![a] = [st |-> "exposure_open", leased |-> FALSE,
                                           jun |-> k[2], hedge |-> 0]]
           /\ Advance(t, [self EXCEPT !.link = "own"], {ActionRow, k})
  <2>1. action' \in [Actions -> ActionState]
    <3>1. action[a] \in ActionState
      BY <1>1 DEF TypeOK
    <3>2. [action[a] EXCEPT !.st = "jun88_ticket_received", !.link = "own"] \in ActionState
      BY <3>1 DEF ActionState, ActionStatus, LiveAction, Links
    <3>3. QED
      BY <1>1, <1>3, <3>2 DEF TypeOK
  <2>2. /\ attempt' \in [Actions -> [Keys -> AttemptState]]
        /\ \A b \in Actions, j \in Keys :
             attempt'[b][j] = attempt[b][j] \/ (b = a /\ j = k)
    BY <1>1, <1>3 DEF TypeOK, AttemptState, AttemptStatus, Results
  <2>3. /\ expo' \in [Actions -> ExposureState]
        /\ expo'[a].st # "none" /\ expo'[a].jun = k[2]
        /\ \A b \in Actions \ {a} : expo'[b] = expo[b]
    <3>1. MaxCommits \in Nat
      BY BoundsAssumption
    <3>2. [st |-> "exposure_open", leased |-> FALSE, jun |-> k[2], hedge |-> 0]
            \in ExposureState
      BY <1>1, <3>1 DEF ExposureState, ExposureStatus
    <3>3. QED
      BY <1>1, <1>3, <3>2 DEF TypeOK
  <2>4. \A b \in Actions :
          /\ expo[b].st # "none" => expo'[b].st # "none"
          /\ expo'[b].st # "none" => <<b, "jun88", expo'[b].jun>> \in tickets
          /\ \A n \in 1 .. MaxCommits :
               attempt'[b][<<"8xbet", n>>].st # "none" => expo'[b].st # "none"
    <3>. TAKE b \in Actions
    <3>1. CASE b = a
      BY <1>1, <2>3, <3>1
    <3>2. CASE b # a
      <4>1. \A n \in 1 .. MaxCommits :
              attempt'[b][<<"8xbet", n>>] = attempt[b][<<"8xbet", n>>]
        BY <2>2, <3>2 DEF Keys, Bookmakers
      <4>2. QED
        BY <2>3, <3>2, <4>1 DEF IInv, RowsFit
    <3>3. QED
      BY <3>1, <3>2
  <2>5. [self EXCEPT !.link = "own"] \in ThreadState
        /\ Fits(t, [self EXCEPT !.link = "own"], expo', tickets)
    BY <1>2, <2>3 DEF Links
  <2>6. faults' \in 0 .. MaxFaults /\ UNCHANGED <<journal, tickets>> /\ inbox' = inbox
    BY DEF TypeOK, wire
  <2>7. QED
    BY <1>1, <1>3, <2>1, <2>2, <2>3, <2>4, <2>5, <2>6, ThreadMoves
<1>4. CASE /\ TicketKnown(t)
           /\ Advance(t, [self EXCEPT !.link = "lost", !.lag = IF @ > 0 THEN @ - 1 ELSE 0], {})
           /\ UNCHANGED rows
  <2>1. (IF self.lag > 0 THEN self.lag - 1 ELSE 0) \in 0 .. 2 /\ "lost" \in Links
    BY DEF ThreadState, Links
  <2>2. expo[a].st # "none"
    BY <1>4 DEF TicketKnown
  <2>3. QED
    BY <1>1, <1>2, <1>4, <2>1, <2>2, ThreadOnly
<1>5. CASE Advance(t, Returned(t), {}) /\ UNCHANGED rows
  BY <1>1, <1>5, IdleFacts, ReturnedFits, ThreadOnly
<1>6. QED
  BY <1>3, <1>4, <1>5 DEF CommitJun88Ticket

-----------------------------------------------------------------------------
(* The executor                                                            *)

(* The executor keeps the invariant.                                       *)
LEMMA ExecutorKeeps ==
  ASSUME IInv, NEW t \in Threads, ExecutorStep(t)
  PROVE  IInv'
<1>. TypeOK
  BY DEF IInv
<1>a. /\ thr[t] \in ThreadState /\ thr[t].round \in 0 .. MaxCommits
      /\ KnowsKey(t, thr[t], expo) /\ KnowsRound(thr[t])
      /\ KnowsTicket(t, thr[t], tickets)
  BY Knows
<1>b. /\ MaxReprices \in Nat /\ MaxCommits \in Nat /\ MaxHedgeRounds \in Nat
      /\ MaxReprices < MaxCommits /\ MaxHedgeRounds < MaxCommits
  BY BoundsAssumption
<1>c. Subject(t) \in Actions /\ Subject(t) = t[2]
  BY ThreadFacts DEF Subject
<1>d. {"ready", "aborted_no_exposure", "dry_run_completed", "placing_jun88",
       "awaiting_odds_confirmation", "submission_unknown"} \subseteq ActionStatus
  BY DEF ActionStatus, LiveAction, TerminalAction
<1>1. CASE CreateAction(t)
  <2>1. thr[t].pc = "create" /\ thr[t].round = 0 /\ thr[t].pc \notin WaitPoints
    BY <1>1, <1>a DEF CreateAction, At, KnowsRound, FirstPoints, WaitPoints
  <2>2. action' \in [Actions -> ActionState]
    <3>1. [NoAction EXCEPT !.st = "selecting"] \in ActionState
      BY DEF NoAction, ActionState, ActionStatus, LiveAction, Links
    <3>2. QED
      BY <1>1, <1>c, <3>1 DEF CreateAction, TypeOK
  <2>3. "reserve" \in FirstPoints \ MatcherPoints
    BY DEF FirstPoints, MatcherPoints
  <2>4. QED
    BY <1>1, <2>1, <2>2, <2>3, RoundGoto, ActionRowMoves DEF CreateAction
<1>2. CASE ReserveAccount(t)
  <2>1. thr[t].pc = "reserve" /\ thr[t].round = 0 /\ thr[t].pc \notin WaitPoints
    BY <1>2, <1>a DEF ReserveAccount, At, KnowsRound, FirstPoints, WaitPoints
  <2>2. CASE Reserve(t, "prepare")
    <3>1. "prepare" \in FirstPoints \ MatcherPoints
      BY DEF FirstPoints, MatcherPoints
    <3>2. QED
      BY <1>2, <2>1, <2>2, <3>1, RoundGoto, ReserveStep DEF ReserveAccount
  <2>3. CASE TransitionAction(t, "aborted_no_exposure", "release")
    BY <1>2, <1>d, <2>1, <2>3, FreePointList, ActionToFree DEF ReserveAccount
  <2>4. QED
    BY <1>2, <2>2, <2>3 DEF ReserveAccount
<1>3. CASE PrepareBoth(t)
  <2>1. thr[t].pc = "prepare" /\ thr[t].round = 0 /\ thr[t].pc \notin WaitPoints
    BY <1>3, <1>a DEF PrepareBoth, At, KnowsRound, FirstPoints, WaitPoints
  <2>2. CASE TransitionAction(t, "ready", "jun_start")
    BY <1>3, <1>b, <1>d, <2>1, <2>2, RoundGoto, TransitionActionStep DEF PrepareBoth
  <2>3. CASE TransitionAction(t, "ready", "dry_run")
    BY <1>3, <1>d, <2>1, <2>3, FreePointList, ActionToFree DEF PrepareBoth
  <2>4. CASE TransitionAction(t, "aborted_no_exposure", "release")
    BY <1>3, <1>d, <2>1, <2>4, FreePointList, ActionToFree DEF PrepareBoth
  <2>5. QED
    BY <1>3, <2>2, <2>3, <2>4 DEF PrepareBoth
<1>4. CASE DryRun(t)
  BY <1>4, <1>d, FreePointList, ActionToFree DEF DryRun, At, WaitPoints
<1>5. CASE JunStart(t)
  <2>1. thr[t].pc = "jun_start" /\ thr[t].round <= MaxReprices /\ thr[t].pc \notin WaitPoints
    BY <1>5, <1>a DEF JunStart, At, KnowsRound, JunPoints, WaitPoints
  <2>2. QED
    BY <1>5, <1>d, <2>1, RoundGoto, TransitionActionStep DEF JunStart
<1>6. CASE JunRenew(t)
  <2>1. thr[t].pc = "jun_renew" /\ thr[t].round <= MaxReprices /\ thr[t].pc \notin WaitPoints
    BY <1>6, <1>a DEF JunRenew, At, KnowsRound, JunPoints, WaitPoints
  <2>2. CASE TransitionAction(t, "aborted_no_exposure", "release")
    BY <1>6, <1>d, <2>1, <2>2, FreePointList, ActionToFree DEF JunRenew
  <2>3. ASSUME action' = Reserved(Subject(t)),
               Advance(t, [thr[t] EXCEPT !.pc = "new",
                                         !.key = <<"jun88", thr[t].round + 1>>], {ActionRow})
        PROVE  IInv'
    <3>. DEFINE self == [thr[t] EXCEPT !.pc = "new", !.key = <<"jun88", thr[t].round + 1>>]
    <3>1. <<"jun88", thr[t].round + 1>> \in Keys
      BY <1>a, <1>b, <2>1 DEF Keys, Bookmakers
    <3>2. "new" \in Points
      BY DEF Points
    <3>3. /\ self \in ThreadState /\ self.pc = "new" /\ self.key = <<"jun88", thr[t].round + 1>>
          /\ self.round = thr[t].round /\ self.rsp = thr[t].rsp
      BY <1>a, <3>1, <3>2 DEF ThreadState
    <3>4. self.rsp = "none"
      BY <2>1, <3>3, Unanswered
    <3>. HIDE DEF self
    <3>5. KnowsKey(t, self, expo)
      BY <3>1, <3>3 DEF KnowsKey, HedgePoints, EvidencePoints, MatcherPoints
    <3>6. KnowsRound(self)
      BY <2>1, <3>3 DEF KnowsRound, FirstPoints, JunPoints
    <3>7. KnowsTicket(t, self, tickets)
      BY <3>3, <3>4 DEF KnowsTicket, TicketPoints
    <3>8. action' \in [Actions -> ActionState]
      BY <1>d, <2>3, ActionRowTypes
    <3>9. Advance(t, self, {ActionRow})
      BY <2>3 DEF self
    <3>10. QED
      BY <1>6, <2>1, <3>3, <3>5, <3>6, <3>7, <3>8, <3>9, ActionRowMoves DEF JunRenew, Fits
  <2>4. QED
    BY <1>6, <2>2, <2>3 DEF JunRenew
<1>7. CASE JunAccepted(t)
  <2>1. /\ thr[t].pc = "wait" /\ thr[t].key[1] = "jun88" /\ thr[t].rsp = "ticket_accepted"
        /\ thr[t].pc \in KeyedPoints
    BY <1>7 DEF JunAccepted, At, KeyOf, KeyedPoints, CommitPoints
  <2>2. CASE Advance(t, Goto(t, "jun_ticket"), {}) /\ UNCHANGED attempt
    <3>. DEFINE self == Goto(t, "jun_ticket")
    <3>1. /\ self \in ThreadState /\ self.pc = "jun_ticket" /\ self.key = thr[t].key
          /\ self.rsp = "none"
      BY GotoFields DEF Points
    <3>. HIDE DEF self
    <3>2. KnowsKey(t, self, expo)
      BY <1>a, <2>1, <3>1 DEF KnowsKey, HedgePoints, EvidencePoints, MatcherPoints
    <3>3. KnowsRound(self)
      BY <3>1 DEF KnowsRound, FirstPoints, JunPoints, CommitPoints, HedgePoints
    <3>4. KnowsTicket(t, self, tickets)
      BY <1>a, <2>1, <3>1 DEF KnowsTicket
    <3>5. Advance(t, self, {})
      BY <2>2 DEF self
    <3>6. QED
      BY <1>7, <2>1, <2>2, <3>1, <3>2, <3>3, <3>4, <3>5, ThreadOnly DEF JunAccepted, Fits, rows
  <2>3. CASE SaveAttempt(t, "awaiting_reconcile", "submission_unknown",
                         "jun_unknown", "jun_unknown")
    BY <1>7, <2>1, <2>3, FreePointList, GotoFree, SaveAttemptStep
       DEF JunAccepted, AttemptStatus, Results, wire
  <2>4. QED
    BY <1>7, <2>2, <2>3 DEF JunAccepted
<1>8. CASE JunOddsChanged(t)
  <2>1. /\ thr[t].pc = "wait" /\ thr[t].key[1] = "jun88" /\ thr[t].rsp = "odds_changed"
        /\ thr[t].pc \in KeyedPoints
    BY <1>8 DEF JunOddsChanged, At, KeyOf, KeyedPoints, CommitPoints
  <2>2. PICK p \in {"jun_unknown", "abort", "jun_changed"} :
          /\ SaveAttempt(t, "response_received", "odds_changed", p, "jun_unknown")
          /\ p = "jun_changed" => thr[t].round < MaxReprices
    BY <1>8, <1>a, <1>b DEF JunOddsChanged
  <2>3. Goto(t, p) \in ThreadState /\ Fits(t, Goto(t, p), expo, tickets)
    <3>1. CASE p = "jun_changed"
      BY <2>2, <3>1, RoundGoto
    <3>2. CASE p \in {"jun_unknown", "abort"}
      BY <3>2, FreePointList, GotoFree
    <3>3. QED
      BY <3>1, <3>2
  <2>4. UNCHANGED <<action, expo, journal, tickets, faults, inbox>>
    BY <1>8 DEF JunOddsChanged, wire
  <2>5. "response_received" \in AttemptStatus /\ "odds_changed" \in Results
    BY DEF AttemptStatus, Results
  <2>6. /\ Goto(t, "jun_unknown") \in ThreadState
        /\ Fits(t, Goto(t, "jun_unknown"), expo, tickets)
    BY FreePointList, GotoFree
  <2>7. QED
    BY <2>1, <2>2, <2>3, <2>4, <2>5, <2>6, SaveAttemptStep
<1>9. CASE JunRejected(t)
  <2>1. thr[t].pc = "wait" /\ thr[t].rsp = "rejected" /\ thr[t].pc \in KeyedPoints
    BY <1>9 DEF JunRejected, At, KeyedPoints, CommitPoints
  <2>2. /\ SaveAttempt(t, "response_received", "rejected", "abort", "jun_unknown")
        /\ UNCHANGED <<action, expo, journal, tickets, faults, inbox>>
    BY <1>9 DEF JunRejected, wire
  <2>3. "response_received" \in AttemptStatus /\ "rejected" \in Results
    BY DEF AttemptStatus, Results
  <2>4. /\ Goto(t, "abort") \in ThreadState /\ Fits(t, Goto(t, "abort"), expo, tickets)
        /\ Goto(t, "jun_unknown") \in ThreadState
        /\ Fits(t, Goto(t, "jun_unknown"), expo, tickets)
    BY FreePointList, GotoFree
  <2>5. QED
    BY <2>1, <2>2, <2>3, <2>4, SaveAttemptStep
<1>10. CASE JunChanged(t)
  <2>1. /\ thr[t].pc = "jun_changed" /\ thr[t].round < MaxReprices
        /\ thr[t].pc \notin WaitPoints
    BY <1>10, <1>a DEF JunChanged, At, KnowsRound, WaitPoints
  <2>2. QED
    BY <1>10, <1>d, <2>1, RoundGoto, TransitionActionStep DEF JunChanged
<1>11. CASE JunReallocate(t)
  <2>1. /\ thr[t].pc = "jun_reallocate" /\ thr[t].round < MaxReprices
        /\ thr[t].pc \notin WaitPoints
    BY <1>11, <1>a DEF JunReallocate, At, KnowsRound, WaitPoints
  <2>2. CASE TransitionAction(t, "aborted_no_exposure", "release")
    BY <1>11, <1>d, <2>1, <2>2, FreePointList, ActionToFree DEF JunReallocate
  <2>3. ASSUME action' = Moved(t, "ready"),
               Advance(t, [thr[t] EXCEPT !.pc = "jun_start", !.round = @ + 1, !.key = NoKey],
                       {ActionRow})
        PROVE  IInv'
    <3>. DEFINE self == [thr[t] EXCEPT !.pc = "jun_start", !.round = @ + 1, !.key = NoKey]
    <3>1. thr[t].round + 1 \in 0 .. MaxCommits /\ thr[t].round + 1 <= MaxReprices
      BY <1>a, <1>b, <2>1
    <3>2. "jun_start" \in Points
      BY DEF Points
    <3>3. /\ self \in ThreadState /\ self.pc = "jun_start" /\ self.round = thr[t].round + 1
          /\ self.rsp = thr[t].rsp
      BY <1>a, <3>1, <3>2 DEF ThreadState
    <3>4. self.rsp = "none"
      BY <2>1, <3>3, Unanswered
    <3>. HIDE DEF self
    <3>5. Fits(t, self, expo, tickets)
      BY <1>b, <3>1, <3>3, <3>4, RoundFits
    <3>6. Advance(t, self, {ActionRow}) /\ action' \in [Actions -> ActionState]
      BY <1>d, <2>3, ActionRowTypes DEF self
    <3>7. QED
      BY <1>11, <2>1, <3>3, <3>5, <3>6, ActionRowMoves DEF JunReallocate
  <2>4. QED
    BY <1>11, <2>2, <2>3 DEF JunReallocate
<1>12. CASE JunUnknown(t)
  BY <1>12, <1>d, ActionToFree DEF JunUnknown, At, WaitPoints
<1>13. CASE JunTicket(t)
  <2>. DEFINE self == [thr[t] EXCEPT !.pc = "evaluate", !.key = <<"8xbet", 1>>,
                                     !.round = 0, !.expoStale = FALSE]
  <2>1. thr[t].pc = "jun_ticket" /\ thr[t].pc \in TicketPoints /\ thr[t].pc \notin WaitPoints
    BY <1>13 DEF JunTicket, At, TicketPoints, WaitPoints
  <2>2. <<"8xbet", 1>> \in Keys /\ "evaluate" \in Points /\ 0 \in 0 .. MaxCommits
    BY <1>b DEF Keys, Bookmakers, Points
  <2>3. /\ self \in ThreadState /\ self.pc = "evaluate" /\ self.key = <<"8xbet", 1>>
        /\ self.round = 0 /\ self.rsp = thr[t].rsp
    BY <1>a, <2>2 DEF ThreadState
  <2>4. self.rsp = "none"
    BY <2>1, <2>3, Unanswered
  <2>5. CommitJun88Ticket(t, self) /\ UNCHANGED <<wire, faults>>
    BY <1>13 DEF JunTicket
  <2>. HIDE DEF self
  <2>6. ASSUME NEW ex, ex[Subject(t)].st # "none"
        PROVE  Fits(t, self, ex, tickets)
    <3>1. KnowsKey(t, self, ex)
      BY <1>c, <2>2, <2>3, <2>6 DEF KnowsKey, MatcherPoints
    <3>2. KnowsRound(self)
      BY <1>b, <2>3 DEF KnowsRound, FirstPoints, JunPoints
    <3>3. KnowsTicket(t, self, tickets)
      BY <2>3, <2>4 DEF KnowsTicket, TicketPoints
    <3>4. QED
      BY <3>1, <3>2, <3>3 DEF Fits
  <2>7. QED
    BY <2>1, <2>3, <2>5, <2>6, CommitJun88TicketStep
<1>14. CASE Abort(t)
  BY <1>14, <1>d, FreePointList, ActionToFree DEF Abort, At, WaitPoints
<1>15. CASE Release(t)
  <2>1. thr[t].pc \notin WaitPoints
    BY <1>15 DEF Release, At, WaitPoints
  <2>2. [action[Subject(t)] EXCEPT !.resv = "none", !.held = FALSE] \in ActionState
    <3>1. action[Subject(t)] \in ActionState
      BY <1>c DEF TypeOK
    <3>2. QED
      BY <3>1 DEF ActionState
  <2>3. action' \in [Actions -> ActionState]
    BY <1>15, <1>c, <2>2 DEF Release, TypeOK
  <2>4. PICK w : Advance(t, Returned(t), w)
    BY <1>15 DEF Release
  <2>5. QED
    BY <1>15, <2>1, <2>3, <2>4, IdleFacts, ReturnedFits, ActionRowMoves DEF Release
<1>16. QED
  BY <1>1, <1>2, <1>3, <1>4, <1>5, <1>6, <1>7, <1>8, <1>9, <1>10, <1>11, <1>12, <1>13,
     <1>14, <1>15 DEF ExecutorStep

-----------------------------------------------------------------------------
(* The 8xbet leg                                                           *)

(* What a thread on its way through a hedge knows.                         *)
LEMMA HedgeKnows ==
  ASSUME IInv, NEW t \in Threads, thr[t].pc \in HedgePoints
  PROVE  /\ thr[t].key \in Keys /\ thr[t].key[1] = "8xbet"
         /\ expo[Subject(t)].st # "none"
         /\ thr[t].pc \in KeyedPoints /\ thr[t].pc \notin WaitPoints
  BY Knows, ThreadFacts
     DEF KnowsKey, KeyedPoints, HedgePoints, CommitPoints, WaitPoints, Subject

(* A completed and a reopened exposure keep the Jun88 ticket.             *)
LEMMA ExposureRowTypes ==
  ASSUME TypeOK, NEW t \in Threads, KeyOf(t) \in Keys, expo[Subject(t)].st # "none"
  PROVE  /\ Completed(t) \in [Actions -> ExposureState]
         /\ [expo EXCEPT ![Subject(t)].st = "exposure_open"] \in [Actions -> ExposureState]
         /\ \A a \in Actions :
              /\ Completed(t)[a].jun = expo[a].jun
              /\ expo[a].st # "none" <=> Completed(t)[a].st # "none"
              /\ [expo EXCEPT ![Subject(t)].st = "exposure_open"][a].jun = expo[a].jun
              /\ expo[a].st # "none" <=>
                   [expo EXCEPT ![Subject(t)].st = "exposure_open"][a].st # "none"
<1>1. Subject(t) \in Actions /\ expo[Subject(t)] \in ExposureState
      /\ expo \in [Actions -> ExposureState]
  BY ThreadFacts DEF TypeOK
<1>2. KeyOf(t)[2] \in 0 .. MaxCommits
  BY BoundsAssumption DEF Keys
<1>3. "completed" \in ExposureStatus /\ "exposure_open" \in ExposureStatus
  BY DEF ExposureStatus
<1>4. /\ [expo[Subject(t)] EXCEPT !.st = "completed", !.hedge = KeyOf(t)[2]] \in ExposureState
      /\ [expo[Subject(t)] EXCEPT !.st = "completed", !.hedge = KeyOf(t)[2]].jun
           = expo[Subject(t)].jun
      /\ [expo[Subject(t)] EXCEPT !.st = "completed", !.hedge = KeyOf(t)[2]].st = "completed"
      /\ [expo[Subject(t)] EXCEPT !.st = "exposure_open"] \in ExposureState
      /\ [expo[Subject(t)] EXCEPT !.st = "exposure_open"].jun = expo[Subject(t)].jun
      /\ [expo[Subject(t)] EXCEPT !.st = "exposure_open"].st = "exposure_open"
  BY <1>1, <1>2, <1>3 DEF ExposureState
<1>5. QED
  BY <1>1, <1>4 DEF Completed

(* Steps of the hedge that save a row and go on with the hedge or stop.    *)
LEMMA HedgePointsGo ==
  ASSUME IInv, NEW t \in Threads, thr[t].pc \in HedgePoints,
         NEW p \in HedgePoints \cup CommitPoints \cup FreePoints \cup {"return"}
  PROVE  Goto(t, p) \in ThreadState /\ Fits(t, Goto(t, p), expo, tickets)
<1>1. CASE p \in FreePoints \cup {"return"}
  BY <1>1, GotoFree DEF IInv
<1>2. CASE p \in HedgePoints \cup CommitPoints
  BY <1>2, HedgeKnows, HedgeGoto
<1>3. QED
  BY <1>1, <1>2

(* The hedge, by whichever thread, keeps the invariant.                    *)
LEMMA HedgeKeeps ==
  ASSUME IInv, NEW t \in Threads, HedgeStep(t)
  PROVE  IInv'
<1>. TypeOK
  BY DEF IInv
<1>a. /\ thr[t] \in ThreadState /\ thr[t].round \in 0 .. MaxCommits
      /\ KnowsKey(t, thr[t], expo) /\ KnowsRound(thr[t])
  BY Knows
<1>b. /\ MaxReprices \in Nat /\ MaxCommits \in Nat /\ MaxHedgeRounds \in Nat
      /\ MaxHedgeRounds < MaxCommits
  BY BoundsAssumption
<1>c. Subject(t) \in Actions /\ Subject(t) = t[2] /\ KeyOf(t) = thr[t].key
  BY ThreadFacts DEF Subject, KeyOf
<1>d. {"placing_8xbet", "completed", "exposure_open", "submission_unknown"} \subseteq ActionStatus
  BY DEF ActionStatus, LiveAction, TerminalAction
<1>e. {"evaluate", "hedging", "placing", "hedge_renew", "hedge_done", "hedge_changed",
       "hedge_reprice", "hedge_rejected", "hedge_unknown_attempt"} \subseteq HedgePoints
  BY DEF HedgePoints
<1>1. CASE Evaluate(t)
  <2>1. thr[t].pc \in HedgePoints /\ thr[t].pc \notin WaitPoints
    BY <1>1, <1>e, HedgeKnows DEF Evaluate, At
  <2>2. PICK p \in {"open", "hedging"} : SaveExposure(t, p)
    BY <1>1 DEF Evaluate
  <2>3. p \in HedgePoints \cup FreePoints
    BY <1>e, FreePointList
  <2>4. QED
    BY <1>1, <2>1, <2>2, <2>3, HedgePointsGo, SaveExposureStep DEF Evaluate
<1>2. CASE Hedging(t)
  <2>1. thr[t].pc \in HedgePoints /\ thr[t].pc \notin WaitPoints
    BY <1>2, <1>e, HedgeKnows DEF Hedging, At
  <2>2. QED
    BY <1>2, <1>e, <2>1, HedgePointsGo, TransitionExposureStep DEF Hedging
<1>3. CASE Placing(t)
  <2>1. thr[t].pc \in HedgePoints /\ thr[t].pc \notin WaitPoints
    BY <1>3, <1>e, HedgeKnows DEF Placing, At
  <2>2. QED
    BY <1>3, <1>d, <1>e, <2>1, HedgePointsGo, TransitionActionStep DEF Placing
<1>4. CASE HedgeRenew(t)
  <2>1. /\ thr[t].pc \in HedgePoints /\ thr[t].pc \notin WaitPoints
        /\ KeyOf(t) \in Keys /\ expo[Subject(t)].st # "none"
    BY <1>4, <1>c, <1>e, HedgeKnows DEF HedgeRenew, At
  <2>2. CASE Reserve(t, "new") /\ UNCHANGED expo
    <3>1. "new" \in CommitPoints
      BY DEF CommitPoints
    <3>2. QED
      BY <1>4, <2>1, <2>2, <3>1, HedgePointsGo, ReserveStep DEF HedgeRenew
  <2>3. ASSUME UNCHANGED action, NEW w, Advance(t, Goto(t, "open"), w),
               \/ UNCHANGED expo
               \/ expo' = [expo EXCEPT ![Subject(t)].st = "exposure_open"]
        PROVE  IInv'
    <3>1. /\ action' \in [Actions -> ActionState]
          /\ expo' \in [Actions -> ExposureState]
          /\ \A a \in Actions : /\ expo'[a].jun = expo[a].jun
                                /\ expo[a].st # "none" <=> expo'[a].st # "none"
      <4>1. action' \in [Actions -> ActionState] /\ expo \in [Actions -> ExposureState]
        BY <2>3 DEF TypeOK
      <4>2. CASE UNCHANGED expo
        BY <4>1, <4>2
      <4>3. CASE expo' = [expo EXCEPT ![Subject(t)].st = "exposure_open"]
        BY <2>1, <4>1, <4>3, ExposureRowTypes
      <4>4. QED
        BY <2>3, <4>1, <4>2, <4>3
    <3>2. QED
      BY <1>4, <2>1, <2>3, <3>1, FreePointList, HedgePointsGo, ExposureRowMoves DEF HedgeRenew
  <2>4. QED
    BY <1>4, <2>2, <2>3 DEF HedgeRenew
<1>5. CASE HedgeAnswered(t)
  <2>1. /\ thr[t].pc = "wait" /\ thr[t].key[1] = "8xbet" /\ thr[t].rsp # "none"
        /\ thr[t].pc \in KeyedPoints /\ thr[t].pc \in CommitPoints
    BY <1>5, <1>c DEF HedgeAnswered, At, KeyedPoints, CommitPoints
  <2>2. PICK res \in Results, p \in HedgePoints :
          SaveAttempt(t, "response_received", res, p, "hedge_unknown_attempt")
    BY <1>5, <1>e DEF HedgeAnswered, Results
  <2>3. /\ Goto(t, p) \in ThreadState /\ Fits(t, Goto(t, p), expo, tickets)
        /\ Goto(t, "hedge_unknown_attempt") \in ThreadState
        /\ Fits(t, Goto(t, "hedge_unknown_attempt"), expo, tickets)
    BY <1>e, <2>1, HedgeGoto
  <2>4. "response_received" \in AttemptStatus
    BY DEF AttemptStatus
  <2>5. QED
    BY <1>5, <2>1, <2>2, <2>3, <2>4, SaveAttemptStep DEF HedgeAnswered, wire
<1>6. CASE HedgeDone(t)
  <2>1. /\ thr[t].pc \in HedgePoints /\ thr[t].pc \notin WaitPoints
        /\ KeyOf(t) \in Keys /\ expo[Subject(t)].st # "none"
    BY <1>6, <1>c, <1>e, HedgeKnows DEF HedgeDone, At
  <2>2. action' \in [Actions -> ActionState] /\ UNCHANGED <<attempt, wire, faults>>
    BY <1>6 DEF HedgeDone, TypeOK
  <2>3. CASE expo' = Completed(t) /\ Advance(t, Goto(t, "complete"), {ExposureRow})
    BY <2>1, <2>2, <2>3, FreePointList, HedgePointsGo, ExposureRowTypes, ExposureRowMoves
  <2>4. CASE UNCHANGED expo /\ Advance(t, Returned(t), {})
    BY <2>1, <2>2, <2>4, IdleFacts, ReturnedFits, ActionRowMoves
  <2>5. QED
    BY <1>6, <2>3, <2>4 DEF HedgeDone
<1>7. CASE Complete(t)
  BY <1>7, <1>d, FreePointList, ActionToFree DEF Complete, At, WaitPoints
<1>8. CASE HedgeChanged(t)
  <2>1. thr[t].pc \in HedgePoints /\ thr[t].pc \notin WaitPoints
    BY <1>8, <1>e, HedgeKnows DEF HedgeChanged, At
  <2>2. QED
    BY <1>8, <1>e, <2>1, HedgePointsGo, TransitionExposureStep DEF HedgeChanged
<1>9. CASE HedgeReprice(t)
  <2>1. /\ thr[t].pc = "hedge_reprice" /\ thr[t].pc \in HedgePoints
        /\ thr[t].pc \notin WaitPoints
        /\ KeyOf(t) \in Keys /\ KeyOf(t)[1] = "8xbet" /\ expo[Subject(t)].st # "none"
    BY <1>9, <1>c, <1>e, HedgeKnows DEF HedgeReprice, At
  <2>2. UNCHANGED <<attempt, expo, wire, faults>>
    BY <1>9 DEF HedgeReprice
  <2>3. ASSUME action' = Moved(t, "exposure_open"), thr[t].round < MaxHedgeRounds,
               Advance(t, [thr[t] EXCEPT !.pc = "evaluate", !.round = @ + 1,
                             !.key = <<KeyOf(t)[1], KeyOf(t)[2] + 1>>], {ActionRow})
        PROVE  IInv'
    <3>. DEFINE self == [thr[t] EXCEPT !.pc = "evaluate", !.round = @ + 1,
                           !.key = <<KeyOf(t)[1], KeyOf(t)[2] + 1>>]
    <3>1. /\ KeyOf(t)[2] + MaxHedgeRounds <= MaxCommits + thr[t].round
          /\ KeyOf(t)[2] \in 1 .. MaxCommits
      BY <1>a, <1>c, <2>1 DEF KnowsRound, Keys
    <3>2. /\ <<KeyOf(t)[1], KeyOf(t)[2] + 1>> \in Keys
          /\ thr[t].round + 1 \in 0 .. MaxCommits /\ "evaluate" \in Points
      BY <1>a, <1>b, <2>1, <2>3, <3>1 DEF Keys, Bookmakers, Points
    <3>3. /\ self \in ThreadState /\ self.pc = "evaluate"
          /\ self.key = <<KeyOf(t)[1], KeyOf(t)[2] + 1>>
          /\ self.round = thr[t].round + 1 /\ self.rsp = thr[t].rsp
      BY <1>a, <3>2 DEF ThreadState
    <3>4. self.rsp = "none" /\ Advance(t, self, {ActionRow})
      BY <2>1, <2>3, <3>3, Unanswered
    <3>. HIDE DEF self
    <3>5. KnowsKey(t, self, expo)
      BY <1>c, <2>1, <3>2, <3>3 DEF KnowsKey, MatcherPoints
    <3>6. KnowsRound(self)
      <4>1. self.round <= MaxHedgeRounds /\ self.key[2] + MaxHedgeRounds <= MaxCommits + self.round
        BY <1>a, <1>b, <2>3, <3>1, <3>3
      <4>2. QED
        BY <2>1, <3>3, <4>1 DEF KnowsRound, FirstPoints, JunPoints
    <3>7. KnowsTicket(t, self, tickets)
      BY <3>3, <3>4 DEF KnowsTicket, TicketPoints
    <3>8. QED
      BY <1>d, <2>1, <2>2, <2>3, <3>3, <3>4, <3>5, <3>6, <3>7, ActionRowTypes, ActionRowMoves
         DEF Fits
  <2>4. CASE action' = Moved(t, "exposure_open") /\ Advance(t, Goto(t, "open"), {ActionRow})
    BY <1>d, <2>1, <2>2, <2>4, FreePointList, HedgePointsGo, ActionRowTypes, ActionRowMoves
  <2>5. CASE UNCHANGED action /\ Advance(t, Returned(t), {})
    <3>1. action' \in [Actions -> ActionState]
      BY <2>5 DEF TypeOK
    <3>2. QED
      BY <2>1, <2>2, <2>5, <3>1, IdleFacts, ReturnedFits, ActionRowMoves
  <2>6. QED
    BY <1>9, <2>3, <2>4, <2>5 DEF HedgeReprice
<1>10. CASE HedgeRejected(t)
  <2>1. thr[t].pc \in HedgePoints /\ thr[t].pc \notin WaitPoints
    BY <1>10, <1>e, HedgeKnows DEF HedgeRejected, At
  <2>2. QED
    BY <1>10, <2>1, FreePointList, ExposureToFree DEF HedgeRejected
<1>11. CASE OpenExposureRow(t)
  <2>1. thr[t].pc \notin WaitPoints
    BY <1>11 DEF OpenExposureRow, At, WaitPoints
  <2>2. QED
    BY <1>11, <2>1, FreePointList, GotoFree, SaveExposureStep DEF OpenExposureRow
<1>12. CASE OpenAction(t)
  <2>1. thr[t].pc \notin WaitPoints
    BY <1>12 DEF OpenAction, At, WaitPoints
  <2>2. CASE TransitionAction(t, "exposure_open", "return")
    BY <1>12, <1>d, <2>1, <2>2, ActionToFree DEF OpenAction
  <2>3. ASSUME NEW w, Advance(t, Returned(t), w),
               action' = Moved(t, "exposure_open") \/ UNCHANGED action
        PROVE  IInv'
    <3>1. action' \in [Actions -> ActionState]
      BY <1>d, <2>3, ActionRowTypes DEF TypeOK
    <3>2. QED
      BY <1>12, <2>1, <2>3, <3>1, IdleFacts, ReturnedFits, ActionRowMoves DEF OpenAction
  <2>4. QED
    BY <1>12, <2>2, <2>3 DEF OpenAction
<1>13. CASE HedgeUnknownAttempt(t)
  <2>1. /\ thr[t].pc \in HedgePoints /\ thr[t].pc \notin WaitPoints
        /\ thr[t].pc \in KeyedPoints
    BY <1>13, <1>e, HedgeKnows DEF HedgeUnknownAttempt, At
  <2>2. QED
    BY <1>13, <2>1, FreePointList, GotoFree, SaveAttemptStep
       DEF HedgeUnknownAttempt, AttemptStatus, Results, wire
<1>14. CASE HedgeUnknown(t)
  BY <1>14, FreePointList, ExposureToFree DEF HedgeUnknown, At, WaitPoints
<1>15. CASE HedgeUnknownAction(t)
  BY <1>15, <1>d, ActionToFree DEF HedgeUnknownAction, At, WaitPoints
<1>16. QED
  BY <1>1, <1>2, <1>3, <1>4, <1>5, <1>6, <1>7, <1>8, <1>9, <1>10, <1>11, <1>12, <1>13,
     <1>14, <1>15 DEF HedgeStep

-----------------------------------------------------------------------------
(* Commits and commands                                                    *)

(* Between the steps of a commit a thread keeps key and round.             *)
LEMMA CommitGoto ==
  ASSUME IInv, NEW t \in Threads, NEW p \in CommitPoints, thr[t].pc \in CommitPoints
  PROVE  /\ Goto(t, p) \in ThreadState /\ Fits(t, Goto(t, p), expo, tickets)
         /\ Goto(t, p).pc = p /\ Goto(t, p).key = thr[t].key /\ Goto(t, p).rsp = "none"
<1>1. p \in Points /\ p \in KeyedPoints /\ thr[t].pc \in KeyedPoints
  BY DEF CommitPoints, Points, KeyedPoints
<1>2. /\ Goto(t, p) \in ThreadState
      /\ Goto(t, p).pc = p /\ Goto(t, p).key = thr[t].key
      /\ Goto(t, p).round = thr[t].round /\ Goto(t, p).rsp = "none"
  BY <1>1, GotoFields DEF IInv
<1>3. KnowsKey(t, thr[t], expo) /\ KnowsRound(thr[t])
  BY Knows
<1>4. p \notin MatcherPoints \cup FirstPoints \cup JunPoints \cup TicketPoints
             \cup HedgePoints \cup EvidencePoints
  BY DEF MatcherPoints, FirstPoints, JunPoints, TicketPoints, HedgePoints, CommitPoints,
         EvidencePoints
<1>5. KnowsKey(t, Goto(t, p), expo)
  BY <1>1, <1>2, <1>3, <1>4 DEF KnowsKey
<1>6. KnowsRound(Goto(t, p))
  BY <1>2, <1>3, <1>4 DEF KnowsRound, JunPoints
<1>7. KnowsTicket(t, Goto(t, p), tickets)
  BY <1>2, <1>4 DEF KnowsTicket, Results
<1>8. QED
  BY <1>2, <1>5, <1>6, <1>7 DEF Fits

(* Nobody is answered by a queued command unless it waits.                 *)
LEMMA NotAwaited ==
  ASSUME IInv, NEW t \in Threads, thr[t].pc \notin WaitPoints,
         NEW bm \in Bookmakers, NEW i \in DOMAIN inbox[bm]
  PROVE  inbox[bm][i].to # t
  BY DEF IInv, QueuesFit, CommandFits

(* A command is queued by a thread that will wait for it.                  *)
LEMMA WriteStep ==
  ASSUME IInv, NEW t \in Threads, NEW kind \in {"commit", "reconcile"},
         NEW self \in ThreadState, self.pc \in WaitPoints, self.key = thr[t].key,
         self.rsp = "none", Fits(t, self, expo, tickets),
         thr[t].pc \in KeyedPoints, thr[t].pc \notin WaitPoints,
         Write(t, kind), Advance(t, self, {}),
         UNCHANGED <<rows, journal, tickets, faults>>
  PROVE  IInv'
<1>. TypeOK /\ ThreadsFit /\ QueuesFit /\ JournalFits /\ RowsFit
  BY DEF IInv
<1>. DEFINE bt == thr[t].key[1]
            new == [kind |-> kind, key |-> <<t[2], thr[t].key>>, to |-> t]
<1>1. /\ Subject(t) \in Actions /\ Subject(t) = t[2] /\ KeyOf(t) = thr[t].key
      /\ thr[t].key \in Keys /\ bt \in Bookmakers
      /\ bt = "8xbet" => expo[t[2]].st # "none"
  <2>1. KnowsKey(t, thr[t], expo) /\ Subject(t) = t[2] /\ KeyOf(t) = thr[t].key
    BY Knows DEF Subject, KeyOf
  <2>2. thr[t].key \in Keys /\ (bt = "8xbet" => expo[t[2]].st # "none")
    BY <2>1 DEF KnowsKey
  <2>3. QED
    BY <2>1, <2>2, ThreadFacts DEF Keys
<1>2. new \in Message
  BY <1>1 DEF Message
<1>3. inbox' = [inbox EXCEPT ![bt] = Append(@, new)]
  BY <1>1 DEF Write
<1>4. /\ inbox' \in [Bookmakers -> Seq(Message)]
      /\ \A bm \in Bookmakers : bm # bt => inbox'[bm] = inbox[bm]
      /\ Len(inbox[bt]) \in Nat
      /\ DOMAIN inbox[bt] = 1 .. Len(inbox[bt])
      /\ DOMAIN inbox'[bt] = 1 .. Len(inbox[bt]) + 1
      /\ \A i \in DOMAIN inbox[bt] : inbox'[bt][i] = inbox[bt][i]
      /\ inbox'[bt][Len(inbox[bt]) + 1] = new
  <2>1. inbox[bt] \in Seq(Message) /\ inbox \in [Bookmakers -> Seq(Message)]
    BY <1>1 DEF TypeOK
  <2>2. inbox'[bt] = Append(inbox[bt], new)
    BY <1>1, <1>3, <2>1
  <2>. HIDE DEF new, bt
  <2>3. Append(inbox[bt], new) \in Seq(Message)
    BY <1>2, <2>1
  <2>4. inbox' \in [Bookmakers -> Seq(Message)]
        /\ \A bm \in Bookmakers : bm # bt => inbox'[bm] = inbox[bm]
    BY <1>1, <1>3, <2>1, <2>3
  <2>5. QED
    BY <1>2, <2>1, <2>2, <2>4
<1>5. /\ thr' \in [Threads -> ThreadState]
      /\ thr'[t] = self
      /\ \A u \in Threads : u # t =>
           /\ thr'[u].pc = thr[u].pc /\ thr'[u].key = thr[u].key
           /\ thr'[u].round = thr[u].round /\ thr'[u].rsp = thr[u].rsp
  BY AdvanceFacts
<1>6. UNCHANGED <<action, attempt, expo, journal, tickets, faults>>
  BY DEF rows
<1>7. TypeOK'
  BY <1>4, <1>5, <1>6 DEF TypeOK
<1>8. ThreadsFit'
  <2>1. ASSUME NEW u \in Threads
        PROVE  Fits(u, thr'[u], expo, tickets)
    <3>1. CASE u = t
      BY <1>5, <3>1
    <3>2. CASE u # t
      BY <1>5, <3>2, FitsFields DEF ThreadsFit
    <3>3. QED
      BY <3>1, <3>2
  <2>2. QED
    BY <1>6, <2>1 DEF ThreadsFit
<1>9. QueuesFit'
  <2>1. CommandFits(bt, new, thr', expo)
    BY <1>1, <1>5 DEF CommandFits
  <2>2. ASSUME NEW bm \in Bookmakers, NEW i \in DOMAIN inbox[bm]
        PROVE  CommandFits(bm, inbox[bm][i], thr', expo) /\ inbox[bm][i].to # t
    <3>1. inbox[bm][i].to # t
      BY NotAwaited
    <3>2. CommandFits(bm, inbox[bm][i], thr, expo)
      BY DEF QueuesFit
    <3>3. QED
      BY <1>5, <3>1, <3>2 DEF CommandFits
  <2>. HIDE DEF new, bt
  <2>3. ASSUME NEW bm \in Bookmakers
        PROVE  /\ AnswersOnce(inbox'[bm])
               /\ \A i \in DOMAIN inbox'[bm] : CommandFits(bm, inbox'[bm][i], thr', expo)
    <3>1. CASE bm # bt
      BY <1>4, <2>2, <3>1 DEF QueuesFit
    <3>2. CASE bm = bt
      <4>1. \A i \in DOMAIN inbox'[bt] :
              \/ i \in DOMAIN inbox[bt] /\ inbox'[bt][i] = inbox[bt][i]
              \/ i = Len(inbox[bt]) + 1 /\ inbox'[bt][i] = new
        BY <1>4
      <4>2. AnswersOnce(inbox[bt]) /\ new.to = t
        BY <1>1 DEF QueuesFit, new
      <4>3. AnswersOnce(inbox'[bt])
        <5>. SUFFICES ASSUME NEW i \in DOMAIN inbox'[bt], NEW j \in DOMAIN inbox'[bt],
                             inbox'[bt][i].to \in Threads, inbox'[bt][j].to = inbox'[bt][i].to
                      PROVE  i = j
          BY DEF AnswersOnce
        <5>1. QED
          BY <1>1, <2>2, <4>1, <4>2 DEF AnswersOnce
      <4>4. \A i \in DOMAIN inbox'[bt] : CommandFits(bt, inbox'[bt][i], thr', expo)
        BY <1>1, <2>1, <2>2, <4>1
      <4>5. QED
        BY <3>2, <4>3, <4>4
    <3>3. QED
      BY <3>1, <3>2
  <2>4. QED
    BY <1>6, <2>3 DEF QueuesFit
<1>10. JournalFits' /\ RowsFit'
  BY <1>6 DEF JournalFits, RowsFit
<1>11. QED
  BY <1>7, <1>8, <1>9, <1>10 DEF IInv

(* Recording, sending and awaiting a commit keeps the invariant.           *)
LEMMA AttemptKeeps ==
  ASSUME IInv, NEW t \in Threads, AttemptStep(t)
  PROVE  IInv'
<1>. TypeOK
  BY DEF IInv
<1>a. {"new", "mark", "send", "wait"} = CommitPoints
  BY DEF CommitPoints
<1>b. CommitPoints \subseteq KeyedPoints
  BY DEF KeyedPoints
<1>c. /\ {"before_send", "submit_started", "response_received", "awaiting_reconcile"}
           \subseteq AttemptStatus
      /\ {"none", "rejected", "submission_unknown"} \subseteq Results \cup {"none"}
  BY DEF AttemptStatus, Results
<1>1. CASE NewAttempt(t)
  <2>. DEFINE self == [Goto(t, "mark") EXCEPT !.attStale = FALSE]
  <2>1. thr[t].pc \in CommitPoints /\ thr[t].pc \notin WaitPoints
    BY <1>1, <1>a DEF NewAttempt, At, WaitPoints
  <2>2. self \in ThreadState /\ Fits(t, self, expo, tickets)
    <3>1. Goto(t, "mark") \in ThreadState /\ Fits(t, Goto(t, "mark"), expo, tickets)
      BY <1>a, <2>1, CommitGoto
    <3>2. /\ self \in ThreadState /\ self.pc = Goto(t, "mark").pc
          /\ self.key = Goto(t, "mark").key /\ self.round = Goto(t, "mark").round
          /\ self.rsp = Goto(t, "mark").rsp
      BY <3>1 DEF ThreadState
    <3>. HIDE DEF self
    <3>3. QED
      BY <3>1, <3>2, FitsFields
  <2>3. [st |-> "before_send", res |-> "none"] \in AttemptState
    BY <1>c DEF AttemptState
  <2>4. \/ UNCHANGED attempt
        \/ attempt' = [attempt EXCEPT ![Subject(t)][KeyOf(t)]
                         = [st |-> "before_send", res |-> "none"]]
    BY <1>1 DEF NewAttempt
  <2>5. Advance(t, self, {}) \/ Advance(t, Returned(t), {})
    BY <1>1 DEF NewAttempt
  <2>6. UNCHANGED <<action, expo, journal, tickets, faults>> /\ inbox' = inbox
    BY <1>1 DEF NewAttempt, wire
  <2>. HIDE DEF self
  <2>7. QED
    BY <1>b, <2>1, <2>2, <2>3, <2>4, <2>5, <2>6, IdleFacts, ReturnedFits, AttemptRowMoves
<1>2. CASE MarkStarted(t)
  <2>1. thr[t].pc \in CommitPoints /\ thr[t].pc \notin WaitPoints
    BY <1>2, <1>a DEF MarkStarted, At, WaitPoints
  <2>2. Goto(t, "send") \in ThreadState /\ Fits(t, Goto(t, "send"), expo, tickets)
    BY <1>a, <2>1, CommitGoto
  <2>3. UNCHANGED <<action, expo, journal, tickets, faults>> /\ inbox' = inbox
        /\ SaveAttempt(t, "submit_started", "none", "send", Unresolved(t, FALSE))
    BY <1>2 DEF MarkStarted, wire
  <2>4. QED
    BY <1>b, <1>c, <2>1, <2>2, <2>3, UnresolvedFits, SaveAttemptStep
<1>3. CASE SendCommit(t)
  <2>1. thr[t].pc \in CommitPoints /\ thr[t].pc \notin WaitPoints
    BY <1>3, <1>a DEF SendCommit, At, WaitPoints
  <2>2. /\ Goto(t, "wait") \in ThreadState /\ Fits(t, Goto(t, "wait"), expo, tickets)
        /\ Goto(t, "wait").pc \in WaitPoints /\ Goto(t, "wait").key = thr[t].key
        /\ Goto(t, "wait").rsp = "none"
    BY <1>a, <2>1, CommitGoto DEF WaitPoints
  <2>3. QED
    BY <1>3, <1>b, <2>1, <2>2, WriteStep DEF SendCommit
<1>4. CASE SendRefused(t)
  <2>1. thr[t].pc \in CommitPoints /\ thr[t].pc \notin WaitPoints
    BY <1>4, <1>a DEF SendRefused, At, WaitPoints
  <2>2. UNCHANGED <<action, expo, journal, tickets, faults>> /\ inbox' = inbox
        /\ SaveAttempt(t, "response_received", "rejected", Unresolved(t, FALSE),
                       Unresolved(t, FALSE))
    BY <1>4 DEF SendRefused, wire
  <2>3. QED
    BY <1>b, <1>c, <2>1, <2>2, UnresolvedFits, SaveAttemptStep
<1>5. CASE CommitTimeout(t)
  <2>1. thr[t].pc \in CommitPoints
    BY <1>5, <1>a DEF CommitTimeout, At
  <2>2. UNCHANGED <<action, expo, journal, tickets, faults>> /\ inbox' = Forgotten({t})
        /\ SaveAttempt(t, "awaiting_reconcile", "submission_unknown", Unresolved(t, TRUE),
                       Unresolved(t, TRUE))
    BY <1>5 DEF CommitTimeout
  <2>3. QED
    BY <1>b, <1>c, <2>1, <2>2, UnresolvedFits, SaveAttemptStep
<1>6. CASE CommitUnknown(t)
  <2>1. thr[t].pc \in CommitPoints /\ thr[t].rsp # "none"
    BY <1>6, <1>a DEF CommitUnknown, At
  <2>2. UNCHANGED <<action, expo, journal, tickets, faults>> /\ inbox' = inbox
        /\ SaveAttempt(t, "awaiting_reconcile", "submission_unknown", Unresolved(t, TRUE),
                       Unresolved(t, TRUE))
    BY <1>6 DEF CommitUnknown, wire
  <2>3. QED
    BY <1>b, <1>c, <2>1, <2>2, UnresolvedFits, SaveAttemptStep
<1>7. QED
  BY <1>1, <1>2, <1>3, <1>4, <1>5, <1>6 DEF AttemptStep

-----------------------------------------------------------------------------
(* Matcher, reconciliation and operator                                    *)

(* Reading the action row changes nothing a thread is held to.             *)
LEMMA ReadingFacts ==
  ASSUME TypeOK, NEW t \in Threads, NEW r \in ThreadState
  PROVE  /\ Reading(t, r) \in ThreadState
         /\ Reading(t, r).pc = r.pc /\ Reading(t, r).key = r.key
         /\ Reading(t, r).round = r.round /\ Reading(t, r).rsp = r.rsp
<1>. DEFINE l == action[Subject(t)].link
<1>1. l \in Links /\ 0 \in 0 .. 2
  BY ThreadFacts DEF TypeOK, ActionState
<1>2. Reading(t, r) = [r EXCEPT !.lag = 0, !.link = l]
  BY DEF Reading
<1>. HIDE DEF l
<1>3. QED
  BY <1>1, <1>2 DEF ThreadState

(* A matcher before its first commit knows of the exposure, no more.       *)
LEMMA MatcherFits ==
  ASSUME NEW t, NEW r, NEW ex, NEW tk, r.pc \in MatcherPoints, r.round = 0,
         r.rsp = "none", ex[t[2]].st # "none"
  PROVE  Fits(t, r, ex, tk)
<1>1. r.pc \notin KeyedPoints \cup JunPoints
  BY DEF KeyedPoints, CommitPoints, HedgePoints, EvidencePoints, ReconcilePoints,
         TicketPoints, MatcherPoints, JunPoints
<1>2. KnowsKey(t, r, ex) /\ KnowsRound(r) /\ KnowsTicket(t, r, tk)
  BY <1>1 DEF KnowsKey, KnowsRound, KnowsTicket, KeyedPoints, JunPoints
<1>3. QED
  BY <1>2 DEF Fits

(* A matcher starts at a number that leaves room for its rounds.           *)
LEMMA FirstOfRoundsFacts ==
  ASSUME NEW a \in Actions, NEW n \in FirstOfRounds(a)
  PROVE  <<"8xbet", n>> \in Keys /\ n + MaxHedgeRounds <= MaxCommits
  BY DEF FirstOfRounds, Keys, Bookmakers

(* The hedge matcher keeps the invariant.                                  *)
LEMMA MatcherKeeps ==
  ASSUME IInv, NEW t \in Threads, MatcherStep(t)
  PROVE  IInv'
<1>. TypeOK
  BY DEF IInv
<1>a. /\ thr[t] \in ThreadState /\ KnowsKey(t, thr[t], expo) /\ KnowsRound(thr[t])
      /\ Subject(t) \in Actions /\ Subject(t) = t[2]
  BY Knows, ThreadFacts DEF Subject
<1>b. /\ action \in [Actions -> ActionState] /\ expo \in [Actions -> ExposureState]
      /\ "unhedged_closed" \in ActionStatus
  BY DEF TypeOK, ActionStatus, TerminalAction
<1>c. {"lease", "match", "hedge_reserve", "hedge_prepare"} \subseteq MatcherPoints
      /\ {"lease", "match", "hedge_reserve", "hedge_prepare"} \subseteq Points
  BY DEF MatcherPoints, Points
<1>d. ASSUME thr[t].pc \in MatcherPoints
      PROVE  /\ thr[t].round = 0 /\ thr[t].rsp = "none" /\ thr[t].pc \notin WaitPoints
             /\ expo[Subject(t)].st # "none"
             /\ \A p \in MatcherPoints :
                  Goto(t, p) \in ThreadState /\ Fits(t, Goto(t, p), expo, tickets)
  <2>1. thr[t].pc \in FirstPoints /\ thr[t].pc \notin WaitPoints
    BY <1>d DEF MatcherPoints, FirstPoints, WaitPoints
  <2>2. thr[t].round = 0 /\ thr[t].rsp = "none" /\ expo[t[2]].st # "none"
    BY <1>a, <1>d, <2>1, Unanswered DEF KnowsRound, KnowsKey
  <2>3. ASSUME NEW p \in MatcherPoints
        PROVE  Goto(t, p) \in ThreadState /\ Fits(t, Goto(t, p), expo, tickets)
    <3>1. p \in Points
      BY DEF MatcherPoints, Points
    <3>2. /\ Goto(t, p) \in ThreadState /\ Goto(t, p).pc = p
          /\ Goto(t, p).round = 0 /\ Goto(t, p).rsp = "none"
      BY <2>2, <3>1, GotoFields
    <3>3. QED
      BY <2>2, <3>2, MatcherFits
  <2>4. QED
    BY <1>a, <2>1, <2>2, <2>3
<1>1. CASE HedgeLease(t)
  <2>1. thr[t].pc \in MatcherPoints
    BY <1>1, <1>c DEF HedgeLease, At
  <2>2. CASE UNCHANGED expo /\ Advance(t, Idle, {})
    BY <1>1, <1>b, <1>d, <2>1, <2>2, IdleFacts, ReturnedFits, ActionRowMoves DEF HedgeLease
  <2>3. CASE /\ expo' = [expo EXCEPT ![Subject(t)].leased = TRUE]
             /\ Advance(t, Goto(t, "match"), {ExposureRow})
    <3>1. /\ expo' \in [Actions -> ExposureState]
          /\ \A a \in Actions : expo'[a].jun = expo[a].jun /\ expo'[a].st = expo[a].st
      BY <1>a, <1>b, <2>3 DEF ExposureState
    <3>2. QED
      BY <1>1, <1>b, <1>c, <1>d, <2>1, <2>3, <3>1, ExposureRowMoves DEF HedgeLease
  <2>4. QED
    BY <1>1, <2>2, <2>3 DEF HedgeLease
<1>2. CASE HedgeMatch(t)
  <2>1. thr[t].pc \in MatcherPoints
    BY <1>2, <1>c DEF HedgeMatch, At
  <2>2. UNCHANGED <<rows, wire, faults>>
    BY <1>2 DEF HedgeMatch
  <2>3. CASE Advance(t, Returned(t), {})
    BY <1>d, <2>1, <2>2, <2>3, IdleFacts, ReturnedFits, ThreadOnly
  <2>4. ASSUME NEW p \in {"close", "hedge_reserve"},
               Advance(t, Reading(t, [thr[t] EXCEPT !.pc = p]), {})
        PROVE  IInv'
    <3>. DEFINE r == [thr[t] EXCEPT !.pc = p]
    <3>1. /\ r \in ThreadState /\ r.pc = p /\ r.round = thr[t].round /\ r.rsp = thr[t].rsp
      BY <1>a DEF ThreadState, Points
    <3>. HIDE DEF r
    <3>2. Fits(t, r, expo, tickets)
      <4>1. CASE p = "close"
        BY <1>d, <2>1, <3>1, <4>1, FreePointList, FreeFits
      <4>2. CASE p = "hedge_reserve"
        BY <1>a, <1>c, <1>d, <2>1, <3>1, <4>2, MatcherFits
      <4>3. QED
        BY <4>1, <4>2
    <3>3. /\ Reading(t, r) \in ThreadState
          /\ Reading(t, r).pc = r.pc /\ Reading(t, r).key = r.key
          /\ Reading(t, r).round = r.round /\ Reading(t, r).rsp = r.rsp
      BY <3>1, ReadingFacts
    <3>4. Fits(t, Reading(t, r), expo, tickets)
      BY <3>2, <3>3, FitsFields
    <3>5. Advance(t, Reading(t, r), {})
      BY <2>4 DEF r
    <3>6. QED
      BY <1>d, <2>1, <2>2, <3>3, <3>4, <3>5, ThreadOnly
  <2>5. QED
    BY <1>2, <2>3, <2>4 DEF HedgeMatch
<1>3. CASE HedgeReserve(t)
  <2>1. thr[t].pc \in MatcherPoints
    BY <1>3, <1>c DEF HedgeReserve, At
  <2>2. CASE Reserve(t, "hedge_prepare")
    BY <1>3, <1>c, <1>d, <2>1, <2>2, ReserveStep DEF HedgeReserve
  <2>3. CASE Advance(t, Returned(t), {}) /\ UNCHANGED action
    BY <1>3, <1>b, <1>d, <2>1, <2>3, IdleFacts, ReturnedFits, ActionRowMoves DEF HedgeReserve
  <2>4. QED
    BY <1>3, <2>2, <2>3 DEF HedgeReserve
<1>4. CASE HedgePrepare(t)
  <2>1. thr[t].pc \in MatcherPoints
    BY <1>4, <1>c DEF HedgePrepare, At
  <2>2. UNCHANGED <<rows, wire, faults>>
    BY <1>4 DEF HedgePrepare
  <2>3. ASSUME NEW n \in FirstOfRounds(Subject(t)),
               Advance(t, [thr[t] EXCEPT !.pc = "evaluate", !.key = <<"8xbet", n>>], {})
        PROVE  IInv'
    <3>. DEFINE self == [thr[t] EXCEPT !.pc = "evaluate", !.key = <<"8xbet", n>>]
    <3>1. <<"8xbet", n>> \in Keys /\ n + MaxHedgeRounds <= MaxCommits
      BY <1>a, FirstOfRoundsFacts
    <3>2. /\ self \in ThreadState /\ self.pc = "evaluate" /\ self.key = <<"8xbet", n>>
          /\ self.round = 0 /\ self.rsp = "none"
      <4>1. "evaluate" \in Points /\ thr[t].round = 0 /\ thr[t].rsp = "none"
        BY <1>d, <2>1 DEF Points
      <4>2. thr[t] \in ThreadState
        BY <1>a
      <4>3. QED
        BY <3>1, <4>1, <4>2 DEF ThreadState
    <3>3. Advance(t, self, {})
      BY <2>3
    <3>. HIDE DEF self
    <3>4. KnowsKey(t, self, expo)
      BY <1>a, <1>d, <2>1, <3>1, <3>2 DEF KnowsKey
    <3>5. KnowsRound(self)
      <4>1. MaxHedgeRounds \in Nat /\ MaxCommits \in Nat
        BY BoundsAssumption
      <4>2. QED
        BY <3>1, <3>2, <4>1 DEF KnowsRound, JunPoints
    <3>6. KnowsTicket(t, self, tickets)
      BY <3>2 DEF KnowsTicket, TicketPoints
    <3>7. QED
      BY <1>d, <2>1, <2>2, <3>2, <3>3, <3>4, <3>5, <3>6, ThreadOnly DEF Fits
  <2>4. ASSUME NEW w, Advance(t, Returned(t), w)
        PROVE  IInv'
    BY <1>d, <2>1, <2>2, <2>4, IdleFacts, ReturnedFits, ThreadOnly
  <2>5. QED
    BY <1>4, <2>3, <2>4 DEF HedgePrepare
<1>5. CASE Unlease(t)
  <2>1. thr[t].pc \notin WaitPoints
    BY <1>5 DEF Unlease, At, WaitPoints
  <2>2. PICK w : Advance(t, Idle, w)
    BY <1>5 DEF Unlease
  <2>3. /\ expo' \in [Actions -> ExposureState]
        /\ \A a \in Actions : expo'[a].jun = expo[a].jun /\ expo'[a].st = expo[a].st
    <3>1. CASE UNCHANGED expo
      BY <1>b, <3>1
    <3>2. CASE expo' = [expo EXCEPT ![Subject(t)].leased = FALSE]
      BY <1>a, <1>b, <3>2 DEF ExposureState
    <3>3. QED
      BY <1>5, <3>1, <3>2 DEF Unlease
  <2>4. QED
    BY <1>5, <1>b, <2>1, <2>2, <2>3, IdleFacts, ReturnedFits, ExposureRowMoves DEF Unlease
<1>6. CASE CloseExposure(t)
  BY <1>6, FreePointList, ExposureToFree DEF CloseExposure, At, WaitPoints
<1>7. CASE CloseAction(t)
  BY <1>7, <1>b, FreePointList, ActionToFree DEF CloseAction, At, WaitPoints
<1>8. QED
  BY <1>1, <1>2, <1>3, <1>4, <1>5, <1>6, <1>7 DEF MatcherStep

(* A recorded 8xbet commit has an exposure.                                *)
LEMMA RecordedKey ==
  ASSUME IInv, NEW a \in Actions, NEW k \in Keys, attempt[a][k].st # "none"
  PROVE  k[1] = "8xbet" => expo[a].st # "none"
<1>1. ASSUME k[1] = "8xbet"
      PROVE  expo[a].st # "none"
  <2>1. k = <<"8xbet", k[2]>> /\ k[2] \in 1 .. MaxCommits
    BY <1>1 DEF Keys
  <2>2. QED
    BY <2>1 DEF IInv, RowsFit
<1>2. QED
  BY <1>1

(* Outside the commits and the hedge a key is all a thread needs.          *)
LEMMA KeyFits ==
  ASSUME NEW t, NEW r, NEW ex, NEW tk, r.pc \in EvidencePoints \cup ReconcilePoints,
         r.rsp = "none", r.key \in Keys, r.key[1] = "8xbet" => ex[t[2]].st # "none",
         r.pc \in EvidencePoints => r.key[1] = "8xbet"
  PROVE  Fits(t, r, ex, tk)
<1>1. r.pc \notin MatcherPoints \cup FirstPoints \cup JunPoints \cup TicketPoints
                \cup HedgePoints \cup CommitPoints
  BY DEF MatcherPoints, FirstPoints, JunPoints, TicketPoints, HedgePoints, CommitPoints,
         EvidencePoints, ReconcilePoints
<1>2. KnowsKey(t, r, ex) /\ KnowsRound(r) /\ KnowsTicket(t, r, tk)
  BY <1>1 DEF KnowsKey, KnowsRound, KnowsTicket, JunPoints, Results
<1>3. QED
  BY <1>2 DEF Fits

(* Reconciliation, in a pass or by hand, keeps the invariant.              *)
LEMMA ReconcileKeeps ==
  ASSUME IInv, NEW t \in Threads, ReconcileStep(t)
  PROVE  IInv'
<1>. TypeOK
  BY DEF IInv
<1>a. /\ thr[t] \in ThreadState
      /\ KnowsKey(t, thr[t], expo) /\ KnowsTicket(t, thr[t], tickets)
      /\ Subject(t) \in Actions /\ Subject(t) = t[2] /\ KeyOf(t) = thr[t].key
  BY Knows, ThreadFacts DEF Subject, KeyOf
<1>b. /\ action \in [Actions -> ActionState] /\ "exposure_open" \in ActionStatus
      /\ "response_received" \in AttemptStatus
  BY DEF TypeOK, ActionStatus, LiveAction, AttemptStatus
<1>c. ASSUME thr[t].pc \in ReconcilePoints \cup TicketPoints
      PROVE  /\ thr[t].pc \in KeyedPoints /\ thr[t].key \in Keys
             /\ thr[t].key[1] = "8xbet" => expo[t[2]].st # "none"
             /\ \A p \in ReconcilePoints :
                  /\ Goto(t, p) \in ThreadState /\ Fits(t, Goto(t, p), expo, tickets)
                  /\ Goto(t, p).pc = p /\ Goto(t, p).key = thr[t].key
                  /\ Goto(t, p).rsp = "none"
  <2>1. thr[t].pc \in KeyedPoints
    BY <1>c DEF KeyedPoints
  <2>2. /\ thr[t].key \in Keys
        /\ thr[t].key[1] = "8xbet" => expo[t[2]].st # "none"
    BY <1>a, <2>1 DEF KnowsKey
  <2>3. ASSUME NEW p \in ReconcilePoints
        PROVE  /\ Goto(t, p) \in ThreadState /\ Fits(t, Goto(t, p), expo, tickets)
               /\ Goto(t, p).pc = p /\ Goto(t, p).key = thr[t].key /\ Goto(t, p).rsp = "none"
    <3>1. p \in Points /\ p \notin EvidencePoints
      BY DEF ReconcilePoints, EvidencePoints, Points
    <3>2. /\ Goto(t, p) \in ThreadState /\ Goto(t, p).pc = p
          /\ Goto(t, p).key = thr[t].key /\ Goto(t, p).rsp = "none"
      BY <3>1, GotoFields
    <3>3. QED
      BY <2>2, <3>1, <3>2, KeyFits
  <2>4. QED
    BY <2>1, <2>2, <2>3
<1>1. CASE PickAttempt(t)
  <2>1. thr[t].pc \notin WaitPoints /\ UNCHANGED <<rows, wire, faults>>
    BY <1>1 DEF PickAttempt, At, WaitPoints
  <2>2. CASE Advance(t, Idle, {})
    BY <2>1, <2>2, IdleFacts, ReturnedFits, ThreadOnly
  <2>3. ASSUME NEW k \in PendingKeys(Subject(t)),
               Advance(t, [Goto(t, "ask") EXCEPT !.key = k], {})
        PROVE  IInv'
    <3>. DEFINE self == [Goto(t, "ask") EXCEPT !.key = k]
    <3>1. k \in Keys /\ attempt[Subject(t)][k].st # "none"
      BY DEF PendingKeys, PendingAttempt
    <3>2. Goto(t, "ask") \in ThreadState /\ Goto(t, "ask").pc = "ask"
          /\ Goto(t, "ask").rsp = "none"
      BY GotoFields DEF Points
    <3>3. /\ self \in ThreadState /\ self.pc = "ask" /\ self.key = k /\ self.rsp = "none"
      BY <3>1, <3>2 DEF ThreadState
    <3>4. Advance(t, self, {})
      BY <2>3
    <3>. HIDE DEF self
    <3>5. k[1] = "8xbet" => expo[t[2]].st # "none"
      BY <1>a, <3>1, RecordedKey
    <3>6. Fits(t, self, expo, tickets)
      BY <3>1, <3>3, <3>5, KeyFits DEF ReconcilePoints, EvidencePoints
    <3>7. QED
      BY <2>1, <3>3, <3>4, <3>6, ThreadOnly
  <2>4. QED
    BY <1>1, <2>2, <2>3 DEF PickAttempt
<1>2. CASE SendReconcile(t)
  <2>1. /\ thr[t].pc = "ask" /\ thr[t].pc \in ReconcilePoints /\ thr[t].pc \notin WaitPoints
        /\ "answer" \in ReconcilePoints /\ "answer" \in WaitPoints
    BY <1>2 DEF SendReconcile, At, ReconcilePoints, WaitPoints
  <2>2. CASE Write(t, "reconcile") /\ Advance(t, Goto(t, "answer"), {})
    BY <1>2, <1>c, <2>1, <2>2, WriteStep DEF SendReconcile
  <2>3. CASE Advance(t, Idle, {}) /\ UNCHANGED inbox
    BY <1>2, <2>1, <2>3, IdleFacts, ReturnedFits, ThreadOnly DEF SendReconcile, wire
  <2>4. QED
    BY <1>2, <2>2, <2>3 DEF SendReconcile
<1>3. CASE ReconcileUnanswered(t)
  <2>1. thr[t].pc \in ReconcilePoints
    BY <1>3 DEF ReconcileUnanswered, At, ReconcilePoints
  <2>2. /\ Advance(t, Idle, {}) /\ inbox' = Forgotten({t})
        /\ UNCHANGED <<action, attempt, expo, journal, tickets, faults>>
    BY <1>3 DEF ReconcileUnanswered, rows
  <2>3. [st |-> "none", res |-> "none"] \in AttemptState
    BY DEF AttemptState
  <2>4. QED
    BY <1>c, <2>1, <2>2, <2>3, IdleFacts, ReturnedFits, AttemptRowMoves
<1>4. CASE ReconcileTicket(t)
  <2>1. /\ thr[t].pc = "answer" /\ thr[t].rsp = "ticket_accepted"
        /\ thr[t].pc \in ReconcilePoints /\ UNCHANGED <<rows, wire, faults>>
    BY <1>4 DEF ReconcileTicket, At, ReconcilePoints
  <2>2. CASE Advance(t, Goto(t, "return"), {})
    BY <2>1, <2>2, GotoFree, ThreadOnly
  <2>3. CASE KeyOf(t)[1] = "jun88" /\ Advance(t, Goto(t, "rec_jun"), {})
    <3>. DEFINE self == Goto(t, "rec_jun")
    <3>1. /\ self \in ThreadState /\ self.pc = "rec_jun" /\ self.key = thr[t].key
          /\ self.rsp = "none"
      BY GotoFields DEF Points
    <3>2. Advance(t, self, {})
      BY <2>3
    <3>. HIDE DEF self
    <3>3. KnowsKey(t, self, expo)
      BY <1>c, <2>1, <3>1 DEF KnowsKey, HedgePoints, EvidencePoints, MatcherPoints
    <3>4. KnowsRound(self)
      BY <3>1 DEF KnowsRound, FirstPoints, JunPoints, CommitPoints, HedgePoints
    <3>5. KnowsTicket(t, self, tickets)
      BY <1>a, <2>1, <2>3, <3>1 DEF KnowsTicket
    <3>6. QED
      BY <2>1, <3>1, <3>2, <3>3, <3>4, <3>5, ThreadOnly DEF Fits
  <2>4. CASE Advance(t, [Goto(t, "rec_hedge") EXCEPT !.expoStale = FALSE], {})
    <3>. DEFINE r == Goto(t, "rec_hedge")
                self == [r EXCEPT !.expoStale = FALSE]
    <3>1. r \in ThreadState /\ Fits(t, r, expo, tickets)
      BY <1>c, <2>1 DEF ReconcilePoints
    <3>2. Advance(t, self, {})
      BY <2>4
    <3>. HIDE DEF r
    <3>3. /\ self \in ThreadState /\ self.pc = r.pc /\ self.key = r.key
          /\ self.round = r.round /\ self.rsp = r.rsp
      BY <3>1 DEF ThreadState
    <3>. HIDE DEF self
    <3>4. QED
      BY <2>1, <3>1, <3>2, <3>3, FitsFields, ThreadOnly
  <2>5. QED
    BY <1>4, <2>2, <2>3, <2>4 DEF ReconcileTicket
<1>5. CASE ReconcileNoTicket(t)
  <2>1. /\ thr[t].pc \in ReconcilePoints /\ thr[t].rsp # "none" /\ thr[t].rsp \in Results
        /\ UNCHANGED <<action, expo, journal, tickets, faults>> /\ inbox' = inbox
    BY <1>5 DEF ReconcileNoTicket, At, ReconcilePoints, Results, wire
  <2>2. PICK p \in {"abort", "rec_read", "return"} :
          SaveAttempt(t, "response_received", thr[t].rsp, p, "return")
    BY <1>5 DEF ReconcileNoTicket
  <2>3. p \in FreePoints \cup {"return"}
    BY FreePointList
  <2>4. QED
    BY <1>b, <1>c, <2>1, <2>2, <2>3, GotoFree, SaveAttemptStep
<1>6. CASE ReconcileJun(t)
  <2>1. thr[t].pc \in TicketPoints
    BY <1>6 DEF ReconcileJun, At, TicketPoints
  <2>2. "rec_jun_open" \in FreePoints
    BY FreePointList
  <2>3. /\ Goto(t, "rec_jun_open") \in ThreadState
        /\ \A ex : Fits(t, Goto(t, "rec_jun_open"), ex, tickets)
    BY <2>2, GotoFree
  <2>4. QED
    BY <1>6, <2>1, <2>3, CommitJun88TicketStep DEF ReconcileJun
<1>7. CASE ReconcileJunOpen(t)
  BY <1>7, <1>b, ActionToFree DEF ReconcileJunOpen, At, WaitPoints
<1>8. CASE ReconcileHedge(t)
  <2>1. /\ thr[t].pc \in ReconcilePoints /\ thr[t].pc \notin WaitPoints
        /\ UNCHANGED <<action, expo, journal, tickets, faults>> /\ inbox' = inbox
    BY <1>8 DEF ReconcileHedge, At, ReconcilePoints, WaitPoints, wire
  <2>2. PICK p \in {"rec_complete", "return"} :
          SaveAttempt(t, "response_received", "ticket_accepted", p, "return")
    BY <1>8 DEF ReconcileHedge
  <2>3. /\ Goto(t, p) \in ThreadState /\ Fits(t, Goto(t, p), expo, tickets)
        /\ Goto(t, "return") \in ThreadState /\ Fits(t, Goto(t, "return"), expo, tickets)
    <3>1. CASE p = "return"
      BY <3>1, GotoFree
    <3>2. CASE p = "rec_complete"
      BY <1>c, <2>1, <3>2, GotoFree DEF ReconcilePoints
    <3>3. QED
      BY <3>1, <3>2
  <2>4. "ticket_accepted" \in Results
    BY DEF Results
  <2>5. QED
    BY <1>b, <1>c, <2>1, <2>2, <2>3, <2>4, SaveAttemptStep
<1>9. CASE ReconcileComplete(t)
  <2>1. /\ thr[t].pc \in ReconcilePoints /\ thr[t].pc \notin WaitPoints
        /\ action' \in [Actions -> ActionState]
        /\ UNCHANGED <<attempt, wire, faults>>
    BY <1>9, <1>b DEF ReconcileComplete, At, ReconcilePoints, WaitPoints
  <2>2. CASE /\ expo[Subject(t)].st \in {"submission_unknown", "hedging", "manual_review"}
             /\ expo' = Completed(t) /\ Advance(t, Goto(t, "complete"), {ExposureRow})
    <3>1. KeyOf(t) \in Keys /\ expo[Subject(t)].st # "none"
      BY <1>a, <1>c, <2>1, <2>2
    <3>2. QED
      BY <2>1, <2>2, <3>1, FreePointList, GotoFree, ExposureRowTypes, ExposureRowMoves
  <2>3. CASE UNCHANGED expo /\ Advance(t, Returned(t), {})
    BY <2>1, <2>3, IdleFacts, ReturnedFits, ActionRowMoves
  <2>4. QED
    BY <1>9, <2>2, <2>3 DEF ReconcileComplete
<1>10. CASE ReconcileRead(t)
  <2>. DEFINE r == Goto(t, "rec_reopen")
              self == [r EXCEPT !.expoStale = FALSE]
  <2>1. thr[t].pc \notin WaitPoints /\ UNCHANGED <<rows, wire, faults>> /\ Advance(t, self, {})
    BY <1>10 DEF ReconcileRead, At, WaitPoints
  <2>2. r \in ThreadState /\ Fits(t, r, expo, tickets)
    BY FreePointList, GotoFree
  <2>. HIDE DEF r
  <2>3. /\ self \in ThreadState /\ self.pc = r.pc /\ self.key = r.key
        /\ self.round = r.round /\ self.rsp = r.rsp
    BY <2>2 DEF ThreadState
  <2>. HIDE DEF self
  <2>4. QED
    BY <2>1, <2>2, <2>3, FitsFields, ThreadOnly
<1>11. CASE ReconcileReopen(t)
  <2>1. thr[t].pc \notin WaitPoints /\ "open" \in FreePoints
    BY <1>11, FreePointList DEF ReconcileReopen, At, WaitPoints
  <2>2. CASE TransitionExposure(t, "exposure_open", "open")
    BY <1>11, <2>1, <2>2, ExposureToFree DEF ReconcileReopen
  <2>3. CASE SaveExposure(t, "open")
    BY <1>11, <2>1, <2>3, GotoFree, SaveExposureStep DEF ReconcileReopen
  <2>4. QED
    BY <1>11, <2>2, <2>3 DEF ReconcileReopen
<1>12. QED
  BY <1>1, <1>2, <1>3, <1>4, <1>5, <1>6, <1>7, <1>8, <1>9, <1>10, <1>11 DEF ReconcileStep

(* The operator keeps the invariant.                                       *)
LEMMA OperatorKeeps ==
  ASSUME IInv, NEW t \in Threads, OperatorStep(t)
  PROVE  IInv'
<1>. TypeOK
  BY DEF IInv
<1>a. /\ thr[t] \in ThreadState /\ KnowsKey(t, thr[t], expo)
      /\ Subject(t) \in Actions /\ Subject(t) = t[2] /\ KeyOf(t) = thr[t].key
  BY Knows, ThreadFacts DEF Subject, KeyOf
<1>b. /\ action \in [Actions -> ActionState] /\ "response_received" \in AttemptStatus
      /\ "ticket_accepted" \in Results
  BY DEF TypeOK, AttemptStatus, Results
<1>c. ASSUME NEW r \in ThreadState, Fits(t, r, expo, tickets), thr[t].pc \notin WaitPoints,
             Advance(t, Reading(t, r), {}), UNCHANGED <<rows, wire, faults>>
      PROVE  IInv'
  BY <1>c, ReadingFacts, FitsFields, ThreadOnly
<1>d. ASSUME thr[t].pc \notin WaitPoints, UNCHANGED <<rows, wire, faults>>,
             NEW p \in FreePoints, Advance(t, Reading(t, [thr[t] EXCEPT !.pc = p]), {})
      PROVE  IInv'
  <2>. DEFINE r == [thr[t] EXCEPT !.pc = p]
  <2>1. r \in ThreadState /\ r.pc = p /\ r.rsp = thr[t].rsp
    BY <1>a DEF ThreadState, FreePoints
  <2>2. Advance(t, Reading(t, r), {})
    BY <1>d
  <2>. HIDE DEF r
  <2>3. Fits(t, r, expo, tickets)
    BY <1>d, <2>1, Unanswered, FreeFits
  <2>4. QED
    BY <1>c, <1>d, <2>1, <2>2, <2>3
<1>1. CASE OperatorReview(t)
  BY <1>1, ExposureToFree DEF OperatorReview, At, WaitPoints
<1>2. CASE OperatorReopen(t)
  BY <1>2, <1>d, FreePointList DEF OperatorReopen, At, WaitPoints
<1>3. CASE ReopenExposure(t)
  BY <1>3, ExposureToFree DEF ReopenExposure, At, WaitPoints
<1>4. CASE OperatorClose(t)
  BY <1>4, <1>d, FreePointList DEF OperatorClose, At, WaitPoints
<1>5. CASE OperatorTicket(t)
  <2>1. thr[t].pc \notin WaitPoints /\ UNCHANGED <<rows, wire, faults>>
    BY <1>5 DEF OperatorTicket, At, WaitPoints
  <2>2. PICK n \in CommitNumbers(Subject(t), "8xbet"), p \in EvidencePoints :
          Advance(t, Reading(t, [thr[t] EXCEPT !.key = <<"8xbet", n>>, !.attStale = FALSE,
                                   !.pc = p]), {})
    BY <1>5 DEF OperatorTicket, EvidencePoints
  <2>. DEFINE r == [thr[t] EXCEPT !.key = <<"8xbet", n>>, !.attStale = FALSE, !.pc = p]
  <2>3. <<"8xbet", n>> \in Keys /\ attempt[Subject(t)][<<"8xbet", n>>].st # "none"
    BY DEF CommitNumbers, Keys, Bookmakers
  <2>4. p \in Points
    BY DEF EvidencePoints, Points
  <2>5. /\ r \in ThreadState /\ r.pc = p /\ r.key = <<"8xbet", n>> /\ r.rsp = thr[t].rsp
    BY <1>a, <2>3, <2>4 DEF ThreadState
  <2>6. Advance(t, Reading(t, r), {})
    BY <2>2
  <2>. HIDE DEF r
  <2>7. r.rsp = "none" /\ expo[t[2]].st # "none"
    BY <1>a, <2>1, <2>3, <2>5, Unanswered, RecordedKey
  <2>8. Fits(t, r, expo, tickets)
    BY <2>3, <2>5, <2>7, KeyFits
  <2>9. QED
    BY <1>c, <2>1, <2>5, <2>6, <2>8
<1>6. CASE EvidenceAttempt(t)
  <2>1. /\ thr[t].pc \in EvidencePoints /\ thr[t].pc \in KeyedPoints
        /\ thr[t].pc \notin WaitPoints
        /\ UNCHANGED <<action, expo, journal, tickets, faults>> /\ inbox' = inbox
    BY <1>6 DEF EvidenceAttempt, At, EvidencePoints, KeyedPoints, WaitPoints, wire
  <2>2. /\ Goto(t, "evidence_exposure") \in ThreadState
        /\ Fits(t, Goto(t, "evidence_exposure"), expo, tickets)
    <3>1. thr[t].key \in Keys /\ thr[t].key[1] = "8xbet" /\ expo[t[2]].st # "none"
      BY <1>a, <2>1 DEF KnowsKey
    <3>2. /\ Goto(t, "evidence_exposure") \in ThreadState
          /\ Goto(t, "evidence_exposure").pc = "evidence_exposure"
          /\ Goto(t, "evidence_exposure").key = thr[t].key
          /\ Goto(t, "evidence_exposure").rsp = "none"
      BY GotoFields DEF Points
    <3>3. QED
      BY <3>1, <3>2, KeyFits DEF EvidencePoints
  <2>3. SaveAttempt(t, "response_received", "ticket_accepted", "evidence_exposure", "return")
    BY <1>6 DEF EvidenceAttempt
  <2>4. QED
    BY <1>b, <2>1, <2>2, <2>3, GotoFree, SaveAttemptStep
<1>7. CASE EvidenceExposure(t)
  <2>1. /\ thr[t].pc \in EvidencePoints /\ thr[t].pc \in KeyedPoints
        /\ thr[t].pc \notin WaitPoints
        /\ action' \in [Actions -> ActionState] /\ UNCHANGED <<attempt, wire, faults>>
    BY <1>7, <1>b DEF EvidenceExposure, At, EvidencePoints, KeyedPoints, WaitPoints
  <2>2. KeyOf(t) \in Keys /\ expo[Subject(t)].st # "none"
    BY <1>a, <2>1 DEF KnowsKey
  <2>3. CASE expo' = Completed(t) /\ Advance(t, Goto(t, "complete"), {ExposureRow})
    BY <2>1, <2>2, <2>3, FreePointList, GotoFree, ExposureRowTypes, ExposureRowMoves
  <2>4. CASE UNCHANGED expo /\ Advance(t, Returned(t), {})
    BY <2>1, <2>4, IdleFacts, ReturnedFits, ActionRowMoves
  <2>5. QED
    BY <1>7, <2>3, <2>4 DEF EvidenceExposure
<1>8. CASE OperatorRefused(t)
  BY <1>8, IdleFacts, ReturnedFits, ThreadOnly DEF OperatorRefused, At, WaitPoints
<1>9. QED
  BY <1>1, <1>2, <1>3, <1>4, <1>5, <1>6, <1>7, <1>8 DEF OperatorStep

-----------------------------------------------------------------------------
(* The wire                                                                *)

(* A queue without its head.                                               *)
LEMMA ShorterQueue ==
  ASSUME TypeOK, NEW bm \in Bookmakers, inbox[bm] # <<>>,
         inbox' = [inbox EXCEPT ![bm] = Tail(@)]
  PROVE  /\ Head(inbox[bm]) \in Message /\ Head(inbox[bm]) = inbox[bm][1]
         /\ 1 \in DOMAIN inbox[bm]
         /\ inbox' \in [Bookmakers -> Seq(Message)]
         /\ \A b \in Bookmakers : b # bm => inbox'[b] = inbox[b]
         /\ \A i \in DOMAIN inbox'[bm] :
              i \in Nat /\ i >= 1 /\ i + 1 \in DOMAIN inbox[bm] /\ inbox'[bm][i] = inbox[bm][i + 1]
<1>. DEFINE q == inbox[bm]
<1>1. q \in Seq(Message) /\ inbox \in [Bookmakers -> Seq(Message)]
  BY DEF TypeOK
<1>2. inbox'[bm] = Tail(q) /\ \A b \in Bookmakers : b # bm => inbox'[b] = inbox[b]
  BY <1>1
<1>. HIDE DEF q
<1>3. q # <<>>
  BY DEF q
<1>4. /\ Head(q) \in Message /\ Tail(q) \in Seq(Message)
      /\ Len(q) \in Nat /\ Len(q) >= 1 /\ DOMAIN q = 1 .. Len(q) /\ Head(q) = q[1]
  BY <1>1, <1>3, HeadTailProperties, EmptySeq, LenProperties
<1>5. /\ DOMAIN Tail(q) = 1 .. Len(q) - 1
      /\ \A i \in 1 .. Len(q) - 1 : Tail(q)[i] = q[i + 1]
  BY <1>1, <1>3, <1>4, HeadTailProperties, LenProperties
<1>6. inbox' \in [Bookmakers -> Seq(Message)]
  BY <1>1, <1>4 DEF q
<1>7. QED
  BY <1>2, <1>4, <1>5, <1>6 DEF q

(* The collector takes a command off its queue and answers it.  No other   *)
(* queued command waits for the same thread's answer.                      *)
LEMMA Handled ==
  ASSUME IInv, NEW bm \in Bookmakers, inbox[bm] # <<>>,
         inbox' = [inbox EXCEPT ![bm] = Tail(@)],
         NEW result \in Results, Deliver(Head(inbox[bm]), result),
         tickets \subseteq tickets',
         tickets' \subseteq Actions \X Bookmakers \X (1 .. MaxCommits),
         \A a \in Actions, n \in 1 .. MaxCommits :
           <<a, "8xbet", n>> \in tickets' \ tickets => expo[a].st # "none",
         LET k == Head(inbox[bm]).key IN
           result = "ticket_accepted" => <<k[1], k[2][1], k[2][2]>> \in tickets',
         journal' \in [Actions \X Keys -> Results \cup {"none", "submit_started"}],
         JournalFits',
         UNCHANGED <<rows, faults>>
  PROVE  IInv'
<1>. TypeOK /\ ThreadsFit /\ QueuesFit /\ JournalFits /\ RowsFit
  BY DEF IInv
<1>. DEFINE m == Head(inbox[bm])
<1>1. /\ m \in Message /\ m = inbox[bm][1] /\ 1 \in DOMAIN inbox[bm]
      /\ inbox' \in [Bookmakers -> Seq(Message)]
      /\ \A b \in Bookmakers : b # bm => inbox'[b] = inbox[b]
      /\ \A i \in DOMAIN inbox'[bm] :
           i \in Nat /\ i >= 1 /\ i + 1 \in DOMAIN inbox[bm] /\ inbox'[bm][i] = inbox[bm][i + 1]
  BY ShorterQueue
<1>2. CommandFits(bm, m, thr, expo)
  BY <1>1 DEF QueuesFit
<1>3. thr' = [t \in Threads |-> IF t = m.to THEN [thr[t] EXCEPT !.rsp = result] ELSE thr[t]]
  BY DEF Deliver
<1>4. result = "ticket_accepted" => <<m.key[1], m.key[2][1], m.key[2][2]>> \in tickets'
  OBVIOUS
<1>. HIDE DEF m
<1>5. UNCHANGED <<action, attempt, expo, faults>>
  BY DEF rows
<1>6. ASSUME NEW t \in Threads
      PROVE  /\ thr'[t] \in ThreadState
             /\ thr'[t].pc = thr[t].pc /\ thr'[t].key = thr[t].key
             /\ thr'[t].round = thr[t].round
             /\ t = m.to => thr'[t].rsp = result
             /\ t # m.to => thr'[t].rsp = thr[t].rsp
  <2>1. thr[t] \in ThreadState
    BY DEF TypeOK
  <2>2. thr'[t] = IF t = m.to THEN [thr[t] EXCEPT !.rsp = result] ELSE thr[t]
    BY <1>3
  <2>3. QED
    BY <2>1, <2>2 DEF ThreadState
<1>7. TypeOK'
  <2>1. thr' \in [Threads -> ThreadState]
    <3>1. thr' = [t \in Threads |-> thr'[t]]
      BY <1>3
    <3>2. QED
      BY <1>6, <3>1
  <2>2. QED
    BY <1>1, <1>5, <2>1 DEF TypeOK
<1>8. ThreadsFit'
  <2>1. ASSUME NEW t \in Threads
        PROVE  Fits(t, thr'[t], expo, tickets')
    <3>1. KnowsKey(t, thr[t], expo) /\ KnowsRound(thr[t]) /\ KnowsTicket(t, thr[t], tickets)
      BY Knows
    <3>2. KnowsKey(t, thr'[t], expo) /\ KnowsRound(thr'[t])
      BY <1>6, <3>1 DEF KnowsKey, KnowsRound
    <3>3. KnowsTicket(t, thr'[t], tickets')
      <4>1. CASE t = m.to
        <5>1. m.key = <<t[2], thr[t].key>> /\ thr[t].pc \in WaitPoints
          BY <1>2, <4>1 DEF CommandFits
        <5>2. result = "ticket_accepted" =>
                <<t[2], thr[t].key[1], thr[t].key[2]>> \in tickets'
          BY <1>4, <5>1
        <5>3. thr'[t].pc = thr[t].pc /\ thr'[t].key = thr[t].key /\ thr'[t].rsp = result
          BY <1>6, <4>1
        <5>4. thr'[t].pc \notin TicketPoints
          BY <5>1, <5>3 DEF WaitPoints, TicketPoints
        <5>5. QED
          BY <5>1, <5>2, <5>3, <5>4 DEF KnowsTicket
      <4>2. CASE t # m.to
        <5>1. /\ thr'[t].pc = thr[t].pc /\ thr'[t].key = thr[t].key
              /\ thr'[t].rsp = thr[t].rsp
          BY <1>6, <4>2
        <5>2. QED
          BY <3>1, <5>1 DEF KnowsTicket
      <4>3. QED
        BY <4>1, <4>2
    <3>4. QED
      BY <3>2, <3>3 DEF Fits
  <2>2. QED
    BY <1>5, <2>1 DEF ThreadsFit
<1>9. QueuesFit'
  <2>1. ASSUME NEW b \in Bookmakers, NEW c \in Message, CommandFits(b, c, thr, expo),
               c.to \in Threads => c.to # m.to
        PROVE  CommandFits(b, c, thr', expo)
    <3>1. c.to \in Threads =>
            /\ thr'[c.to].pc = thr[c.to].pc /\ thr'[c.to].key = thr[c.to].key
            /\ thr'[c.to].rsp = thr[c.to].rsp
      BY <1>6, <2>1
    <3>2. QED
      BY <2>1, <3>1 DEF CommandFits
  <2>2. ASSUME NEW b \in Bookmakers, NEW i \in DOMAIN inbox[b]
        PROVE  CommandFits(b, inbox[b][i], thr, expo) /\ inbox[b][i] \in Message
    BY QueueElements DEF QueuesFit
  <2>3. ASSUME NEW i \in DOMAIN inbox'[bm]
        PROVE  CommandFits(bm, inbox'[bm][i], thr', expo)
    <3>1. /\ i + 1 \in DOMAIN inbox[bm] /\ inbox'[bm][i] = inbox[bm][i + 1]
          /\ i \in Nat /\ i >= 1
      BY <1>1
    <3>2. AnswersOnce(inbox[bm])
      BY DEF QueuesFit
    <3>3. inbox[bm][i + 1].to \in Threads => inbox[bm][i + 1].to # m.to
      <4>1. SUFFICES ASSUME inbox[bm][i + 1].to \in Threads,
                            inbox[bm][i + 1].to = inbox[bm][1].to
                     PROVE  FALSE
        BY <1>1
      <4>2. i + 1 = 1
        BY <1>1, <3>1, <3>2, <4>1 DEF AnswersOnce
      <4>3. QED
        BY <3>1, <4>2
    <3>4. QED
      BY <2>1, <2>2, <3>1, <3>3
  <2>4. ASSUME NEW b \in Bookmakers, b # bm, NEW i \in DOMAIN inbox[b]
        PROVE  CommandFits(b, inbox[b][i], thr', expo)
    <3>1. inbox[b][i].to \in Threads => inbox[b][i].to # m.to
      BY <1>2, <2>2, <2>4 DEF CommandFits
    <3>2. QED
      BY <2>1, <2>2, <3>1
  <2>5. AnswersOnce(inbox'[bm])
    <3>. SUFFICES ASSUME NEW i \in DOMAIN inbox'[bm], NEW j \in DOMAIN inbox'[bm],
                         inbox'[bm][i].to \in Threads, inbox'[bm][j].to = inbox'[bm][i].to
                  PROVE  i = j
      BY DEF AnswersOnce
    <3>1. i + 1 = j + 1
      BY <1>1 DEF QueuesFit, AnswersOnce
    <3>2. QED
      BY <1>1, <3>1
  <2>6. \A b \in Bookmakers :
          /\ AnswersOnce(inbox'[b])
          /\ \A i \in DOMAIN inbox'[b] : CommandFits(b, inbox'[b][i], thr', expo)
    BY <1>1, <2>3, <2>4, <2>5 DEF QueuesFit
  <2>7. QED
    BY <1>5, <2>6 DEF QueuesFit
<1>10. RowsFit'
  BY <1>5 DEF RowsFit
<1>11. QED
  BY <1>7, <1>8, <1>9, <1>10 DEF IInv

(* The journal answers with a result, and with a ticket only where it has  *)
(* noted one.                                                              *)
LEMMA CachedAnswerFacts ==
  ASSUME TypeOK, NEW k \in Actions \X Keys
  PROVE  /\ CachedAnswer(journal[k]) \in Results
         /\ CachedAnswer(journal[k]) = "ticket_accepted" <=> journal[k] = "ticket_accepted"
<1>1. journal[k] \in Results \cup {"none", "submit_started"}
  BY DEF TypeOK
<1>2. QED
  BY <1>1 DEF CachedAnswer, Results

(* A collector that handles a command keeps the invariant.                 *)
LEMMA CollectorKeeps ==
  ASSUME IInv, NEW bm \in Bookmakers, CollectorStep(bm)
  PROVE  IInv'
<1>. TypeOK
  BY DEF IInv
<1>. DEFINE m == Head(inbox[bm])
<1>1. /\ inbox[bm] # <<>> /\ inbox' = [inbox EXCEPT ![bm] = Tail(@)]
      /\ UNCHANGED <<rows, faults>>
  BY DEF CollectorStep, HandleCommit, HandleReconcile, DropExpired
<1>2. m \in Message /\ m = inbox[bm][1] /\ 1 \in DOMAIN inbox[bm]
  BY <1>1, ShorterQueue
<1>3. /\ m.key \in Actions \X Keys /\ m.key[1] \in Actions /\ m.key[2] \in Keys
      /\ m.key[2][1] \in Bookmakers /\ m.key[2][2] \in 1 .. MaxCommits
  BY <1>2 DEF Message, Keys
<1>4. m.key[2][1] = bm /\ (bm = "8xbet" => expo[m.key[1]].st # "none")
  BY <1>2 DEF IInv, QueuesFit, CommandFits
<1>. DEFINE ticket == <<m.key[1], m.key[2][1], m.key[2][2]>>
<1>5. journal[m.key] = "ticket_accepted" => ticket \in tickets
  BY <1>3 DEF IInv, JournalFits
<1>6. /\ tickets \subseteq Actions \X Bookmakers \X (1 .. MaxCommits)
      /\ journal \in [Actions \X Keys -> Results \cup {"none", "submit_started"}]
  BY DEF TypeOK
<1>7. ticket \in Actions \X Bookmakers \X (1 .. MaxCommits)
  BY <1>3
<1>8. /\ CachedAnswer(journal[m.key]) \in Results
      /\ CachedAnswer(journal[m.key]) = "ticket_accepted" <=>
           journal[m.key] = "ticket_accepted"
  BY <1>3, CachedAnswerFacts
<1>9. ASSUME UNCHANGED <<journal, tickets>>, NEW result \in Results, Deliver(m, result),
             result = "ticket_accepted" => ticket \in tickets
      PROVE  IInv'
  <2>1. JournalFits'
    BY <1>9 DEF IInv, JournalFits
  <2>2. QED
    BY <1>1, <1>6, <1>9, <2>1, Handled
<1>10. CASE HandleCommit(bm)
  <2>. DEFINE entry == journal[m.key]
  <2>1. PICK result \in IF entry = "none" THEN CommitResults ELSE {CachedAnswer(entry)},
             placed \in BOOLEAN :
          /\ entry = "none" /\ result = "ticket_accepted" => placed
          /\ tickets' = IF placed THEN tickets \cup {ticket} ELSE tickets
          /\ journal' = IF entry # "none" THEN journal
                        ELSE [journal EXCEPT ![m.key] =
                                IF result = "submission_unknown" THEN "submit_started"
                                ELSE result]
          /\ Deliver(m, result)
    BY <1>10 DEF HandleCommit
  <2>2. result \in Results
    BY <1>8, <2>1, FlagsAssumption
  <2>3. /\ tickets \subseteq tickets'
        /\ tickets' \subseteq Actions \X Bookmakers \X (1 .. MaxCommits)
        /\ tickets' \subseteq tickets \cup {ticket}
    BY <1>6, <1>7, <2>1
  <2>4. result = "ticket_accepted" => ticket \in tickets'
    <3>1. CASE entry = "none"
      BY <2>1, <3>1
    <3>2. CASE entry # "none"
      BY <1>5, <1>8, <2>1, <2>3, <3>2
    <3>3. QED
      BY <3>1, <3>2
  <2>5. /\ journal' \in [Actions \X Keys -> Results \cup {"none", "submit_started"}]
        /\ \A k \in Actions \X Keys :
             \/ journal'[k] = journal[k]
             \/ k = m.key /\ journal'[k] = "submit_started"
             \/ k = m.key /\ journal'[k] = result
    BY <1>3, <1>6, <2>1, <2>2
  <2>. HIDE DEF m
  <2>6. JournalFits'
    <3>. SUFFICES ASSUME NEW k \in Actions \X Keys, journal'[k] = "ticket_accepted"
                  PROVE  <<k[1], k[2][1], k[2][2]>> \in tickets'
      BY DEF JournalFits
    <3>1. CASE journal'[k] = journal[k]
      BY <2>3, <3>1 DEF IInv, JournalFits
    <3>2. CASE k = m.key /\ journal'[k] = result
      BY <2>4, <3>2
    <3>3. QED
      BY <2>5, <3>1, <3>2
  <2>7. ASSUME NEW a \in Actions, NEW n \in 1 .. MaxCommits,
               <<a, "8xbet", n>> \in tickets' \ tickets
        PROVE  expo[a].st # "none"
    <3>1. <<a, "8xbet", n>> = <<m.key[1], m.key[2][1], m.key[2][2]>>
      BY <2>3, <2>7
    <3>2. a = m.key[1] /\ bm = "8xbet"
      BY <1>4, <3>1
    <3>3. QED
      BY <1>4, <3>2
  <2>8. QED
    BY <1>1, <2>1, <2>2, <2>3, <2>4, <2>5, <2>6, <2>7, Handled DEF m
<1>11. CASE HandleReconcile(bm)
  <2>1. PICK result \in {CachedAnswer(journal[m.key])} \cup {"rejected"} : Deliver(m, result)
    BY <1>11 DEF HandleReconcile
  <2>2. result \in Results /\ UNCHANGED <<journal, tickets>>
    BY <1>8, <1>11, <2>1 DEF HandleReconcile, Results
  <2>3. result = "ticket_accepted" => ticket \in tickets
    BY <1>5, <1>8, <2>1
  <2>4. QED
    BY <1>9, <2>1, <2>2, <2>3
<1>12. CASE DropExpired(bm)
  <2>1. m.to \notin Threads /\ UNCHANGED <<thr, journal, tickets>>
    BY <1>12, ThreadFacts DEF DropExpired
  <2>2. "rejected" \in Results /\ thr = [t \in Threads |-> thr[t]]
    BY DEF Results, TypeOK
  <2>. HIDE DEF m
  <2>3. Deliver(m, "rejected")
    <3>1. thr' = [t \in Threads |-> IF t = m.to THEN [thr[t] EXCEPT !.rsp = "rejected"]
                                    ELSE thr[t]]
      BY <2>1, <2>2
    <3>2. QED
      BY <3>1 DEF Deliver
  <2>4. QED
    BY <1>9, <2>1, <2>2, <2>3
<1>13. QED
  BY <1>10, <1>11, <1>12 DEF CollectorStep

(* The collector's queue and journal are lost: less is claimed.            *)
LEMMA RestartKeeps ==
  ASSUME IInv, NEW bm \in Bookmakers, CollectorRestarts(bm)
  PROVE  IInv'
<1>. TypeOK
  BY DEF IInv
<1>1. /\ UNCHANGED <<action, attempt, expo, thr, tickets>>
      /\ faults' \in 0 .. MaxFaults
      /\ inbox' = [inbox EXCEPT ![bm] = <<>>]
      /\ journal' = [k \in Actions \X Keys |-> IF k[2][1] = bm THEN "none" ELSE journal[k]]
  BY BoundsAssumption DEF CollectorRestarts, rows, TypeOK
<1>2. /\ inbox' \in [Bookmakers -> Seq(Message)]
      /\ inbox'[bm] = <<>>
      /\ \A b \in Bookmakers : b # bm => inbox'[b] = inbox[b]
  <2>1. inbox \in [Bookmakers -> Seq(Message)] /\ <<>> \in Seq(Message)
    BY DEF TypeOK
  <2>2. QED
    BY <1>1, <2>1
<1>3. TypeOK'
  BY <1>1, <1>2 DEF TypeOK
<1>4. QueuesFit'
  <2>1. ASSUME NEW b \in Bookmakers
        PROVE  /\ AnswersOnce(inbox'[b])
               /\ \A i \in DOMAIN inbox'[b] : CommandFits(b, inbox'[b][i], thr, expo)
    <3>1. CASE b = bm
      BY <1>2, <3>1 DEF AnswersOnce
    <3>2. CASE b # bm
      BY <1>2, <3>2 DEF IInv, QueuesFit
    <3>3. QED
      BY <3>1, <3>2
  <2>2. QED
    BY <1>1, <2>1 DEF QueuesFit
<1>5. ThreadsFit' /\ RowsFit'
  BY <1>1 DEF IInv, ThreadsFit, RowsFit
<1>6. JournalFits'
  BY <1>1 DEF IInv, JournalFits
<1>7. QED
  BY <1>3, <1>4, <1>5, <1>6 DEF IInv

-----------------------------------------------------------------------------
(* Threads that begin, time, and faults of the backend                     *)

(* Nothing changes but where idle threads are.                             *)
LEMMA ThreadsBegin ==
  ASSUME IInv, thr' \in [Threads -> ThreadState],
         \A t \in Threads : \/ thr'[t] = thr[t]
                            \/ thr[t].pc = "idle" /\ Fits(t, thr'[t], expo, tickets),
         UNCHANGED <<rows, wire, faults>>
  PROVE  IInv'
<1>. TypeOK /\ ThreadsFit /\ QueuesFit /\ JournalFits /\ RowsFit
  BY DEF IInv
<1>1. UNCHANGED <<action, attempt, expo, inbox, journal, tickets, faults>>
  BY DEF rows, wire
<1>2. TypeOK'
  BY <1>1 DEF TypeOK
<1>3. ThreadsFit'
  BY <1>1 DEF ThreadsFit
<1>4. ASSUME NEW bm \in Bookmakers, NEW i \in DOMAIN inbox[bm]
      PROVE  CommandFits(bm, inbox[bm][i], thr', expo)
  <2>1. CommandFits(bm, inbox[bm][i], thr, expo)
    BY DEF QueuesFit
  <2>2. inbox[bm][i].to \in Threads => thr'[inbox[bm][i].to] = thr[inbox[bm][i].to]
    BY <2>1 DEF CommandFits, WaitPoints
  <2>3. QED
    BY <2>1, <2>2 DEF CommandFits
<1>5. QueuesFit'
  BY <1>1, <1>4 DEF QueuesFit
<1>6. JournalFits' /\ RowsFit'
  BY <1>1 DEF JournalFits, RowsFit
<1>7. QED
  BY <1>2, <1>3, <1>5, <1>6 DEF IInv

(* A thread that starts has no key to know, and round 0.                   *)
LEMMA StartFacts ==
  ASSUME TypeOK, NEW p \in Points
  PROVE  /\ [Idle EXCEPT !.pc = p] \in ThreadState
         /\ [Idle EXCEPT !.pc = p].pc = p
         /\ [Idle EXCEPT !.pc = p].round = 0
         /\ [Idle EXCEPT !.pc = p].rsp = "none"
<1>1. Idle \in ThreadState /\ Idle.round = 0 /\ Idle.rsp = "none"
  <2>1. MaxCommits \in Nat /\ "idle" \in Points
    BY BoundsAssumption DEF Points
  <2>2. QED
    BY <2>1 DEF Idle, ThreadState, Links
<1>. HIDE DEF Idle
<1>2. QED
  BY <1>1 DEF ThreadState

(* A new action, matcher, manual reconciliation or operator request keeps  *)
(* the invariant.                                                          *)
LEMMA ArrivalKeeps ==
  ASSUME IInv, NEW a \in Actions, Arrival(a)
  PROVE  IInv'
<1>. TypeOK
  BY DEF IInv
<1>a. ASSUME NEW t \in Threads, NEW self \in ThreadState, At(t, "idle"),
             Fits(t, self, expo, tickets), Advance(t, self, {}),
             UNCHANGED <<rows, wire, faults>>
      PROVE  IInv'
  BY <1>a, ThreadOnly DEF At, WaitPoints
<1>1. CASE Gate(a)
  <2>. DEFINE t == <<"exec", a>>
              self == [Idle EXCEPT !.pc = "create"]
  <2>1. /\ t \in Threads /\ At(t, "idle") /\ Advance(t, self, {})
        /\ UNCHANGED <<rows, wire, faults>>
    BY <1>1 DEF Gate, Threads
  <2>2. /\ self \in ThreadState /\ self.pc = "create"
        /\ self.round = 0 /\ self.rsp = "none"
    BY StartFacts DEF Points
  <2>. HIDE DEF self, t
  <2>3. self.pc \in FirstPoints \ MatcherPoints /\ self.pc \notin KeyedPoints \cup JunPoints
    BY <2>2 DEF FirstPoints, MatcherPoints, KeyedPoints, JunPoints, CommitPoints, HedgePoints,
                EvidencePoints, ReconcilePoints, TicketPoints
  <2>4. Fits(t, self, expo, tickets)
    BY <2>2, <2>3 DEF Fits, KnowsKey, KnowsRound, KnowsTicket, KeyedPoints, Results
  <2>5. QED
    BY <1>a, <2>1, <2>2, <2>4
<1>2. CASE HedgeList(a)
  <2>. DEFINE t == <<"hedge", a>>
              self == [Idle EXCEPT !.pc = "lease"]
  <2>1. /\ t \in Threads /\ t[2] = a /\ At(t, "idle") /\ Advance(t, self, {})
        /\ expo[a].st # "none" /\ UNCHANGED <<rows, wire, faults>>
    BY <1>2 DEF HedgeList, Threads
  <2>2. /\ self \in ThreadState /\ self.pc = "lease" /\ self.pc \in MatcherPoints
        /\ self.round = 0 /\ self.rsp = "none"
    BY StartFacts DEF Points, MatcherPoints
  <2>. HIDE DEF self, t
  <2>3. Fits(t, self, expo, tickets)
    BY <2>1, <2>2, MatcherFits
  <2>4. QED
    BY <1>a, <2>1, <2>2, <2>3
<1>3. CASE ReconcileManually(a)
  <2>. DEFINE t == <<"manual", a>>
              r == [Idle EXCEPT !.pc = "listed"]
  <2>1. /\ t \in Threads /\ At(t, "idle") /\ Advance(t, Reading(t, r), {})
        /\ UNCHANGED <<rows, wire, faults>>
    BY <1>3 DEF ReconcileManually, Threads
  <2>2. r \in ThreadState /\ r.pc = "listed" /\ r.rsp = "none"
    BY StartFacts DEF Points
  <2>. HIDE DEF r, t
  <2>3. Reading(t, r) \in ThreadState /\ Fits(t, Reading(t, r), expo, tickets)
    BY <2>1, <2>2, ReadingFacts, FreeFits, FreePointList
  <2>4. QED
    BY <1>a, <2>1, <2>3
<1>4. CASE OperatorReads(a)
  <2>. DEFINE t == <<"operate", a>>
              self == [Idle EXCEPT !.pc = "resolve"]
  <2>1. /\ t \in Threads /\ At(t, "idle") /\ Advance(t, self, {})
        /\ UNCHANGED <<rows, wire, faults>>
    BY <1>4 DEF OperatorReads, Threads
  <2>2. self \in ThreadState /\ self.pc = "resolve" /\ self.rsp = "none"
    BY StartFacts DEF Points
  <2>. HIDE DEF self, t
  <2>3. Fits(t, self, expo, tickets)
    BY <2>2, FreeFits, FreePointList
  <2>4. QED
    BY <1>a, <2>1, <2>2, <2>3
<1>5. QED
  BY <1>1, <1>2, <1>3, <1>4 DEF Arrival

(* The start of a reconciliation pass keeps the invariant.                 *)
LEMMA ListPendingKeeps ==
  ASSUME IInv, ListPending
  PROVE  IInv'
<1>. TypeOK
  BY DEF IInv
<1>. DEFINE r == [Idle EXCEPT !.pc = "listed"]
            Listed(t) == Role(t) = "loop" /\ action[Subject(t)].st \in Reconcilable
<1>1. /\ thr' = [t \in Threads |-> IF Listed(t) THEN Reading(t, r) ELSE thr[t]]
      /\ \A a \in Actions : "loop" \in Roles => thr[<<"loop", a>>].pc = "idle"
      /\ UNCHANGED <<rows, wire, faults>>
  BY DEF ListPending, PassRunning, At
<1>2. r \in ThreadState /\ r.pc = "listed" /\ r.rsp = "none"
  BY StartFacts DEF Points
<1>. HIDE DEF r, Listed
<1>3. ASSUME NEW t \in Threads
      PROVE  /\ thr'[t] \in ThreadState
             /\ \/ thr'[t] = thr[t]
                \/ thr[t].pc = "idle" /\ Fits(t, thr'[t], expo, tickets)
  <2>1. CASE Listed(t)
    <3>1. thr'[t] = Reading(t, r) /\ thr[t].pc = "idle"
      BY <1>1, <2>1, ThreadFacts DEF Listed
    <3>2. Reading(t, r) \in ThreadState /\ Fits(t, Reading(t, r), expo, tickets)
      BY <1>2, ReadingFacts, FreeFits, FreePointList
    <3>3. QED
      BY <3>1, <3>2
  <2>2. CASE ~Listed(t)
    BY <1>1, <2>2 DEF TypeOK
  <2>3. QED
    BY <2>1, <2>2
<1>4. thr' \in [Threads -> ThreadState]
  <2>1. thr' = [t \in Threads |-> thr'[t]]
    BY <1>1
  <2>2. QED
    BY <1>3, <2>1
<1>5. QED
  BY <1>1, <1>3, <1>4, ThreadsBegin

(* A lease that runs out changes a flag.                                   *)
LEMMA LeaseKeeps ==
  ASSUME IInv, NEW a \in Actions, LeaseExpires(a)
  PROVE  IInv'
<1>. TypeOK /\ ThreadsFit /\ QueuesFit /\ JournalFits /\ RowsFit
  BY DEF IInv
<1>1. /\ UNCHANGED <<attempt, thr, inbox, journal, tickets, faults>>
      /\ action' \in [Actions -> ActionState] /\ expo' \in [Actions -> ExposureState]
      /\ \A b \in Actions : expo'[b].st = expo[b].st /\ expo'[b].jun = expo[b].jun
  <2>1. UNCHANGED <<attempt, thr, inbox, journal, tickets, faults>>
    BY DEF LeaseExpires, wire
  <2>2. CASE action' = [action EXCEPT ![a].held = FALSE] /\ UNCHANGED expo
    BY <2>1, <2>2 DEF TypeOK, ActionState
  <2>3. CASE expo' = [expo EXCEPT ![a].leased = FALSE] /\ UNCHANGED action
    BY <2>1, <2>3 DEF TypeOK, ExposureState
  <2>4. QED
    BY <2>1, <2>2, <2>3 DEF LeaseExpires
<1>2. TypeOK'
  BY <1>1 DEF TypeOK
<1>3. ThreadsFit'
  BY <1>1, FitsMonotone DEF ThreadsFit
<1>4. ASSUME NEW bm \in Bookmakers, NEW i \in DOMAIN inbox[bm]
      PROVE  CommandFits(bm, inbox[bm][i], thr, expo')
  <2>1. CommandFits(bm, inbox[bm][i], thr, expo) /\ inbox[bm][i].key[1] \in Actions
    BY QueueElements DEF QueuesFit, Message
  <2>2. QED
    BY <1>1, <2>1 DEF CommandFits
<1>5. QueuesFit'
  BY <1>1, <1>4 DEF QueuesFit
<1>6. JournalFits' /\ RowsFit'
  BY <1>1 DEF JournalFits, RowsFit
<1>7. QED
  BY <1>2, <1>3, <1>5, <1>6 DEF IInv

(* A thread that fails withdraws its request and returns.                  *)
LEMMA ThreadFailsKeeps ==
  ASSUME IInv, NEW t \in Threads, ThreadFails(t) \/ MarkFails(t)
  PROVE  IInv'
<1>. TypeOK
  BY DEF IInv
<1>1. /\ action' \in [Actions -> ActionState]
      /\ attempt' \in [Actions -> [Keys -> AttemptState]]
      /\ expo' \in [Actions -> ExposureState]
      /\ faults' \in 0 .. MaxFaults
      /\ UNCHANGED <<attempt, expo, journal, tickets>>
  <2>1. /\ UNCHANGED <<action, attempt, expo, journal, tickets>>
        /\ faults < MaxFaults /\ faults' = faults + 1
    BY DEF ThreadFails, MarkFails, rows, wire
  <2>2. faults' \in 0 .. MaxFaults
    BY <2>1, BoundsAssumption DEF TypeOK
  <2>3. QED
    BY <2>1, <2>2 DEF TypeOK
<1>2. \A a \in Actions :
        /\ expo[a].st # "none" => expo'[a].st # "none"
        /\ expo'[a].st # "none" => <<a, "jun88", expo'[a].jun>> \in tickets
        /\ \A n \in 1 .. MaxCommits :
             attempt'[a][<<"8xbet", n>>].st # "none" => expo'[a].st # "none"
  BY <1>1 DEF IInv, RowsFit
<1>3. CASE ThreadFails(t)
  <2>1. PICK self \in {Idle, Returned(t)} : Advance(t, self, {})
    BY <1>3 DEF ThreadFails
  <2>2. self \in ThreadState /\ Fits(t, self, expo', tickets)
    BY <2>1, IdleFacts, ReturnedFits
  <2>3. inbox' = Forgotten({t})
    BY <1>3 DEF ThreadFails
  <2>4. QED
    BY <1>1, <1>2, <2>1, <2>2, <2>3, ThreadMoves
<1>4. CASE MarkFails(t)
  <2>1. /\ thr[t].pc \in CommitPoints /\ thr[t].pc \notin WaitPoints
        /\ Advance(t, Goto(t, Unresolved(t, FALSE)), {}) /\ inbox' = inbox
    BY <1>4 DEF MarkFails, At, CommitPoints, WaitPoints, wire
  <2>2. /\ Goto(t, Unresolved(t, FALSE)) \in ThreadState
        /\ Fits(t, Goto(t, Unresolved(t, FALSE)), expo, tickets)
    BY <2>1, UnresolvedFits
  <2>3. Fits(t, Goto(t, Unresolved(t, FALSE)), expo', tickets)
    BY <1>1, <2>2
  <2>4. QED
    BY <1>1, <1>2, <2>1, <2>2, <2>3, ThreadMoves
<1>5. QED
  BY <1>3, <1>4

(* The backend restarts: no thread is left and nobody awaits an answer.    *)
LEMMA CrashKeeps ==
  ASSUME IInv, BackendCrashes
  PROVE  IInv'
<1>. TypeOK /\ ThreadsFit /\ QueuesFit /\ JournalFits /\ RowsFit
  BY DEF IInv
<1>1. /\ UNCHANGED <<attempt, expo, journal, tickets>>
      /\ thr' = [t \in Threads |-> Idle]
      /\ inbox' = Forgotten(Threads)
      /\ faults' \in 0 .. MaxFaults
  <2>1. faults < MaxFaults /\ faults' = faults + 1
    BY DEF BackendCrashes
  <2>2. faults' \in 0 .. MaxFaults
    BY <2>1, BoundsAssumption DEF TypeOK
  <2>3. QED
    BY <2>2 DEF BackendCrashes
<1>2. action' \in [Actions -> ActionState]
  <2>1. ASSUME NEW a \in Actions
        PROVE  (IF action[a].resv = "mine" THEN [action[a] EXCEPT !.resv = "dead"]
                ELSE action[a]) \in ActionState
    <3>1. action[a] \in ActionState
      BY DEF TypeOK
    <3>2. QED
      BY <3>1 DEF ActionState
  <2>2. QED
    BY <2>1 DEF BackendCrashes
<1>3. /\ inbox' \in [Bookmakers -> Seq(Message)]
      /\ \A bm \in Bookmakers :
           /\ DOMAIN inbox'[bm] = DOMAIN inbox[bm]
           /\ \A i \in DOMAIN inbox[bm] :
                /\ inbox'[bm][i].key = inbox[bm][i].key
                /\ inbox'[bm][i].to \notin Threads
  <2>1. ASSUME NEW bm \in Bookmakers, NEW i \in DOMAIN inbox[bm]
        PROVE  inbox'[bm][i].to \notin Threads
    BY <1>1, ForgottenFacts, ThreadFacts
  <2>2. QED
    BY <1>1, <2>1, ForgottenFacts
<1>4. TypeOK'
  <2>1. thr' \in [Threads -> ThreadState]
    <3>1. \A t \in Threads : Idle \in ThreadState
      BY IdleFacts
    <3>2. QED
      BY <1>1, <3>1
  <2>2. QED
    BY <1>1, <1>2, <1>3, <2>1 DEF TypeOK
<1>5. ThreadsFit'
  BY <1>1, ReturnedFits DEF ThreadsFit
<1>6. QueuesFit'
  <2>1. ASSUME NEW bm \in Bookmakers
        PROVE  AnswersOnce(inbox'[bm])
    BY <1>3 DEF AnswersOnce
  <2>2. ASSUME NEW bm \in Bookmakers, NEW i \in DOMAIN inbox'[bm]
        PROVE  CommandFits(bm, inbox'[bm][i], thr', expo')
    <3>1. CommandFits(bm, inbox[bm][i], thr, expo)
      BY <1>3 DEF QueuesFit
    <3>2. QED
      BY <1>1, <1>3, <3>1 DEF CommandFits
  <2>3. QED
    BY <2>1, <2>2 DEF QueuesFit
<1>7. JournalFits' /\ RowsFit'
  BY <1>1 DEF JournalFits, RowsFit
<1>8. QED
  BY <1>4, <1>5, <1>6, <1>7 DEF IInv

-----------------------------------------------------------------------------
(* The theorems                                                            *)

(* The invariant holds initially.                                          *)
LEMMA InitFits == Init => IInv
<1>. SUFFICES ASSUME Init PROVE IInv
  OBVIOUS
<1>a. MaxCommits \in Nat /\ MaxFaults \in Nat
  BY BoundsAssumption
<1>1. action \in [Actions -> ActionState]
  BY DEF Init, NoAction, ActionState, Links
<1>2. attempt \in [Actions -> [Keys -> AttemptState]]
  BY DEF Init, NoAttempt, AttemptState
<1>3. expo \in [Actions -> ExposureState]
  BY <1>a DEF Init, NoExposure, ExposureState
<1>4. thr \in [Threads -> ThreadState]
  <2>1. \A t \in Threads : Idle \in ThreadState
    BY IdleFacts
  <2>2. QED
    BY <2>1 DEF Init
<1>5. /\ inbox \in [Bookmakers -> Seq(Message)]
      /\ \A bm \in Bookmakers : inbox[bm] = <<>>
  BY DEF Init
<1>6. /\ journal \in [Actions \X Keys -> Results \cup {"none", "submit_started"}]
      /\ tickets = {} /\ faults \in 0 .. MaxFaults
  BY <1>a DEF Init
<1>7. TypeOK
  BY <1>1, <1>2, <1>3, <1>4, <1>5, <1>6 DEF TypeOK
<1>8. ThreadsFit
  BY ReturnedFits DEF ThreadsFit, Init
<1>9. QueuesFit
  <2>1. \A bm \in Bookmakers : DOMAIN inbox[bm] = {}
    <3>1. DOMAIN <<>> = {}
      OBVIOUS
    <3>2. QED
      BY <1>5, <3>1, Zenon
  <2>2. QED
    BY <2>1 DEF QueuesFit, AnswersOnce
<1>10. JournalFits
  BY DEF JournalFits, Init
<1>11. RowsFit
  <2>1. \A n \in 1 .. MaxCommits : <<"8xbet", n>> \in Keys
    BY DEF Keys, Bookmakers
  <2>2. QED
    BY <2>1 DEF RowsFit, Init, NoExposure, NoAttempt
<1>12. QED
  BY <1>7, <1>8, <1>9, <1>10, <1>11 DEF IInv

(* Every step keeps it.                                                    *)
LEMMA NextKeeps == IInv /\ [Next]_vars => IInv'
<1>. SUFFICES ASSUME IInv, [Next]_vars PROVE IInv'
  OBVIOUS
<1>1. ASSUME NEW t \in Threads, ThreadStep(t)
      PROVE  IInv'
  BY <1>1, ExecutorKeeps, AttemptKeeps, HedgeKeeps, MatcherKeeps, ReconcileKeeps,
     OperatorKeeps DEF ThreadStep
<1>2. ASSUME NEW a \in Actions, Arrival(a) \/ LeaseExpires(a)
      PROVE  IInv'
  BY <1>2, ArrivalKeeps, LeaseKeeps
<1>3. ASSUME NEW bm \in Bookmakers, CollectorStep(bm)
      PROVE  IInv'
  BY <1>3, CollectorKeeps
<1>4. CASE ListPending
  BY <1>4, ListPendingKeeps
<1>5. CASE Fault
  BY <1>5, CrashKeeps, ThreadFailsKeeps, RestartKeeps DEF Fault
<1>6. CASE UNCHANGED vars
  <2>1. UNCHANGED <<rows, wire, faults>> /\ thr' = thr
    BY <1>6 DEF vars, rows, wire
  <2>2. thr' \in [Threads -> ThreadState]
    BY <2>1 DEF IInv, TypeOK
  <2>3. QED
    BY <2>1, <2>2, ThreadsBegin
<1>7. QED
  BY <1>1, <1>2, <1>3, <1>4, <1>5, <1>6 DEF Next

(* IInv is an invariant of live betting: whatever executors, matchers,     *)
(* reconciliation, operators, collectors and faults do to an action, every *)
(* thread's knowledge of keys, rounds and tickets stays true.              *)
THEOREM InvariantHolds == Spec => []IInv
BY InitFits, NextKeeps, PTL DEF Spec

(* Every row, thread, queue and journal entry keeps its type; in           *)
(* particular the reprice and hedge rounds never number a commit beyond    *)
(* the room that is left for them.                                         *)
THEOREM TypeCorrect == Spec => []TypeOK
<1>1. IInv => TypeOK
  BY DEF IInv
<1>2. QED
  BY <1>1, InvariantHolds, PTL

(* The persistence barrier of CommitJun88Ticket: no 8xbet commit is        *)
(* recorded, sent or accepted without a durable exposure that holds a      *)
(* Jun88 ticket the bookmaker really has.                                  *)
THEOREM BarrierHolds == Spec => []PersistenceBarrier
<1>1. IInv => PersistenceBarrier
  <2>. SUFFICES ASSUME IInv, NEW a \in Actions,
                       CommitNumbers(a, "8xbet") \cup TicketsOf(a, "8xbet") # {}
                PROVE  expo[a].st # "none" /\ <<a, "jun88", expo[a].jun>> \in tickets
    BY DEF PersistenceBarrier
  <2>1. expo[a].st # "none"
    BY DEF IInv, RowsFit, CommitNumbers, TicketsOf
  <2>2. QED
    BY <2>1 DEF IInv, RowsFit
<1>2. QED
  BY <1>1, InvariantHolds, PTL

-----------------------------------------------------------------------------
(* Statuses                                                                *)

(* No transition leaves a terminal status or a missing row, and none leads *)
(* from an exposed action back before its exposure.                        *)
LEMMA ActionMovesFacts ==
  ASSUME NEW s, NEW to, <<s, to>> \in ActionMoves
  PROVE  /\ s \notin TerminalAction /\ s # "none" /\ to # "none"
         /\ s \in Exposed => to \in Exposed
<1>1. PICK l \in DOMAIN ActionNext : s = l /\ to \in ActionNext[l]
  BY DEF ActionMoves
<1>2. l \in LiveAction
  BY DEF ActionNext, LiveAction
<1>3. to \in ActionNext[s] /\ s \in LiveAction
  BY <1>1, <1>2
<1>4. QED
  BY <1>3 DEF ActionNext, LiveAction, TerminalAction, Exposed

(* A closed exposure stays closed.                                         *)
LEMMA ExposureMovesFacts ==
  ASSUME NEW s, NEW to, <<s, to>> \in ExposureMoves
  PROVE  s \notin {"none", "completed", "unhedged_closed"}
<1>1. PICK l \in DOMAIN ExposureNext : s = l
  BY DEF ExposureMoves
<1>2. QED
  BY <1>1 DEF ExposureNext

(* Where the sets of statuses meet and where they do not.                  *)
LEMMA StatusFacts ==
  /\ \A s \in Uncommitted \cup {"placing_jun88"} : s \notin Exposed
  /\ \A s \in Exposed \ TerminalAction : s \in ReservationBlocking
  /\ \A s \in Reconcilable : s \notin TerminalAction
  /\ \A s \in Uncommitted \cup {"placing_jun88"} : s \notin TerminalAction
  /\ "placing_jun88" \in ReservationBlocking
  /\ "placing_jun88" \notin Uncommitted
  /\ \A s \in ActionStatus : s \notin Uncommitted \/ s \in {"selecting", "ready", "awaiting_odds_confirmation"}
  /\ \A s \in ActionStatus \ TerminalAction : s \in Uncommitted \/ s \in ReservationBlocking
BY DEF Uncommitted, Exposed, TerminalAction, ReservationBlocking, Reconcilable, ActionStatus,
       LiveAction

-----------------------------------------------------------------------------
(* The other threads                                                       *)

(* The executor is the only one of its kind.                               *)
LEMMA OneThread ==
  ASSUME NEW t \in Threads, NEW u \in Threads, Role(t) = Role(u), Subject(t) = Subject(u)
  PROVE  t = u
  BY ThreadFacts

(* What a thread is still up to date with after the step of another, it    *)
(* was before, and the step did not write it.                              *)
LEMMA OthersAfter ==
  ASSUME TypeOK, NEW t \in Threads, NEW self \in ThreadState, NEW written,
         Advance(t, self, written), NEW u \in Threads, u # t
  PROVE  /\ Subject(u) # Subject(t) => thr'[u] = thr[u]
         /\ thr[u].pc # "idle" /\ Subject(u) = Subject(t) =>
              /\ thr'[u].lag = 0 => thr[u].lag = 0 /\ ActionRow \notin written
              /\ ~thr'[u].expoStale => ~thr[u].expoStale /\ ExposureRow \notin written
              /\ ~thr'[u].attStale => ~thr[u].attStale /\ thr[u].key \notin written
<1>1. Subject(u) # Subject(t) => thr'[u] = thr[u]
  BY DEF Advance
<1>2. ASSUME thr[u].pc # "idle", Subject(u) = Subject(t)
      PROVE  thr'[u] = Outdated(thr[u], written)
  BY <1>2 DEF Advance
<1>3. thr[u] \in ThreadState
  BY DEF TypeOK
<1>. DEFINE r == thr[u]
            lag == IF ActionRow \in written /\ r.lag < 2 THEN r.lag + 1 ELSE r.lag
            es == IF ExposureRow \in written THEN TRUE ELSE r.expoStale
            as == IF r.key \in written THEN TRUE ELSE r.attStale
<1>4. Outdated(r, written) = [r EXCEPT !.lag = lag, !.expoStale = es, !.attStale = as]
  BY DEF Outdated
<1>5. lag = 0 => r.lag = 0 /\ ActionRow \notin written
  BY <1>3 DEF ThreadState
<1>6. (~es => ~r.expoStale /\ ExposureRow \notin written)
      /\ (~as => ~r.attStale /\ r.key \notin written)
  OBVIOUS
<1>7. Outdated(r, written).lag = lag /\ Outdated(r, written).expoStale = es
      /\ Outdated(r, written).attStale = as
  <2>. HIDE DEF lag, es, as
  <2>1. QED
    BY <1>3, <1>4 DEF ThreadState
<1>. HIDE DEF lag, es, as
<1>8. QED
  BY <1>1, <1>2, <1>5, <1>6, <1>7

-----------------------------------------------------------------------------
(* One thread moves                                                        *)

OthersStep(t) ==
  /\ tickets' = tickets
  /\ \A b \in Actions \ {Subject(t)} :
       action'[b] = action[b] /\ attempt'[b] = attempt[b] /\ expo'[b] = expo[b]

(* Who may write the action of an executor that is about to record its     *)
(* Jun88 commit: nobody else, so that commit is recorded on the row it was *)
(* reserved on.                                                            *)
MayWrite(t) ==
  LET a == Subject(t) IN
  \/ Role(t) = "exec" \/ expo[a].st # "none" \/ action[a].st # "placing_jun88"
  \/ ~NoneWaiting(attempt[a])
  \/ thr[t].pc = "abort" /\ thr[t].lag = 0

StatusStep(t, written) ==
  LET a == Subject(t) IN
  /\ ActionRow \in written => MayWrite(t)
  /\ action'[a].st # action[a].st => ActionRow \in written \/ thr[t].pc = "create"
  /\ action'[a].st # action[a].st /\ action[a].st = "none" => thr[t].pc = "create"
  /\ action'[a].st = "none" => action[a].st = "none"
  /\ action[a].st \in TerminalAction => action'[a].st = action[a].st

ExposureStep(t, written) ==
  LET a == Subject(t) IN
  /\ expo'[a].st # expo[a].st =>
       /\ expo[a].st \notin {"completed", "unhedged_closed"}
       /\ (IF expo[a].st = "none" THEN ActionRow ELSE ExposureRow) \in written
  /\ expo[a].st # "none" => expo'[a].st # "none"

WaitingStep(t, written) ==
  LET a == Subject(t) IN
  \A n \in 1 .. MaxCommits :
    /\ Waiting(attempt'[a], n) /\ ~Waiting(attempt[a], n) =>
         thr[t].pc = "new" /\ thr[t].key = <<"jun88", n>>
    /\ Waiting(attempt[a], n) /\ ~Waiting(attempt'[a], n) => <<"jun88", n>> \in written

SelfStep(t, self, written) ==
  LET a == Subject(t) IN
  /\ Sees(t, self, action'[a].st, attempt'[a], expo'[a].st, tickets)
  /\ self.pc = "new" => ActionRow \in written
  /\ self.pc = "abort" /\ self.lag = 0 =>
       \A u \in Threads : u # t /\ Subject(u) = a => thr[u].pc # "new"
  /\ action'[a].st = "none" => self.pc \in {"idle", "create"}

SecureStep(t, self) ==
  LET a == Subject(t) IN
  /\ action'[a].resv = "none" /\ Secured(a) => action[a].resv = "none"
  /\ action[a].st \notin TerminalAction /\ (expo'[a].st # "none" \/ self.pc = "new") =>
       Secured(a)

(* An executor about to record a Jun88 commit is alone with its action.    *)
LEMMA AboutToCommit ==
  ASSUME SafetyInv, NEW u \in Threads, thr[u].pc = "new", thr[u].key[1] = "jun88"
  PROVE  LET a == Subject(u) IN
         /\ Role(u) = "exec" /\ thr[u].lag = 0 /\ action[a].st = "placing_jun88"
         /\ NoneWaiting(attempt[a]) /\ expo[a].st = "none"
<1>1. Sees(u, thr[u], action[Subject(u)].st, attempt[Subject(u)], expo[Subject(u)].st, tickets)
  BY DEF SafetyInv, VerdictInv, ThreadsSee
<1>2. /\ Role(u) = "exec" /\ thr[u].lag = 0 /\ action[Subject(u)].st = "placing_jun88"
      /\ NoneWaiting(attempt[Subject(u)])
  BY <1>1 DEF Sees, KnowsRole, KnowsStatus, KnowsAttempt, CommitPoints
<1>3. expo[Subject(u)].st # "none" => action[Subject(u)].st \in Exposed
  BY ThreadFacts DEF SafetyInv, VerdictInv, RowsAgree, RowsOf
<1>4. QED
  BY <1>2, <1>3, StatusFacts

(* Whoever writes the action row meets no other thread about to record a   *)
(* Jun88 commit.                                                           *)
LEMMA NobodyElse ==
  ASSUME SafetyInv, NEW t \in Threads, MayWrite(t), NEW u \in Threads, u # t,
         Subject(u) = Subject(t)
  PROVE  ~(thr[u].pc = "new" /\ thr[u].key[1] = "jun88")
<1>. SUFFICES ASSUME thr[u].pc = "new", thr[u].key[1] = "jun88"
              PROVE  FALSE
  OBVIOUS
<1>1. /\ Role(u) = "exec" /\ action[Subject(t)].st = "placing_jun88"
      /\ NoneWaiting(attempt[Subject(t)]) /\ expo[Subject(t)].st = "none"
  BY AboutToCommit
<1>2. Role(t) # "exec"
  BY <1>1, OneThread
<1>3. thr[t].pc = "abort" /\ thr[t].lag = 0
  BY <1>1, <1>2 DEF MayWrite
<1>4. QED
  BY <1>3 DEF SafetyInv, VerdictInv, NoLateCommit

(* What the step leaves of another thread's knowledge.                     *)
LEMMA OtherSees ==
  ASSUME SafetyInv, NEW t \in Threads, NEW self \in ThreadState, NEW written,
         Advance(t, self, written), OthersStep(t), StatusStep(t, written),
         ExposureStep(t, written), WaitingStep(t, written), NEW u \in Threads, u # t
  PROVE  Sees(u, thr'[u], action'[Subject(u)].st, attempt'[Subject(u)], expo'[Subject(u)].st, tickets)
<1>. DEFINE a == Subject(t)
            r == thr[u]
            s == thr'[u]
<1>1. Sees(u, r, action[Subject(u)].st, attempt[Subject(u)], expo[Subject(u)].st, tickets)
  BY DEF SafetyInv, VerdictInv, ThreadsSee
<1>2. TypeOK /\ Subject(u) \in Actions
  BY ThreadFacts DEF SafetyInv, IInv
<1>3. CASE Subject(u) # a
  BY <1>1, <1>2, <1>3, OthersAfter DEF OthersStep
<1>4. CASE Subject(u) = a /\ r.pc = "idle"
  <2>1. s.pc = "idle"
    BY <1>2, <1>4, AdvanceFacts
  <2>2. QED
    BY <2>1 DEF Sees, KnowsRole, KnowsStatus, KnowsExposure, KnowsAttempt, HoldsTicket,
                ExecutorPoints, CommitPoints, UnknownPoints, AttemptPoints, CompletionPoints,
                EvidencePoints
<1>5. CASE Subject(u) = a /\ r.pc # "idle"
  <2>. USE <1>5
  <2>1. s.pc = r.pc /\ s.key = r.key
    BY <1>2, AdvanceFacts
  <2>2. /\ s.lag = 0 => r.lag = 0 /\ ActionRow \notin written
        /\ ~s.expoStale => ~r.expoStale /\ ExposureRow \notin written
        /\ ~s.attStale => ~r.attStale /\ r.key \notin written
    BY <1>2, OthersAfter
  <2>3. /\ KnowsRole(u, r) /\ KnowsStatus(r, action[a].st) /\ KnowsExposure(r, expo[a].st)
        /\ KnowsAttempt(r, attempt[a]) /\ HoldsTicket(u, r, tickets)
    BY <1>1 DEF Sees
  <2>4. action[a].st = "none" => thr[t].pc \in {"idle", "create"} /\ r.pc = "create"
    BY <1>2 DEF SafetyInv, VerdictInv, RowsAgree, Quiet
  <2>5. r.pc = "create" => thr[t].pc # "create"
    <3>1. ASSUME r.pc = "create", thr[t].pc = "create"
          PROVE  Role(t) = "exec" /\ Role(u) = "exec"
      BY <3>1 DEF SafetyInv, VerdictInv, ThreadsSee, Sees, KnowsRole, ExecutorPoints
    <3>2. QED
      BY <3>1, OneThread
  <2>6. action'[a].st # action[a].st => ActionRow \in written /\ action[a].st # "none"
    <3>1. thr[t].pc = "create" => action[a].st = "none"
      BY DEF SafetyInv, VerdictInv, ThreadsSee, Sees, KnowsStatus
    <3>2. thr[t].pc # "create"
      BY <2>4, <2>5, <3>1
    <3>3. QED
      BY <3>2 DEF StatusStep
  <2>7. KnowsRole(u, s)
    BY <2>1, <2>3 DEF KnowsRole
  <2>8. KnowsStatus(s, action'[a].st)
    <3>1. s.pc = "create" => action'[a].st = "none"
      BY <2>1, <2>3, <2>6 DEF KnowsStatus
    <3>2. s.pc = "release" => action'[a].st \in TerminalAction
      BY <2>1, <2>3 DEF KnowsStatus, StatusStep
    <3>3. s.pc = "new" /\ s.key[1] = "jun88" => s.lag = 0
      <4>1. ASSUME r.pc = "new", r.key[1] = "jun88"
            PROVE  ActionRow \notin written /\ r.lag = 0
        BY <2>3, <4>1, NobodyElse DEF StatusStep, KnowsStatus
      <4>2. ActionRow \notin written => s.lag = r.lag
        BY <1>2 DEF Advance, Outdated, TypeOK, ThreadState
      <4>3. QED
        BY <2>1, <4>1, <4>2
    <3>4. s.lag = 0 => action'[a].st = action[a].st
      BY <2>2, <2>6
    <3>5. QED
      BY <2>1, <2>2, <2>3, <3>1, <3>2, <3>3, <3>4 DEF KnowsStatus
  <2>9. KnowsExposure(s, expo'[a].st)
    <3>1. ~s.expoStale => expo'[a].st = expo[a].st \/ expo[a].st = "none"
      BY <2>2 DEF ExposureStep
    <3>2. s.lag = 0 /\ expo[a].st = "none" => expo'[a].st = "none"
      BY <2>2 DEF ExposureStep
    <3>3. s.pc = "abort" /\ s.lag = 0 => expo'[a].st = "none"
      BY <2>1, <2>2, <2>3, <3>2 DEF KnowsExposure
    <3>4. ~s.expoStale =>
            /\ s.pc \in {"placing", "hedge_renew"} => expo'[a].st = "hedging"
            /\ s.pc \in {"resolve"} \cup EvidencePoints =>
                 expo'[a].st \in {"exposure_open", "submission_unknown", "manual_review"}
      BY <2>1, <2>2, <2>3, <3>1 DEF KnowsExposure
    <3>5. /\ s.pc \in UnknownPoints => expo'[a].st # "none"
          /\ s.pc = "complete" => expo'[a].st = "completed"
          /\ s.pc = "close_action" => expo'[a].st = "unhedged_closed"
      BY <2>1, <2>3 DEF KnowsExposure, ExposureStep
    <3>6. QED
      BY <3>3, <3>4, <3>5 DEF KnowsExposure
  <2>10. KnowsAttempt(s, attempt'[a])
    <3>1. ASSUME s.pc \in AttemptPoints, s.key[1] = "jun88", ~s.attStale
          PROVE  Waiting(attempt'[a], s.key[2])
      <4>1. r.key \in Keys
        BY <2>1, <3>1 DEF SafetyInv, IInv, ThreadsFit, Fits, KnowsKey, AttemptPoints,
              KeyedPoints, CommitPoints, ReconcilePoints, TicketPoints
      <4>2. r.key = <<"jun88", r.key[2]>> /\ r.key[2] \in 1 .. MaxCommits
        BY <2>1, <3>1, <4>1 DEF Keys
      <4>3. Waiting(attempt[a], r.key[2]) /\ r.key \notin written
        BY <2>1, <2>2, <2>3, <3>1 DEF KnowsAttempt
      <4>4. QED
        BY <2>1, <4>2, <4>3 DEF WaitingStep
    <3>2. ASSUME s.pc \in {"jun_renew", "jun_changed", "new", "abort"}, s.lag = 0
          PROVE  NoneWaiting(attempt'[a])
      <4>1. NoneWaiting(attempt[a])
        BY <2>1, <2>2, <2>3, <3>2 DEF KnowsAttempt
      <4>2. ASSUME NEW n \in 1 .. MaxCommits, Waiting(attempt'[a], n)
            PROVE  FALSE
        <5>1. thr[t].pc = "new" /\ thr[t].key[1] = "jun88"
          <6>1. ~Waiting(attempt[a], n)
            BY <4>1 DEF NoneWaiting
          <6>2. thr[t].pc = "new" /\ thr[t].key = <<"jun88", n>>
            BY <4>2, <6>1 DEF WaitingStep
          <6>3. QED
            BY <6>2
        <5>2. Role(t) = "exec" /\ expo[a].st = "none"
          BY <5>1, AboutToCommit
        <5>3. r.pc # "abort"
          BY <2>1, <2>2, <3>2, <5>1 DEF SafetyInv, VerdictInv, NoLateCommit
        <5>4. Role(u) # "exec"
          BY <5>2, OneThread
        <5>5. r.pc = "new" /\ r.key[1] # "jun88"
          BY <2>1, <2>3, <3>2, <5>3, <5>4 DEF KnowsRole, ExecutorPoints, CommitPoints
        <5>6. r.key \in Keys /\ (r.key[1] = "8xbet" => expo[a].st # "none")
          BY <5>5 DEF SafetyInv, IInv, ThreadsFit, Fits, KnowsKey, KeyedPoints, CommitPoints,
                      Subject
        <5>7. QED
          BY <5>2, <5>5, <5>6 DEF Keys, Bookmakers
      <4>3. QED
        BY <4>2 DEF NoneWaiting
    <3>3. QED
      BY <3>1, <3>2 DEF KnowsAttempt
  <2>11. HoldsTicket(u, s, tickets)
    BY <2>1, <2>3 DEF HoldsTicket
  <2>12. QED
    BY <2>7, <2>8, <2>9, <2>10, <2>11 DEF Sees
<1>6. QED
  BY <1>3, <1>4, <1>5

(* Threads and rows after a step.                                          *)
LEMMA KnowledgeKept ==
  ASSUME SafetyInv, NEW t \in Threads, NEW self \in ThreadState, NEW written,
         Advance(t, self, written), OthersStep(t), StatusStep(t, written),
         ExposureStep(t, written), WaitingStep(t, written), SelfStep(t, self, written),
         LET a == Subject(t) IN RowsOf(a, action'[a].st, attempt'[a], expo'[a], tickets)
  PROVE  ThreadsSee' /\ RowsAgree' /\ NoLateCommit(thr')
<1>. DEFINE a == Subject(t)
<1>1. /\ thr'[t] = self
      /\ \A u \in Threads : u # t => thr'[u].pc = thr[u].pc
      /\ TypeOK /\ a \in Actions /\ tickets' = tickets
  BY AdvanceFacts, ThreadFacts DEF SafetyInv, IInv, OthersStep
<1>2. ThreadsSee'
  <2>. SUFFICES ASSUME NEW u \in Threads
                PROVE  Sees(u, thr'[u], action'[Subject(u)].st, attempt'[Subject(u)],
                            expo'[Subject(u)].st, tickets)
    BY <1>1 DEF ThreadsSee
  <2>1. CASE u = t
    BY <1>1, <2>1 DEF SelfStep
  <2>2. CASE u # t
    BY <2>2, OtherSees
  <2>3. QED
    BY <2>1, <2>2
<1>3. RowsAgree'
  <2>. SUFFICES ASSUME NEW b \in Actions
                PROVE  /\ RowsOf(b, action'[b].st, attempt'[b], expo'[b], tickets)
                       /\ action'[b].st = "none" => Quiet(b, thr')
    BY <1>1 DEF RowsAgree
  <2>1. RowsOf(b, action[b].st, attempt[b], expo[b], tickets)
        /\ (action[b].st = "none" => Quiet(b, thr))
    BY DEF SafetyInv, VerdictInv, RowsAgree
  <2>2. CASE b # a
    BY <1>1, <2>1, <2>2 DEF OthersStep, Quiet
  <2>3. CASE b = a
    <3>1. action'[a].st = "none" => action[a].st = "none"
      BY DEF StatusStep
    <3>2. QED
      BY <1>1, <2>1, <2>3, <3>1 DEF Quiet, SelfStep
  <2>4. QED
    BY <2>2, <2>3
<1>4. NoLateCommit(thr')
  <2>. SUFFICES ASSUME NEW u \in Threads, NEW v \in Threads, Subject(u) = Subject(v),
                       thr'[u].pc = "abort", thr'[u].lag = 0, thr'[v].pc = "new"
                PROVE  FALSE
    BY DEF NoLateCommit
  <2>1. CASE u = t
    BY <1>1, <2>1 DEF SelfStep
  <2>2. CASE u # t
    <3>1. thr[u].pc = "abort" /\ thr[u].lag = 0
      BY <1>1, <2>2, OthersAfter
    <3>2. CASE v = t
      BY <1>1, <2>2, <3>1, <3>2, OthersAfter DEF SelfStep
    <3>3. CASE v # t
      BY <1>1, <3>1, <3>3 DEF SafetyInv, VerdictInv, NoLateCommit
    <3>4. QED
      BY <3>2, <3>3
  <2>3. QED
    BY <2>1, <2>2
<1>5. QED
  BY <1>2, <1>3, <1>4

(* A secured action blocks the account.                                    *)
LEMMA SecuredBlocks ==
  ASSUME SafetyInv, NEW b \in Actions, Secured(b)
  PROVE  /\ action[b].st \in ReservationBlocking /\ action[b].st \notin TerminalAction
         /\ action[b].resv # "none"
<1>1. RowsOf(b, action[b].st, attempt[b], expo[b], tickets)
  BY DEF SafetyInv, VerdictInv, RowsAgree
<1>2. action[b].st \notin TerminalAction /\ action[b].resv # "none"
  BY DEF Secured, SafetyInv, VerdictInv, OneSecured
<1>3. CASE expo[b].st # "none"
  BY <1>1, <1>2, <1>3, StatusFacts DEF RowsOf
<1>4. ASSUME NEW n \in 1 .. MaxCommits, Waiting(attempt[b], n)
      PROVE  action[b].st \notin Uncommitted
  BY <1>1, <1>4 DEF RowsOf, NoneWaiting
<1>5. ASSUME NEW t \in Threads, Subject(t) = b, thr[t].pc = "new"
      PROVE  action[b].st = "placing_jun88" \/ expo[b].st # "none"
  <2>1. thr[t].key \in Keys /\ (thr[t].key[1] = "8xbet" => expo[b].st # "none")
    BY <1>5 DEF SafetyInv, IInv, ThreadsFit, Fits, KnowsKey, KeyedPoints, CommitPoints, Subject
  <2>2. thr[t].key[1] = "jun88" \/ thr[t].key[1] = "8xbet"
    BY <2>1 DEF Keys, Bookmakers
  <2>3. QED
    BY <1>5, <2>1, <2>2, AboutToCommit
<1>6. action[b].st \in ActionStatus \cup {"none"}
  BY DEF SafetyInv, IInv, TypeOK, ActionState
<1>7. "none" \in Uncommitted
  BY DEF Uncommitted
<1>8. QED
  BY <1>2, <1>3, <1>4, <1>5, <1>6, <1>7, StatusFacts DEF Secured

(* A step that secures nothing leaves the account to whoever has it.       *)
LEMMA AccountKept ==
  ASSUME SafetyInv, NEW t \in Threads, NEW self \in ThreadState, NEW written,
         Advance(t, self, written), OthersStep(t), StatusStep(t, written),
         WaitingStep(t, written), SecureStep(t, self)
  PROVE  OneSecured'
<1>. DEFINE a == Subject(t)
<1>1. /\ thr'[t] = self
      /\ \A u \in Threads : u # t => thr'[u].pc = thr[u].pc
      /\ a \in Actions
  BY AdvanceFacts, ThreadFacts DEF SafetyInv, IInv
<1>2. ASSUME NEW c \in Actions, Secured(c)'
      PROVE  Secured(c)
  <2>1. CASE c # a
    BY <1>1, <1>2, <2>1 DEF Secured, OthersStep
  <2>2. CASE c = a
    <3>1. action[a].st \notin TerminalAction
      BY <1>2, <2>2 DEF Secured, StatusStep
    <3>2. CASE expo'[a].st # "none"
      BY <2>2, <3>1, <3>2 DEF SecureStep
    <3>3. ASSUME NEW n \in 1 .. MaxCommits, Waiting(attempt'[a], n)
          PROVE  Secured(a)
      BY <3>1, <3>3 DEF WaitingStep, Secured
    <3>4. ASSUME NEW u \in Threads, Subject(u) = a, thr'[u].pc = "new"
          PROVE  Secured(a)
      <4>1. CASE u = t
        BY <1>1, <3>1, <3>4, <4>1 DEF SecureStep
      <4>2. CASE u # t
        BY <1>1, <3>1, <3>4, <4>2 DEF Secured
      <4>3. QED
        BY <4>1, <4>2
    <3>5. QED
      BY <1>2, <2>2, <3>2, <3>3, <3>4 DEF Secured
  <2>3. QED
    BY <2>1, <2>2
<1>3. ASSUME NEW c \in Actions, Secured(c)
      PROVE  action'[c].resv # "none"
  BY <1>3, SecuredBlocks DEF SecureStep, OthersStep
<1>4. QED
  BY <1>2, <1>3 DEF OneSecured, SafetyInv, VerdictInv

(* The two together: all that a step of one thread owes.                   *)
LEMMA StepKeeps ==
  ASSUME SafetyInv, NEW t \in Threads, NEW self \in ThreadState, NEW written,
         Advance(t, self, written), OthersStep(t), StatusStep(t, written),
         ExposureStep(t, written), WaitingStep(t, written), SelfStep(t, self, written),
         LET a == Subject(t) IN RowsOf(a, action'[a].st, attempt'[a], expo'[a], tickets),
         SecureStep(t, self)
  PROVE  VerdictInv'
  BY KnowledgeKept, AccountKept DEF VerdictInv

-----------------------------------------------------------------------------
(* The ways a step saves rows                                              *)

(* Points a thread may reach whatever the rows are.                        *)
PlainPoints ==
  {"idle", "unlease", "evaluate", "hedging", "hedge_changed", "hedge_reprice",
   "hedge_rejected", "open", "open_action", "hedge_unknown_attempt", "lease", "match",
   "hedge_reserve", "hedge_prepare", "close", "rec_jun_open", "rec_read", "rec_reopen",
   "reopen"}

(* At those points there is nothing to know.                               *)
LEMMA PlainSees ==
  ASSUME NEW t, NEW r, NEW ac, NEW at, NEW ex, NEW tk, r.pc \in PlainPoints
  PROVE  Sees(t, r, ac, at, ex, tk) /\ r.pc \notin {"new", "abort"}
  BY DEF PlainPoints, Sees, KnowsRole, KnowsStatus, KnowsExposure, KnowsAttempt, HoldsTicket,
         ExecutorPoints, CommitPoints, UnknownPoints, AttemptPoints, CompletionPoints,
         EvidencePoints

(* A thread at work works on an action that is there.                      *)
LEMMA Started ==
  ASSUME SafetyInv, NEW t \in Threads, thr[t].pc \notin {"idle", "create"}
  PROVE  action[Subject(t)].st # "none"
  BY ThreadFacts DEF SafetyInv, VerdictInv, RowsAgree, Quiet

(* What the invariant says of one thread and of its action.                *)
LEMMA InvOf ==
  ASSUME SafetyInv, NEW t \in Threads
  PROVE  /\ IInv /\ TypeOK /\ thr[t] \in ThreadState /\ Subject(t) \in Actions
         /\ Fits(t, thr[t], expo, tickets)
         /\ Sees(t, thr[t], action[Subject(t)].st, attempt[Subject(t)], expo[Subject(t)].st,
                 tickets)
         /\ RowsOf(Subject(t), action[Subject(t)].st, attempt[Subject(t)], expo[Subject(t)],
                   tickets)
  BY ThreadFacts DEF SafetyInv, VerdictInv, IInv, TypeOK, ThreadsFit, ThreadsSee, RowsAgree

(* A step that leaves the rows as they are.                                *)
LEMMA ThreadGoes ==
  ASSUME SafetyInv, NEW t \in Threads, NEW self \in ThreadState, NEW written,
         Advance(t, self, written), ActionRow \notin written,
         UNCHANGED <<action, attempt, expo, tickets>>,
         self.pc \notin {"new", "abort"},
         self.pc \in {"idle", "create"} \/ action[Subject(t)].st # "none",
         Sees(t, self, action[Subject(t)].st, attempt[Subject(t)], expo[Subject(t)].st, tickets)
  PROVE  VerdictInv'
<1>1. OthersStep(t) /\ StatusStep(t, written) /\ ExposureStep(t, written)
  BY DEF OthersStep, StatusStep, ExposureStep
<1>2. WaitingStep(t, written) /\ SelfStep(t, self, written)
  BY DEF WaitingStep, SelfStep
<1>3. SecureStep(t, self)
  BY DEF SecureStep, Secured
<1>4. QED
  BY <1>1, <1>2, <1>3, StepKeeps, InvOf

(* A thread that returns.                                                  *)
LEMMA ReturnedSees ==
  ASSUME NEW t \in Threads, NEW ac, NEW at, NEW ex, NEW tk
  PROVE  /\ Sees(t, Returned(t), ac, at, ex, tk) /\ Returned(t) \in ThreadState
         /\ Returned(t).pc \in PlainPoints /\ Goto(t, "return") = Returned(t)
         /\ Sees(t, Idle, ac, at, ex, tk) /\ Idle \in ThreadState /\ Idle.pc \in PlainPoints
         /\ Idle.pc = "idle"
<1>1. Returned(t).pc \in PlainPoints /\ Idle.pc \in PlainPoints /\ Idle.pc = "idle"
  BY IdleFacts DEF PlainPoints, Idle
<1>2. QED
  BY <1>1, IdleFacts, PlainSees DEF Goto

(* It can return from anywhere, having written nothing of the action.      *)
LEMMA ThreadReturns ==
  ASSUME SafetyInv, NEW t \in Threads, NEW written,
         Advance(t, Returned(t), written) \/ Advance(t, Idle, written), ActionRow \notin written,
         UNCHANGED <<action, attempt, expo, tickets>>, thr[t].pc \notin {"idle", "create"}
  PROVE  VerdictInv'
<1>1. action[Subject(t)].st # "none"
  BY Started
<1>2. CASE Advance(t, Returned(t), written)
  <2>. DEFINE self == Returned(t)
  <2>1. self \in ThreadState /\ self.pc \notin {"new", "abort"}
        /\ Sees(t, self, action[Subject(t)].st, attempt[Subject(t)], expo[Subject(t)].st, tickets)
    BY ReturnedSees, PlainSees
  <2>. HIDE DEF self
  <2>2. QED
    BY <1>1, <1>2, <2>1, ThreadGoes DEF self
<1>3. CASE Advance(t, Idle, written)
  <2>1. Idle \in ThreadState /\ Idle.pc \notin {"new", "abort"}
        /\ Sees(t, Idle, action[Subject(t)].st, attempt[Subject(t)], expo[Subject(t)].st, tickets)
    BY ReturnedSees, PlainSees
  <2>2. QED
    BY <1>1, <1>3, <2>1, ThreadGoes
<1>4. QED
  BY <1>2, <1>3

(* A step that saves the action row, in status to.                         *)
LEMMA ActionGoes ==
  ASSUME SafetyInv, NEW t \in Threads, NEW self \in ThreadState,
         Advance(t, self, {ActionRow}), MayWrite(t), NEW row,
         action' = [action EXCEPT ![Subject(t)] = row],
         row.resv = "none" /\ Secured(Subject(t)) => action[Subject(t)].resv = "none",
         \/ row.st = action[Subject(t)].st
         \/ action[Subject(t)].st \notin TerminalAction /\ row.st # "none",
         UNCHANGED <<attempt, expo, tickets>>,
         self.pc \notin {"new", "abort"}, thr[t].pc \notin {"idle", "create"},
         Sees(t, self, row.st, attempt[Subject(t)], expo[Subject(t)].st, tickets),
         RowsOf(Subject(t), row.st, attempt[Subject(t)], expo[Subject(t)], tickets)
  PROVE  VerdictInv'
<1>. DEFINE a == Subject(t)
<1>1. action'[a] = row /\ \A b \in Actions \ {a} : action'[b] = action[b]
  BY InvOf DEF TypeOK
<1>2. action[a].st # "none"
  BY Started
<1>3. OthersStep(t)
  BY <1>1 DEF OthersStep
<1>4. StatusStep(t, {ActionRow})
  BY <1>1, <1>2 DEF StatusStep
<1>5. ExposureStep(t, {ActionRow}) /\ WaitingStep(t, {ActionRow})
  BY DEF ExposureStep, WaitingStep
<1>6. SelfStep(t, self, {ActionRow})
  BY <1>1, <1>2 DEF SelfStep
<1>7. SecureStep(t, self)
  BY <1>1 DEF SecureStep, Secured
<1>8. QED
  BY <1>1, <1>3, <1>4, <1>5, <1>6, <1>7, StepKeeps

(* How the rows agree after a transition of the action.                    *)
LEMMA RowsMove ==
  ASSUME NEW a, NEW s, NEW to, NEW at, NEW ex, NEW tk, RowsOf(a, s, at, ex, tk),
         <<s, to>> \in ActionMoves,
         to \in Uncommitted => NoneWaiting(at) /\ ex.st = "none",
         to = "completed" => ex.st = "completed",
         to \in TerminalAction => ex.st \in {"none", "completed", "unhedged_closed"}
  PROVE  RowsOf(a, to, at, ex, tk)
  BY ActionMovesFacts DEF RowsOf

(* A step that moves the action, or returns when it cannot.                *)
LEMMA Transition ==
  ASSUME SafetyInv, NEW t \in Threads, NEW to, NEW p \in Points \cup {"return"},
         TransitionAction(t, to, p), UNCHANGED <<attempt, expo, tickets>>,
         p \notin {"new", "abort"}, thr[t].pc \notin {"idle", "create"},
         CanMoveAction(t, to) =>
           /\ MayWrite(t)
           /\ Sees(t, Goto(t, p), to, attempt[Subject(t)], expo[Subject(t)].st, tickets)
           /\ to \in Uncommitted =>
                NoneWaiting(attempt[Subject(t)]) /\ expo[Subject(t)].st = "none"
           /\ to = "completed" => expo[Subject(t)].st = "completed"
           /\ to \in TerminalAction =>
                expo[Subject(t)].st \in {"none", "completed", "unhedged_closed"}
  PROVE  VerdictInv'
<1>. DEFINE a == Subject(t)
            self == Goto(t, p)
            row == [action[a] EXCEPT !.st = to, !.link = thr[t].link]
<1>1. CASE ~CanMoveAction(t, to)
  <2>1. Advance(t, Returned(t), {}) /\ UNCHANGED action
    BY <1>1 DEF TransitionAction
  <2>2. QED
    BY <2>1, ThreadReturns
<1>2. CASE CanMoveAction(t, to)
  <2>1. action' = [action EXCEPT ![a] = row] /\ Advance(t, self, {ActionRow})
    BY <1>2 DEF TransitionAction, Moved
  <2>2. action[a] \in ActionState
    BY InvOf DEF TypeOK
  <2>3. row.st = to /\ row.resv = action[a].resv
    BY <2>2 DEF ActionState
  <2>4. <<action[a].st, to>> \in ActionMoves
    BY <1>2 DEF CanMoveAction
  <2>5. action[a].st \notin TerminalAction /\ to # "none"
    BY <2>4, ActionMovesFacts
  <2>6. RowsOf(a, to, attempt[a], expo[a], tickets)
    BY <1>2, <2>4, RowsMove, InvOf
  <2>7. self \in ThreadState /\ self.pc \notin {"new", "abort"}
    BY InvOf, GotoFields, ReturnedSees, PlainSees
  <2>8. Sees(t, self, to, attempt[a], expo[a].st, tickets) /\ MayWrite(t)
    BY <1>2
  <2>. HIDE DEF self, row
  <2>9. QED
    BY <2>1, <2>3, <2>5, <2>6, <2>7, <2>8, ActionGoes
<1>3. QED
  BY <1>1, <1>2

(* A step that takes the reservation: nobody else has anything at stake.   *)
LEMMA Reserving ==
  ASSUME SafetyInv, NEW t \in Threads, NEW self \in ThreadState, CanReserve(t),
         action' = Reserved(Subject(t)), Advance(t, self, {ActionRow}), MayWrite(t),
         UNCHANGED <<attempt, expo, tickets>>,
         self.pc # "abort", thr[t].pc \notin {"idle", "create"},
         Sees(t, self, action[Subject(t)].st, attempt[Subject(t)], expo[Subject(t)].st, tickets)
  PROVE  VerdictInv'
<1>. DEFINE a == Subject(t)
<1>1. action[a] \in ActionState /\ a \in Actions
  BY InvOf DEF TypeOK
<1>2. /\ action'[a].st = action[a].st /\ action'[a].resv = "mine"
      /\ \A b \in Actions \ {a} : action'[b] = action[b]
  BY <1>1, InvOf DEF Reserved, TypeOK, ActionState
<1>3. action[a].st # "none"
  BY Started
<1>4. OthersStep(t) /\ StatusStep(t, {ActionRow})
  BY <1>2, <1>3 DEF OthersStep, StatusStep
<1>5. ExposureStep(t, {ActionRow}) /\ WaitingStep(t, {ActionRow})
  BY DEF ExposureStep, WaitingStep
<1>6. SelfStep(t, self, {ActionRow})
  BY <1>2, <1>3 DEF SelfStep
<1>7. RowsOf(a, action'[a].st, attempt'[a], expo'[a], tickets)
  BY <1>2, InvOf
<1>8. ThreadsSee' /\ RowsAgree' /\ NoLateCommit(thr')
  BY <1>4, <1>5, <1>6, <1>7, KnowledgeKept
<1>9. ASSUME NEW c \in Actions, Secured(c)'
      PROVE  c = a
  <2>. SUFFICES ASSUME c # a
                PROVE  FALSE
    OBVIOUS
  <2>1. \A u \in Threads : Subject(u) = c => thr'[u].pc = thr[u].pc
    BY InvOf, AdvanceFacts
  <2>2. Secured(c)
    BY <1>2, <1>9, <2>1 DEF Secured
  <2>3. OthersHold(a)
    BY <2>2, SecuredBlocks DEF OthersHold
  <2>4. QED
    BY <2>3 DEF CanReserve
<1>10. OneSecured'
  BY <1>2, <1>9 DEF OneSecured
<1>11. QED
  BY <1>8, <1>10 DEF VerdictInv

(* A step that saves the exposure, as it was or with another status.       *)
LEMMA ExposureGoes ==
  ASSUME SafetyInv, NEW t \in Threads, NEW self \in ThreadState,
         Advance(t, self, {ExposureRow}), NEW row,
         expo' = [expo EXCEPT ![Subject(t)] = row],
         \/ row.st = expo[Subject(t)].st /\ row.hedge = expo[Subject(t)].hedge
         \/ /\ expo[Subject(t)].st \notin {"none", "completed", "unhedged_closed"}
            /\ row.st # "none"
            /\ row.st = "completed" => <<Subject(t), "8xbet", row.hedge>> \in tickets,
         UNCHANGED <<action, attempt, tickets>>,
         self.pc \notin {"new", "abort"}, thr[t].pc \notin {"idle", "create"},
         Sees(t, self, action[Subject(t)].st, attempt[Subject(t)], row.st, tickets)
  PROVE  VerdictInv'
<1>. DEFINE a == Subject(t)
            old == expo[a]
<1>1. expo'[a] = row /\ \A b \in Actions \ {a} : expo'[b] = expo[b]
  BY InvOf DEF TypeOK
<1>2. action[a].st # "none"
  BY Started
<1>3. OthersStep(t) /\ StatusStep(t, {ExposureRow})
  BY <1>1 DEF OthersStep, StatusStep, ActionRow, ExposureRow
<1>4. ExposureStep(t, {ExposureRow}) /\ WaitingStep(t, {ExposureRow})
  BY <1>1 DEF ExposureStep, WaitingStep
<1>5. self.pc \in {"idle", "create"} \/ action[a].st # "none"
  BY <1>2
<1>6. SelfStep(t, self, {ExposureRow})
  BY <1>1, <1>5 DEF SelfStep
<1>7. RowsOf(a, action[a].st, attempt[a], old, tickets)
  BY InvOf
<1>8. RowsOf(a, action[a].st, attempt[a], row, tickets)
  BY <1>7 DEF RowsOf, TerminalAction
<1>9. SecureStep(t, self)
  <2>1. row.st # "none" => old.st # "none"
    OBVIOUS
  <2>2. QED
    BY <1>1, <2>1 DEF SecureStep, Secured
<1>10. QED
  BY <1>1, <1>3, <1>4, <1>6, <1>8, <1>9, StepKeeps

(* The exposure saved with the status it has.                              *)
LEMMA ExposureSaved ==
  ASSUME SafetyInv, NEW t \in Threads, NEW p \in PlainPoints, SaveExposure(t, p),
         UNCHANGED <<action, attempt, tickets>>, thr[t].pc \notin {"idle", "create"}
  PROVE  VerdictInv'
<1>1. UNCHANGED <<action, attempt, expo, tickets>> /\ action[Subject(t)].st # "none"
  BY Started DEF SaveExposure
<1>2. CASE thr[t].expoStale
  BY <1>1, <1>2, ThreadReturns DEF SaveExposure
<1>3. CASE ~thr[t].expoStale
  <2>. DEFINE self == Goto(t, p)
  <2>1. Advance(t, self, {ExposureRow}) /\ ActionRow \notin {ExposureRow}
    BY <1>3 DEF SaveExposure, ActionRow, ExposureRow
  <2>2. p \in Points
    BY DEF PlainPoints, Points
  <2>3. self \in ThreadState /\ self.pc = p
    BY <2>2, GotoFields, InvOf
  <2>. HIDE DEF self
  <2>4. /\ Sees(t, self, action[Subject(t)].st, attempt[Subject(t)], expo[Subject(t)].st,
                tickets)
        /\ self.pc \notin {"new", "abort"}
    BY <2>3, PlainSees
  <2>5. QED
    BY <1>1, <2>1, <2>3, <2>4, ThreadGoes
<1>4. QED
  BY <1>2, <1>3

(* A step that moves the exposure, or returns when it cannot.              *)
LEMMA ExposureTransition ==
  ASSUME SafetyInv, NEW t \in Threads, NEW to \in ExposureStatus \ {"completed"},
         NEW p \in Points \cup {"return"}, TransitionExposure(t, to, p),
         UNCHANGED <<action, attempt, tickets>>,
         p \notin {"new", "abort"}, thr[t].pc \notin {"idle", "create"},
         CanMoveExposure(t, to) =>
           Sees(t, Goto(t, p), action[Subject(t)].st, attempt[Subject(t)], to, tickets)
  PROVE  VerdictInv'
<1>. DEFINE a == Subject(t)
            self == Goto(t, p)
            row == [expo[a] EXCEPT !.st = to]
<1>1. CASE ~CanMoveExposure(t, to)
  BY <1>1, ThreadReturns DEF TransitionExposure
<1>2. CASE CanMoveExposure(t, to)
  <2>1. expo' = [expo EXCEPT ![a] = row] /\ Advance(t, self, {ExposureRow})
    BY <1>2 DEF TransitionExposure
  <2>2. expo[a] \in ExposureState
    BY InvOf DEF TypeOK
  <2>3. row.st = to
    BY <2>2 DEF ExposureState
  <2>4. expo[a].st \notin {"none", "completed", "unhedged_closed"}
    BY <1>2, ExposureMovesFacts DEF CanMoveExposure
  <2>5. to # "none"
    BY DEF ExposureStatus
  <2>6. self \in ThreadState /\ self.pc \notin {"new", "abort"}
    BY InvOf, GotoFields, ReturnedSees, PlainSees
  <2>7. Sees(t, self, action[a].st, attempt[a], to, tickets)
    BY <1>2
  <2>. HIDE DEF self, row
  <2>8. QED
    BY <2>1, <2>3, <2>4, <2>5, <2>6, <2>7, ExposureGoes
<1>3. QED
  BY <1>1, <1>2

(* An unanswered Jun88 commit: the only one of its action, which has no    *)
(* exposure and no executor about to record another.                       *)
LEMMA OneWaiting ==
  ASSUME SafetyInv, NEW t \in Threads, NEW n \in 1 .. MaxCommits,
         Waiting(attempt[Subject(t)], n)
  PROVE  /\ \A m \in 1 .. MaxCommits : Waiting(attempt[Subject(t)], m) => m = n
         /\ expo[Subject(t)].st = "none" /\ action[Subject(t)].st \notin Uncommitted
         /\ \A u \in Threads : Subject(u) = Subject(t) => thr[u].pc # "new"
<1>1. RowsOf(Subject(t), action[Subject(t)].st, attempt[Subject(t)], expo[Subject(t)], tickets)
  BY InvOf
<1>2. /\ \A m \in 1 .. MaxCommits : Waiting(attempt[Subject(t)], m) => m = n
      /\ expo[Subject(t)].st = "none" /\ action[Subject(t)].st \notin Uncommitted
  BY <1>1 DEF RowsOf, NoneWaiting
<1>3. ASSUME NEW u \in Threads, Subject(u) = Subject(t), thr[u].pc = "new"
      PROVE  FALSE
  <2>1. thr[u].key \in Keys /\ (thr[u].key[1] = "8xbet" => expo[Subject(u)].st # "none")
    BY <1>3, InvOf DEF Fits, KnowsKey, KeyedPoints, CommitPoints, Subject
  <2>2. thr[u].key[1] = "jun88"
    BY <1>2, <1>3, <2>1 DEF Keys, Bookmakers
  <2>3. NoneWaiting(attempt[Subject(u)])
    BY <1>3, <2>2, AboutToCommit
  <2>4. QED
    BY <1>3, <2>3 DEF NoneWaiting
<1>4. QED
  BY <1>2, <1>3

(* The attempts after one of them is saved.                                *)
LEMMA AttemptRow ==
  ASSUME TypeOK, NEW a \in Actions, NEW k \in Keys, NEW row,
         attempt' = [attempt EXCEPT ![a][k] = row]
  PROVE  /\ attempt'[a][k] = row
         /\ \A j \in Keys \ {k} : attempt'[a][j] = attempt[a][j]
         /\ \A b \in Actions \ {a} : attempt'[b] = attempt[b]
         /\ \A n \in 1 .. MaxCommits :
              /\ <<"jun88", n>> \in Keys
              /\ k # <<"jun88", n>> => (Waiting(attempt'[a], n) <=> Waiting(attempt[a], n))
              /\ k = <<"jun88", n>> => (Waiting(attempt'[a], n) <=> row.st \in Unsettled)
<1>1. attempt \in [Actions -> [Keys -> AttemptState]]
  BY DEF TypeOK
<1>2. /\ attempt'[a][k] = row
      /\ \A j \in Keys \ {k} : attempt'[a][j] = attempt[a][j]
      /\ \A b \in Actions \ {a} : attempt'[b] = attempt[b]
  BY <1>1
<1>3. \A n \in 1 .. MaxCommits : <<"jun88", n>> \in Keys
  BY DEF Keys, Bookmakers
<1>4. QED
  BY <1>2, <1>3 DEF Waiting

(* A step that saves an attempt that was unanswered, or that is a hedge.   *)
LEMMA AttemptGoes ==
  ASSUME SafetyInv, NEW t \in Threads, NEW self \in ThreadState, NEW row,
         KeyOf(t) \in Keys, Advance(t, self, {KeyOf(t)}),
         attempt' = [attempt EXCEPT ![Subject(t)][KeyOf(t)] = row],
         KeyOf(t)[1] = "jun88" => Waiting(attempt[Subject(t)], KeyOf(t)[2]),
         UNCHANGED <<action, expo, tickets>>,
         self.pc # "new", self.pc = "abort" => KeyOf(t)[1] = "jun88",
         thr[t].pc \notin {"idle", "create"},
         Sees(t, self, action[Subject(t)].st, attempt'[Subject(t)], expo[Subject(t)].st, tickets)
  PROVE  VerdictInv'
<1>. DEFINE a == Subject(t)
            k == KeyOf(t)
<1>1. /\ TypeOK /\ a \in Actions
      /\ RowsOf(a, action[a].st, attempt[a], expo[a], tickets)
  BY InvOf
<1>2. /\ \A b \in Actions \ {a} : attempt'[b] = attempt[b]
      /\ \A n \in 1 .. MaxCommits :
           /\ k # <<"jun88", n>> => (Waiting(attempt'[a], n) <=> Waiting(attempt[a], n))
           /\ k = <<"jun88", n>> => (Waiting(attempt'[a], n) <=> row.st \in Unsettled)
  BY <1>1, AttemptRow
<1>3. action[a].st # "none"
  BY Started
<1>4. ActionRow \notin {k} /\ ExposureRow \notin {k}
  BY DEF ActionRow, ExposureRow, Keys, Bookmakers
<1>5. \A n \in 1 .. MaxCommits : Waiting(attempt'[a], n) => Waiting(attempt[a], n)
  <2>1. ASSUME NEW n \in 1 .. MaxCommits, k = <<"jun88", n>>
        PROVE  Waiting(attempt[a], n)
    <3>1. k[1] = "jun88" /\ k[2] = n
      BY <2>1
    <3>2. QED
      BY <3>1
  <2>2. QED
    BY <1>2, <2>1
<1>6. OthersStep(t) /\ StatusStep(t, {k}) /\ ExposureStep(t, {k})
  BY <1>2, <1>4 DEF OthersStep, StatusStep, ExposureStep
<1>7. WaitingStep(t, {k})
  BY <1>2, <1>5 DEF WaitingStep
<1>8. self.pc = "abort" => \A u \in Threads : Subject(u) = a => thr[u].pc # "new"
  <2>1. self.pc = "abort" => k[2] \in 1 .. MaxCommits /\ Waiting(attempt[a], k[2])
    BY DEF Keys
  <2>2. QED
    BY <2>1, OneWaiting
<1>9. SelfStep(t, self, {k})
  BY <1>3, <1>8 DEF SelfStep
<1>10. RowsOf(a, action[a].st, attempt'[a], expo[a], tickets)
  BY <1>1, <1>5 DEF RowsOf, NoneWaiting
<1>11. SecureStep(t, self)
  BY DEF SecureStep, Secured
<1>12. QED
  BY <1>6, <1>7, <1>9, <1>10, <1>11, StepKeeps

(* A thread at a point where it saves its attempt knows it is unanswered.  *)
LEMMA KnownWaiting ==
  ASSUME SafetyInv, NEW t \in Threads, KeyOf(t) \in Keys, ~thr[t].attStale,
         thr[t].pc \in AttemptPoints \/ KeyOf(t)[1] = "8xbet"
  PROVE  KeyOf(t)[1] = "jun88" => Waiting(attempt[Subject(t)], KeyOf(t)[2])
  BY InvOf DEF Sees, KnowsAttempt, KeyOf

(* An attempt is saved, or has been saved by somebody else.                *)
LEMMA AttemptSaved ==
  ASSUME SafetyInv, NEW t \in Threads, NEW st, NEW res,
         NEW p \in Points \cup {"return"}, NEW q \in Points \cup {"return"},
         SaveAttempt(t, st, res, p, q), UNCHANGED <<action, expo, tickets>>,
         KeyOf(t) \in Keys, thr[t].pc \in AttemptPoints \/ KeyOf(t)[1] = "8xbet",
         p # "new", p = "abort" => KeyOf(t)[1] = "jun88", q \notin {"new", "abort"},
         thr[t].pc \notin {"idle", "create"},
         thr[t].attStale =>
           Sees(t, Goto(t, q), action[Subject(t)].st, attempt[Subject(t)], expo[Subject(t)].st,
                tickets),
         ~thr[t].attStale =>
           Sees(t, Goto(t, p), action[Subject(t)].st, attempt'[Subject(t)], expo[Subject(t)].st,
                tickets)
  PROVE  VerdictInv'
<1>0. /\ Goto(t, p) \in ThreadState /\ Goto(t, p).pc # "new"
      /\ Goto(t, p).pc = "abort" => p = "abort"
      /\ Goto(t, q) \in ThreadState /\ Goto(t, q).pc \notin {"new", "abort"}
  BY InvOf, GotoFields, ReturnedSees, PlainSees
<1>1. CASE thr[t].attStale
  <2>. DEFINE self == Goto(t, q)
  <2>1. UNCHANGED <<action, attempt, expo, tickets>> /\ Advance(t, self, {})
        /\ action[Subject(t)].st # "none"
    BY <1>1, Started DEF SaveAttempt
  <2>2. self \in ThreadState /\ self.pc \notin {"new", "abort"}
        /\ Sees(t, self, action[Subject(t)].st, attempt[Subject(t)], expo[Subject(t)].st, tickets)
    BY <1>0, <1>1
  <2>. HIDE DEF self
  <2>3. QED
    BY <2>1, <2>2, ThreadGoes
<1>2. CASE ~thr[t].attStale
  <2>. DEFINE self == Goto(t, p)
              row == [st |-> st, res |-> res]
  <2>1. attempt' = [attempt EXCEPT ![Subject(t)][KeyOf(t)] = row]
        /\ Advance(t, self, {KeyOf(t)})
    BY <1>2 DEF SaveAttempt
  <2>2. KeyOf(t)[1] = "jun88" => Waiting(attempt[Subject(t)], KeyOf(t)[2])
    BY <1>2, KnownWaiting
  <2>3. /\ self \in ThreadState /\ self.pc # "new"
        /\ self.pc = "abort" => KeyOf(t)[1] = "jun88"
        /\ Sees(t, self, action[Subject(t)].st, attempt'[Subject(t)], expo[Subject(t)].st, tickets)
    BY <1>0, <1>2
  <2>. HIDE DEF self, row
  <2>4. QED
    BY <2>1, <2>2, <2>3, AttemptGoes
<1>3. QED
  BY <1>1, <1>2

(* CommitJun88Ticket, at a point where the ticket is known.                *)
LEMMA TicketCommitted ==
  ASSUME SafetyInv, NEW t \in Threads, NEW self \in ThreadState, CommitJun88Ticket(t, self),
         UNCHANGED tickets, self.pc \in PlainPoints, thr[t].pc \in TicketPoints
  PROVE  VerdictInv'
<1>. DEFINE a == Subject(t)
            k == KeyOf(t)
<1>1. /\ TypeOK /\ a \in Actions /\ thr[t] \in ThreadState
      /\ RowsOf(a, action[a].st, attempt[a], expo[a], tickets)
  BY InvOf
<1>2. thr[t].pc \notin {"idle", "create"} /\ thr[t].pc \in AttemptPoints
  BY DEF TicketPoints, AttemptPoints
<1>3. k \in Keys /\ k[1] = "jun88" /\ k[2] \in 1 .. MaxCommits /\ k = <<"jun88", k[2]>>
  <2>1. KnowsKey(t, thr[t], expo) /\ KnowsTicket(t, thr[t], tickets)
    BY InvOf DEF Fits
  <2>2. thr[t].key \in Keys /\ thr[t].key[1] = "jun88"
    BY <2>1 DEF KnowsKey, KnowsTicket, KeyedPoints
  <2>3. QED
    BY <2>2 DEF Keys, KeyOf
<1>4. action[a].st # "none"
  BY <1>2, Started
<1>5. CASE /\ expo[a].st = "none" /\ thr[t].lag = 0 /\ ~thr[t].attStale
           /\ action' = [action EXCEPT ![a] = [@ EXCEPT !.st = "jun88_ticket_received",
                                                       !.link = "own"]]
           /\ attempt' = [attempt EXCEPT ![a][k] =
                            [st |-> "response_received", res |-> "ticket_accepted"]]
           /\ expo' = [expo EXCEPT ![a] = [st |-> "exposure_open", leased |-> FALSE,
                                           jun |-> k[2], hedge |-> 0]]
           /\ Advance(t, [self EXCEPT !.link = "own"], {ActionRow, k})
  <2>. DEFINE s2 == [self EXCEPT !.link = "own"]
              W == {ActionRow, k}
  <2>1. s2 \in ThreadState /\ s2.pc = self.pc
    BY DEF ThreadState, Links
  <2>2. Waiting(attempt[a], k[2])
    BY <1>2, <1>3, <1>5, KnownWaiting
  <2>3. /\ \A m \in 1 .. MaxCommits : Waiting(attempt[a], m) => m = k[2]
        /\ action[a].st \notin Uncommitted
    BY <1>3, <2>2, OneWaiting
  <2>4. action[a].st \notin TerminalAction
    <3>1. action[a].st = "placing_jun88" \/ action[a].st \in Reconcilable
      BY <1>5, InvOf DEF Sees, KnowsStatus, TicketPoints
    <3>2. QED
      BY <3>1, StatusFacts
  <2>5. /\ action'[a].st = "jun88_ticket_received" /\ action'[a].resv = action[a].resv
        /\ \A b \in Actions \ {a} : action'[b] = action[b]
    BY <1>1, <1>5 DEF TypeOK, ActionState
  <2>6. /\ expo'[a].st = "exposure_open"
        /\ \A b \in Actions \ {a} : expo'[b] = expo[b]
    BY <1>1, <1>5 DEF TypeOK
  <2>7. /\ \A b \in Actions \ {a} : attempt'[b] = attempt[b]
        /\ \A n \in 1 .. MaxCommits :
             /\ k # <<"jun88", n>> => (Waiting(attempt'[a], n) <=> Waiting(attempt[a], n))
             /\ k = <<"jun88", n>> => ~Waiting(attempt'[a], n)
    <3>. DEFINE row == [st |-> "response_received", res |-> "ticket_accepted"]
    <3>1. row.st \notin Unsettled
      BY DEF Unsettled
    <3>2. attempt' = [attempt EXCEPT ![a][k] = row]
      BY <1>5
    <3>. HIDE DEF row
    <3>3. QED
      BY <1>1, <1>3, <3>1, <3>2, AttemptRow
  <2>8. NoneWaiting(attempt'[a])
    BY <1>3, <2>3, <2>7 DEF NoneWaiting
  <2>9. RowsOf(a, action'[a].st, attempt'[a], expo'[a], tickets)
    BY <2>5, <2>6, <2>8 DEF RowsOf, NoneWaiting, Uncommitted, Exposed, TerminalAction
  <2>10. OthersStep(t)
    BY <2>5, <2>6, <2>7 DEF OthersStep
  <2>11. StatusStep(t, W)
    BY <1>3, <1>4, <2>2, <2>4, <2>5 DEF StatusStep, MayWrite, NoneWaiting
  <2>12. ExposureStep(t, W)
    BY <1>5, <2>6 DEF ExposureStep
  <2>13. WaitingStep(t, W)
    BY <1>3, <2>3, <2>7, <2>8 DEF WaitingStep, NoneWaiting
  <2>14. SelfStep(t, s2, W)
    BY <2>1, <2>5, PlainSees DEF SelfStep
  <2>15. Secured(a)
    BY <1>3, <2>2, <2>4 DEF Secured
  <2>16. SecureStep(t, s2)
    BY <2>5, <2>15 DEF SecureStep
  <2>17. Advance(t, s2, W)
    BY <1>5
  <2>. HIDE DEF s2, W
  <2>18. QED
    BY <2>1, <2>9, <2>10, <2>11, <2>12, <2>13, <2>14, <2>16, <2>17, StepKeeps
<1>6. CASE Advance(t, [self EXCEPT !.link = "lost", !.lag = IF @ > 0 THEN @ - 1 ELSE 0], {})
           /\ UNCHANGED rows
  <2>. DEFINE lag == IF self.lag > 0 THEN self.lag - 1 ELSE 0
              s2 == [self EXCEPT !.link = "lost", !.lag = lag]
  <2>1. lag \in 0 .. 2
    BY DEF ThreadState
  <2>2. Advance(t, s2, {}) /\ UNCHANGED <<action, attempt, expo, tickets>>
    BY <1>6 DEF rows
  <2>. HIDE DEF lag
  <2>3. s2 \in ThreadState /\ s2.pc = self.pc
    BY <2>1 DEF ThreadState, Links
  <2>. HIDE DEF s2
  <2>4. s2.pc \notin {"new", "abort"}
        /\ Sees(t, s2, action[a].st, attempt[a], expo[a].st, tickets)
    BY <2>3, PlainSees
  <2>5. QED
    BY <1>4, <2>2, <2>3, <2>4, ThreadGoes
<1>7. CASE Advance(t, Returned(t), {}) /\ UNCHANGED rows
  BY <1>2, <1>7, ThreadReturns DEF rows
<1>8. QED
  BY <1>5, <1>6, <1>7 DEF CommitJun88Ticket

-----------------------------------------------------------------------------
(* The executor                                                            *)

(* What Goto leaves of a thread's state.                                   *)
LEMMA GotoKnowledge ==
  ASSUME SafetyInv, NEW t \in Threads, NEW p \in Points
  PROVE  /\ Goto(t, p) \in ThreadState /\ Goto(t, p).pc = p /\ Goto(t, p).key = thr[t].key
         /\ Goto(t, p).lag = thr[t].lag /\ Goto(t, p).expoStale = thr[t].expoStale
         /\ Goto(t, p).attStale = thr[t].attStale
<1>1. p # "return"
  BY DEF Points
<1>2. Goto(t, p) = [thr[t] EXCEPT !.pc = p, !.rsp = "none"] /\ thr[t] \in ThreadState
  BY <1>1, GotoFacts, InvOf
<1>3. QED
  BY <1>2, GotoFields, InvOf DEF ThreadState

(* The points whose knowledge is a matter of one row.                      *)
LEMMA SeesAt ==
  ASSUME NEW t, NEW r, NEW ac, NEW at, NEW ex, NEW tk
  PROVE  /\ r.pc = "release" /\ ac \in TerminalAction => Sees(t, r, ac, at, ex, tk)
         /\ r.pc = "jun_unknown" /\ Role(t) = "exec" => Sees(t, r, ac, at, ex, tk)
         /\ r.pc \in UnknownPoints /\ ex # "none" => Sees(t, r, ac, at, ex, tk)
         /\ r.pc = "complete" /\ ex = "completed" => Sees(t, r, ac, at, ex, tk)
         /\ r.pc = "close_action" /\ ex = "unhedged_closed" => Sees(t, r, ac, at, ex, tk)
         /\ r.pc \in {"placing", "hedge_renew"} /\ (~r.expoStale => ex = "hedging") =>
              Sees(t, r, ac, at, ex, tk)
         /\ r.pc = "abort" /\ (r.lag = 0 => ex = "none" /\ NoneWaiting(at)) =>
              Sees(t, r, ac, at, ex, tk)
         /\ r.pc = "create" /\ Role(t) = "exec" /\ ac = "none" => Sees(t, r, ac, at, ex, tk)
         /\ r.pc \in {"reserve", "prepare"} /\ Role(t) = "exec" /\ (r.lag = 0 => ac = "selecting") =>
              Sees(t, r, ac, at, ex, tk)
         /\ r.pc \in {"dry_run", "jun_start"} /\ Role(t) = "exec" /\ (r.lag = 0 => ac = "ready") =>
              Sees(t, r, ac, at, ex, tk)
         /\ /\ r.pc = "jun_reallocate" /\ Role(t) = "exec"
            /\ r.lag = 0 => ac = "awaiting_odds_confirmation"
            => Sees(t, r, ac, at, ex, tk)
         /\ /\ r.pc \in {"jun_renew", "jun_changed"} /\ Role(t) = "exec"
            /\ r.lag = 0 => ac = "placing_jun88" /\ NoneWaiting(at)
            => Sees(t, r, ac, at, ex, tk)
  BY DEF UnknownPoints, Sees, KnowsRole, KnowsStatus, KnowsExposure, KnowsAttempt, HoldsTicket,
         ExecutorPoints, CommitPoints, AttemptPoints, CompletionPoints, EvidencePoints

(* What an executor knows at each point of its first half.                 *)
LEMMA ExecutorKnows ==
  ASSUME SafetyInv, NEW t \in Threads
  PROVE  /\ thr[t].pc \in ExecutorPoints => Role(t) = "exec"
         /\ thr[t].pc = "create" => action[Subject(t)].st = "none"
         /\ thr[t].lag = 0 =>
              /\ thr[t].pc \in {"reserve", "prepare"} => action[Subject(t)].st = "selecting"
              /\ thr[t].pc \in {"dry_run", "jun_start"} => action[Subject(t)].st = "ready"
              /\ thr[t].pc \in {"jun_renew", "jun_changed"} =>
                   action[Subject(t)].st = "placing_jun88" /\ NoneWaiting(attempt[Subject(t)])
              /\ thr[t].pc = "jun_reallocate" =>
                   action[Subject(t)].st = "awaiting_odds_confirmation"
              /\ thr[t].pc = "abort" =>
                   expo[Subject(t)].st = "none" /\ NoneWaiting(attempt[Subject(t)])
         /\ action[Subject(t)].st \in Uncommitted =>
              expo[Subject(t)].st = "none" /\ NoneWaiting(attempt[Subject(t)])
         /\ action[Subject(t)].st = "placing_jun88" => expo[Subject(t)].st = "none"
<1>1. /\ Sees(t, thr[t], action[Subject(t)].st, attempt[Subject(t)], expo[Subject(t)].st, tickets)
      /\ RowsOf(Subject(t), action[Subject(t)].st, attempt[Subject(t)], expo[Subject(t)], tickets)
  BY InvOf
<1>2. action[Subject(t)].st \in Uncommitted =>
        expo[Subject(t)].st = "none" /\ NoneWaiting(attempt[Subject(t)])
  BY <1>1 DEF RowsOf
<1>3. action[Subject(t)].st = "placing_jun88" => expo[Subject(t)].st = "none"
  BY <1>1, StatusFacts DEF RowsOf
<1>4. QED
  BY <1>1, <1>2, <1>3 DEF Sees, KnowsRole, KnowsStatus, KnowsExposure, KnowsAttempt

(* The bounds are numbers.                                                 *)
LEMMA Bounds ==
  /\ MaxCommits \in Nat /\ MaxReprices \in Nat /\ MaxHedgeRounds \in Nat
  /\ MaxReprices < MaxCommits /\ MaxHedgeRounds < MaxCommits
BY BoundsAssumption

(* A new executor has nothing to know but that there is no action.         *)
LEMMA GateSafe ==
  ASSUME SafetyInv, NEW a \in Actions, Gate(a)
  PROVE  VerdictInv'
<1>. DEFINE t == <<"exec", a>>
            self == [Idle EXCEPT !.pc = "create"]
<1>1. t \in Threads /\ Role(t) = "exec" /\ Subject(t) = a
  BY DEF Gate, Threads, Role, Subject
<1>2. Advance(t, self, {}) /\ UNCHANGED <<action, attempt, expo, tickets>>
      /\ action[a].st = "none"
  BY DEF Gate, rows, wire
<1>3. self \in ThreadState /\ self.pc = "create"
  <2>1. Idle \in ThreadState
    BY <1>1, IdleFacts
  <2>2. "create" \in Points
    BY DEF Points
  <2>3. QED
    BY <2>1, <2>2 DEF ThreadState
<1>. HIDE DEF t, self
<1>4. Sees(t, self, action[a].st, attempt[a], expo[a].st, tickets)
  BY <1>1, <1>2, <1>3, SeesAt
<1>5. QED
  BY <1>1, <1>2, <1>3, <1>4, ThreadGoes

(* A new action has no exposure, no attempt and no other thread.           *)
LEMMA CreateActionSafe ==
  ASSUME SafetyInv, NEW t \in Threads, CreateAction(t)
  PROVE  VerdictInv'
<1>. DEFINE a == Subject(t)
            self == Goto(t, "reserve")
<1>1. /\ thr[t].pc = "create" /\ Advance(t, self, {})
      /\ action' = [action EXCEPT ![a] = [NoAction EXCEPT !.st = "selecting"]]
      /\ UNCHANGED <<attempt, expo, tickets>>
  BY DEF CreateAction, At, wire
<1>2. Role(t) = "exec" /\ action[a].st = "none"
  BY <1>1, ExecutorKnows DEF ExecutorPoints
<1>3. expo[a].st = "none" /\ NoneWaiting(attempt[a])
  BY <1>2, ExecutorKnows DEF Uncommitted
<1>4. /\ action'[a].st = "selecting" /\ action'[a].resv = "none"
      /\ \A b \in Actions \ {a} : action'[b] = action[b]
  BY <1>1, InvOf DEF TypeOK, NoAction
<1>5. "reserve" \in Points
  BY DEF Points
<1>6. self \in ThreadState /\ self.pc = "reserve"
  BY <1>5, GotoKnowledge
<1>7. Quiet(a, thr)
  BY <1>2, InvOf DEF SafetyInv, VerdictInv, RowsAgree
<1>8. ~Secured(a)
  BY <1>3, <1>7 DEF Secured, Quiet, NoneWaiting
<1>9. OthersStep(t) /\ StatusStep(t, {})
  BY <1>1, <1>2, <1>4 DEF OthersStep, StatusStep, TerminalAction
<1>10. ExposureStep(t, {}) /\ WaitingStep(t, {})
  BY <1>1 DEF ExposureStep, WaitingStep
<1>. HIDE DEF self
<1>11. Sees(t, self, action'[a].st, attempt'[a], expo'[a].st, tickets)
  BY <1>1, <1>2, <1>4, <1>6, SeesAt
<1>12. SelfStep(t, self, {})
  BY <1>4, <1>6, <1>11 DEF SelfStep
<1>13. RowsOf(a, action'[a].st, attempt'[a], expo'[a], tickets)
  BY <1>1, <1>3, <1>4 DEF RowsOf, NoneWaiting, TerminalAction
<1>14. SecureStep(t, self)
  BY <1>1, <1>3, <1>6, <1>8 DEF SecureStep
<1>15. QED
  BY <1>1, <1>6, <1>9, <1>10, <1>12, <1>13, <1>14, StepKeeps

(* An action ends without an exposure.                                     *)
LEMMA EndsSafe ==
  ASSUME SafetyInv, NEW t \in Threads, NEW to \in {"aborted_no_exposure", "dry_run_completed"},
         TransitionAction(t, to, "release"), UNCHANGED <<attempt, expo, tickets>>,
         thr[t].pc \notin {"idle", "create"}, thr[t].lag = 0 => MayWrite(t),
         thr[t].lag = 0 => expo[Subject(t)].st = "none"
  PROVE  VerdictInv'
<1>1. "release" \in Points
  BY DEF Points
<1>2. Sees(t, Goto(t, "release"), to, attempt[Subject(t)], expo[Subject(t)].st, tickets)
  BY <1>1, GotoKnowledge, SeesAt DEF TerminalAction
<1>3. CanMoveAction(t, to) => MayWrite(t) /\ expo[Subject(t)].st = "none"
  BY DEF CanMoveAction
<1>4. to \notin Uncommitted
  BY DEF Uncommitted
<1>5. QED
  BY <1>1, <1>2, <1>3, <1>4, Transition

(* The account is reserved, or the action ends without an exposure.        *)
LEMMA ReserveAccountSafe ==
  ASSUME SafetyInv, NEW t \in Threads, ReserveAccount(t)
  PROVE  VerdictInv'
<1>1. /\ thr[t].pc = "reserve" /\ UNCHANGED <<attempt, expo, tickets>>
      /\ "prepare" \in Points /\ "release" \in Points
  BY DEF ReserveAccount, At, wire, Points
<1>2. Role(t) = "exec" /\ (thr[t].lag = 0 => action[Subject(t)].st = "selecting")
  BY <1>1, ExecutorKnows DEF ExecutorPoints
<1>3. CASE CanReserve(t)
  <2>. DEFINE self == Goto(t, "prepare")
  <2>1. action' = Reserved(Subject(t)) /\ Advance(t, self, {ActionRow})
    BY <1>3 DEF ReserveAccount, Reserve
  <2>2. self \in ThreadState /\ self.pc = "prepare" /\ self.lag = thr[t].lag
    BY <1>1, GotoKnowledge
  <2>. HIDE DEF self
  <2>3. Sees(t, self, action[Subject(t)].st, attempt[Subject(t)], expo[Subject(t)].st, tickets)
    BY <1>2, <2>2, SeesAt
  <2>4. QED
    BY <1>1, <1>2, <1>3, <2>1, <2>2, <2>3, Reserving DEF MayWrite
<1>4. CASE ~CanReserve(t)
  <2>1. TransitionAction(t, "aborted_no_exposure", "release")
    BY <1>4 DEF ReserveAccount
  <2>2. thr[t].lag = 0 => expo[Subject(t)].st = "none"
    BY <1>2, ExecutorKnows DEF Uncommitted
  <2>3. QED
    BY <1>1, <1>2, <2>1, <2>2, EndsSafe DEF MayWrite
<1>5. QED
  BY <1>3, <1>4

(* A prepared action is ready, or ends without an exposure.                *)
LEMMA PrepareBothSafe ==
  ASSUME SafetyInv, NEW t \in Threads, PrepareBoth(t) \/ DryRun(t)
  PROVE  VerdictInv'
<1>1. /\ thr[t].pc \in {"prepare", "dry_run"} /\ UNCHANGED <<attempt, expo, tickets>>
      /\ {"dry_run", "jun_start"} \subseteq Points
  BY DEF PrepareBoth, DryRun, At, wire, Points
<1>2. /\ Role(t) = "exec"
      /\ thr[t].lag = 0 =>
           expo[Subject(t)].st = "none" /\ NoneWaiting(attempt[Subject(t)])
  BY <1>1, ExecutorKnows DEF ExecutorPoints, Uncommitted
<1>3. ASSUME NEW to \in {"aborted_no_exposure", "dry_run_completed"},
             TransitionAction(t, to, "release")
      PROVE  VerdictInv'
  BY <1>1, <1>2, <1>3, EndsSafe DEF MayWrite
<1>4. ASSUME NEW p \in {"jun_start", "dry_run"}, TransitionAction(t, "ready", p)
      PROVE  VerdictInv'
  <2>1. Sees(t, Goto(t, p), "ready", attempt[Subject(t)], expo[Subject(t)].st, tickets)
    BY <1>1, <1>2, GotoKnowledge, SeesAt
  <2>2. CanMoveAction(t, "ready") => thr[t].lag = 0
    BY DEF CanMoveAction
  <2>3. p \in Points \cup {"return"} /\ p \notin {"new", "abort"}
    BY <1>1
  <2>4. "ready" \notin TerminalAction
    BY DEF TerminalAction
  <2>5. QED
    BY <1>1, <1>2, <1>4, <2>1, <2>2, <2>3, <2>4, Transition DEF MayWrite
<1>5. QED
  BY <1>3, <1>4 DEF PrepareBoth, DryRun

(* The action is placed.                                                   *)
LEMMA JunStartSafe ==
  ASSUME SafetyInv, NEW t \in Threads, JunStart(t)
  PROVE  VerdictInv'
<1>1. /\ thr[t].pc = "jun_start" /\ UNCHANGED <<attempt, expo, tickets>>
      /\ "jun_renew" \in Points /\ TransitionAction(t, "placing_jun88", "jun_renew")
  BY DEF JunStart, At, wire, Points
<1>2. /\ Role(t) = "exec"
      /\ thr[t].lag = 0 => NoneWaiting(attempt[Subject(t)])
  BY <1>1, ExecutorKnows DEF ExecutorPoints, Uncommitted
<1>3. Sees(t, Goto(t, "jun_renew"), "placing_jun88", attempt[Subject(t)], expo[Subject(t)].st,
           tickets)
  BY <1>1, <1>2, GotoKnowledge, SeesAt
<1>4. QED
  BY <1>1, <1>2, <1>3, StatusFacts, Transition DEF MayWrite, TerminalAction

(* The reservation is renewed right before a commit is recorded: nobody    *)
(* else is secured then.                                                   *)
LEMMA JunRenewSafe ==
  ASSUME SafetyInv, NEW t \in Threads, JunRenew(t)
  PROVE  VerdictInv'
<1>. DEFINE a == Subject(t)
            self == [thr[t] EXCEPT !.pc = "new", !.key = <<"jun88", thr[t].round + 1>>]
<1>1. thr[t].pc = "jun_renew" /\ UNCHANGED <<attempt, expo, tickets>>
  BY DEF JunRenew, At, wire
<1>2. /\ Role(t) = "exec"
      /\ thr[t].lag = 0 =>
           action[a].st = "placing_jun88" /\ NoneWaiting(attempt[a]) /\ expo[a].st = "none"
  BY <1>1, ExecutorKnows DEF ExecutorPoints
<1>3. CASE CanReserve(t) /\ action' = Reserved(a) /\ Advance(t, self, {ActionRow})
  <2>1. thr[t].round \in 0 .. MaxReprices /\ thr[t] \in ThreadState
    BY <1>1, InvOf, Bounds DEF Fits, KnowsRound, JunPoints, ThreadState
  <2>0. <<"jun88", thr[t].round + 1>> \in Keys /\ "new" \in Points
    BY <2>1, Bounds DEF Keys, Bookmakers, Points
  <2>2. /\ self \in ThreadState /\ self.pc = "new" /\ self.lag = thr[t].lag
        /\ self.key[1] = "jun88"
    BY <2>0, <2>1 DEF ThreadState
  <2>3. thr[t].lag = 0
    BY <1>3 DEF CanReserve
  <2>. HIDE DEF self
  <2>4. Sees(t, self, action[a].st, attempt[a], expo[a].st, tickets)
    BY <1>2, <2>2, <2>3 DEF UnknownPoints, Sees, KnowsRole, KnowsStatus, KnowsExposure,
         KnowsAttempt, HoldsTicket, ExecutorPoints, CommitPoints, AttemptPoints,
         CompletionPoints, EvidencePoints
  <2>5. QED
    BY <1>1, <1>2, <1>3, <2>2, <2>4, Reserving DEF MayWrite
<1>4. CASE TransitionAction(t, "aborted_no_exposure", "release")
  BY <1>1, <1>2, <1>4, EndsSafe DEF MayWrite
<1>5. QED
  BY <1>3, <1>4 DEF JunRenew

(* With the changed price every Jun88 commit is answered.                  *)
LEMMA JunChangedSafe ==
  ASSUME SafetyInv, NEW t \in Threads, JunChanged(t)
  PROVE  VerdictInv'
<1>1. /\ thr[t].pc = "jun_changed" /\ UNCHANGED <<attempt, expo, tickets>>
      /\ "jun_reallocate" \in Points
      /\ TransitionAction(t, "awaiting_odds_confirmation", "jun_reallocate")
  BY DEF JunChanged, At, wire, Points
<1>2. /\ Role(t) = "exec"
      /\ thr[t].lag = 0 => NoneWaiting(attempt[Subject(t)]) /\ expo[Subject(t)].st = "none"
  BY <1>1, ExecutorKnows DEF ExecutorPoints
<1>3. Sees(t, Goto(t, "jun_reallocate"), "awaiting_odds_confirmation", attempt[Subject(t)],
           expo[Subject(t)].st, tickets)
  BY <1>1, <1>2, GotoKnowledge, SeesAt
<1>4. QED
  BY <1>1, <1>2, <1>3, Transition DEF MayWrite, TerminalAction, CanMoveAction

(* The next round of a repriced action.                                    *)
LEMMA JunReallocateSafe ==
  ASSUME SafetyInv, NEW t \in Threads, JunReallocate(t)
  PROVE  VerdictInv'
<1>. DEFINE a == Subject(t)
            self == [thr[t] EXCEPT !.pc = "jun_start", !.round = @ + 1, !.key = NoKey]
            row == [action[a] EXCEPT !.st = "ready", !.link = thr[t].link]
<1>1. thr[t].pc = "jun_reallocate" /\ UNCHANGED <<attempt, expo, tickets>>
  BY DEF JunReallocate, At, wire
<1>2. /\ Role(t) = "exec"
      /\ thr[t].lag = 0 =>
           /\ action[a].st = "awaiting_odds_confirmation"
           /\ NoneWaiting(attempt[a]) /\ expo[a].st = "none"
  BY <1>1, ExecutorKnows DEF ExecutorPoints, Uncommitted
<1>3. CASE TransitionAction(t, "aborted_no_exposure", "release")
  BY <1>1, <1>2, <1>3, EndsSafe DEF MayWrite
<1>4. CASE CanMoveAction(t, "ready") /\ action' = Moved(t, "ready") /\ Advance(t, self, {ActionRow})
  <2>1. thr[t].round < MaxReprices /\ thr[t] \in ThreadState
    BY <1>1, InvOf DEF Fits, KnowsRound
  <2>0. thr[t].round + 1 \in 0 .. MaxCommits /\ "jun_start" \in Points
    BY <2>1, Bounds DEF ThreadState, Points
  <2>2. self \in ThreadState /\ self.pc = "jun_start"
    BY <2>0, <2>1 DEF ThreadState
  <2>3. action[a] \in ActionState /\ thr[t].lag = 0
    BY <1>4, InvOf DEF TypeOK, CanMoveAction
  <2>4. row.st = "ready" /\ row.resv = action[a].resv
    BY <2>3 DEF ActionState
  <2>5. action' = [action EXCEPT ![a] = row]
    BY <1>4 DEF Moved
  <2>. HIDE DEF self, row
  <2>6. Sees(t, self, "ready", attempt[a], expo[a].st, tickets)
    BY <1>2, <2>2, SeesAt
  <2>7. RowsOf(a, "ready", attempt[a], expo[a], tickets)
    BY <1>2, <2>3 DEF RowsOf, NoneWaiting, TerminalAction
  <2>8. /\ action[a].st \notin TerminalAction /\ row.st # "none" /\ MayWrite(t)
        /\ self.pc \notin {"new", "abort"}
    BY <1>2, <2>2, <2>3, <2>4 DEF TerminalAction, MayWrite
  <2>9. QED
    BY <1>1, <1>4, <2>2, <2>4, <2>5, <2>6, <2>7, <2>8, ActionGoes
<1>5. QED
  BY <1>3, <1>4 DEF JunReallocate

(* An action that is aborted has no exposure.                              *)
LEMMA AbortSafe ==
  ASSUME SafetyInv, NEW t \in Threads, Abort(t)
  PROVE  VerdictInv'
<1>1. /\ thr[t].pc = "abort" /\ UNCHANGED <<attempt, expo, tickets>>
      /\ TransitionAction(t, "aborted_no_exposure", "release")
  BY DEF Abort, At, wire
<1>2. thr[t].lag = 0 => expo[Subject(t)].st = "none"
  BY <1>1, ExecutorKnows
<1>3. QED
  BY <1>1, <1>2, EndsSafe DEF MayWrite

(* An action becomes unknown, by its executor or with an exposure.         *)
LEMMA UnknownSafe ==
  ASSUME SafetyInv, NEW t \in Threads, JunUnknown(t) \/ HedgeUnknownAction(t)
  PROVE  VerdictInv'
<1>1. /\ thr[t].pc \in {"jun_unknown", "hedge_unknown_action"}
      /\ UNCHANGED <<attempt, expo, tickets>>
      /\ TransitionAction(t, "submission_unknown", "return")
  BY DEF JunUnknown, HedgeUnknownAction, At, wire
<1>2. MayWrite(t)
  BY <1>1, InvOf DEF Sees, KnowsRole, KnowsExposure, ExecutorPoints, UnknownPoints, MayWrite
<1>3. QED
  BY <1>1, <1>2, ReturnedSees, Transition DEF TerminalAction, Uncommitted

(* The executor and reconciliation commit a Jun88 ticket alike.            *)
LEMMA JunTicketSafe ==
  ASSUME SafetyInv, NEW t \in Threads, JunTicket(t) \/ ReconcileJun(t)
  PROVE  VerdictInv'
<1>1. CASE JunTicket(t)
  <2>. DEFINE self == [thr[t] EXCEPT !.pc = "evaluate", !.key = <<"8xbet", 1>>, !.round = 0,
                         !.expoStale = FALSE]
  <2>1. /\ thr[t].pc \in TicketPoints /\ UNCHANGED tickets
        /\ CommitJun88Ticket(t, self)
    BY <1>1 DEF JunTicket, At, wire, TicketPoints
  <2>2. self \in ThreadState /\ self.pc \in PlainPoints
    <3>1. <<"8xbet", 1>> \in Keys /\ "evaluate" \in Points /\ 0 \in 0 .. MaxCommits
      BY Bounds DEF Keys, Bookmakers, Points
    <3>2. self \in ThreadState /\ self.pc = "evaluate"
      BY <3>1, InvOf DEF ThreadState
    <3>3. QED
      BY <3>2 DEF PlainPoints
  <2>. HIDE DEF self
  <2>3. QED
    BY <2>1, <2>2, TicketCommitted
<1>2. CASE ReconcileJun(t)
  <2>. DEFINE self == Goto(t, "rec_jun_open")
  <2>1. /\ thr[t].pc \in TicketPoints /\ UNCHANGED tickets
        /\ CommitJun88Ticket(t, self)
    BY <1>2 DEF ReconcileJun, At, wire, TicketPoints
  <2>2. self \in ThreadState /\ self.pc \in PlainPoints
    BY GotoKnowledge DEF Points, PlainPoints
  <2>. HIDE DEF self
  <2>3. QED
    BY <2>1, <2>2, TicketCommitted
<1>3. QED
  BY <1>1, <1>2

(* The reservation is given back by a finished action only.                *)
LEMMA ReleaseSafe ==
  ASSUME SafetyInv, NEW t \in Threads, Release(t)
  PROVE  VerdictInv'
<1>. DEFINE a == Subject(t)
            owned == action[a].resv = "mine" /\ thr[t].lag = 0
            row == [action[a] EXCEPT !.resv = "none", !.held = FALSE]
<1>1. /\ thr[t].pc = "release" /\ UNCHANGED <<attempt, expo, tickets>>
      /\ action' = IF owned THEN [action EXCEPT ![a] = row] ELSE action
      /\ Advance(t, Returned(t), IF owned THEN {ActionRow} ELSE {})
  BY DEF Release, At, wire
<1>2. action[a].st \in TerminalAction /\ action[a] \in ActionState
  BY <1>1, InvOf DEF Sees, KnowsStatus, TypeOK
<1>3. row.st = action[a].st /\ ~Secured(a)
  BY <1>2 DEF ActionState, Secured
<1>4. CASE ~owned
  BY <1>1, <1>4, ThreadReturns
<1>5. CASE owned
  <2>. DEFINE self == Returned(t)
  <2>1. self \in ThreadState /\ self.pc \notin {"new", "abort"}
        /\ Sees(t, self, row.st, attempt[a], expo[a].st, tickets)
    BY ReturnedSees, PlainSees
  <2>2. MayWrite(t)
    BY <1>2, StatusFacts DEF MayWrite
  <2>3. RowsOf(a, row.st, attempt[a], expo[a], tickets)
    BY <1>3, InvOf
  <2>4. action' = [action EXCEPT ![a] = row] /\ Advance(t, self, {ActionRow})
    BY <1>1, <1>5
  <2>. HIDE DEF self, row
  <2>5. QED
    BY <1>1, <1>3, <2>1, <2>2, <2>3, <2>4, ActionGoes
<1>6. QED
  BY <1>4, <1>5

-----------------------------------------------------------------------------
(* A commit and its answer                                                 *)

(* What a thread with a commit knows.                                      *)
LEMMA CommitKnows ==
  ASSUME SafetyInv, NEW t \in Threads, thr[t].pc \in CommitPoints
  PROVE  /\ KeyOf(t) = thr[t].key /\ KeyOf(t) \in Keys
         /\ KeyOf(t)[1] \in {"jun88", "8xbet"} /\ KeyOf(t)[2] \in 1 .. MaxCommits
         /\ KeyOf(t)[1] = "jun88" => KeyOf(t) = <<"jun88", KeyOf(t)[2]>>
         /\ KeyOf(t)[1] = "jun88" =>
              /\ Role(t) = "exec"
              /\ thr[t].lag = 0 => action[Subject(t)].st = "placing_jun88"
         /\ KeyOf(t)[1] = "8xbet" => expo[Subject(t)].st # "none"
         /\ thr[t].pc \notin {"idle", "create"} /\ CommitPoints \subseteq Points
<1>1. KnowsKey(t, thr[t], expo) /\ t[2] = Subject(t) /\ KeyOf(t) = thr[t].key
  BY InvOf DEF Fits, Subject, KeyOf
<1>2. thr[t].key \in Keys /\ (thr[t].key[1] = "8xbet" => expo[Subject(t)].st # "none")
  BY <1>1 DEF KnowsKey, KeyedPoints
<1>3. thr[t].key[1] = "jun88" =>
        Role(t) = "exec" /\ (thr[t].lag = 0 => action[Subject(t)].st = "placing_jun88")
  BY InvOf DEF Sees, KnowsRole, KnowsStatus
<1>4. /\ thr[t].key[1] \in {"jun88", "8xbet"} /\ thr[t].key[2] \in 1 .. MaxCommits
      /\ thr[t].key[1] = "jun88" => thr[t].key = <<"jun88", thr[t].key[2]>>
  BY <1>2 DEF Keys, Bookmakers
<1>5. thr[t].pc \notin {"idle", "create"} /\ CommitPoints \subseteq Points
  BY DEF CommitPoints, Points
<1>6. QED
  BY <1>1, <1>2, <1>3, <1>4, <1>5

(* An unresolved commit can be recorded whatever happened to its rows.     *)
LEMMA UnresolvedSees ==
  ASSUME SafetyInv, NEW t \in Threads, thr[t].pc \in CommitPoints, NEW b \in BOOLEAN,
         NEW ac, NEW at
  PROVE  /\ Sees(t, Goto(t, Unresolved(t, b)), ac, at, expo[Subject(t)].st, tickets)
         /\ Unresolved(t, b) \in Points \ {"new", "abort"}
<1>1. CASE KeyOf(t)[1] = "jun88"
  <2>1. Unresolved(t, b) = "jun_unknown" /\ "jun_unknown" \in Points
    BY <1>1 DEF Unresolved, Points
  <2>2. Goto(t, "jun_unknown").pc = "jun_unknown" /\ Role(t) = "exec"
    BY <1>1, <2>1, CommitKnows, GotoKnowledge
  <2>3. QED
    BY <2>1, <2>2, SeesAt
<1>2. CASE KeyOf(t)[1] = "8xbet"
  <2>1. Unresolved(t, b) \in {"hedge_unknown", "hedge_unknown_attempt"}
        /\ {"hedge_unknown", "hedge_unknown_attempt"} \subseteq Points
    BY <1>2 DEF Unresolved, Points
  <2>2. Goto(t, Unresolved(t, b)).pc = Unresolved(t, b) /\ expo[Subject(t)].st # "none"
    BY <1>2, <2>1, CommitKnows, GotoKnowledge
  <2>3. Sees(t, Goto(t, Unresolved(t, b)), ac, at, expo[Subject(t)].st, tickets)
    BY <2>1, <2>2, SeesAt, PlainSees DEF UnknownPoints, PlainPoints
  <2>4. QED
    BY <2>1, <2>3
<1>3. QED
  BY <1>1, <1>2, CommitKnows

(* The steps of a commit up to its answer keep what is known of it.        *)
LEMMA CommitSees ==
  ASSUME SafetyInv, NEW t \in Threads, thr[t].pc \in CommitPoints, NEW r,
         r.pc \in {"mark", "send", "wait"}, r.key = thr[t].key, r.lag = thr[t].lag, NEW at,
         KeyOf(t)[1] = "jun88" /\ ~r.attStale => Waiting(at, KeyOf(t)[2])
  PROVE  Sees(t, r, action[Subject(t)].st, at, expo[Subject(t)].st, tickets)
  BY CommitKnows DEF UnknownPoints, Sees, KnowsRole, KnowsStatus, KnowsExposure, KnowsAttempt,
     HoldsTicket, ExecutorPoints, CommitPoints, AttemptPoints, CompletionPoints, EvidencePoints

(* A new commit is the only unanswered one of its action.                  *)
LEMMA NewAttemptSafe ==
  ASSUME SafetyInv, NEW t \in Threads, NewAttempt(t)
  PROVE  VerdictInv'
<1>. DEFINE a == Subject(t)
            k == KeyOf(t)
            free == attempt[a][k].st = "none"
            self == [Goto(t, "mark") EXCEPT !.attStale = FALSE]
            row == [st |-> "before_send", res |-> "none"]
<1>1. /\ thr[t].pc = "new" /\ UNCHANGED <<action, expo, tickets>>
      /\ attempt' = IF free THEN [attempt EXCEPT ![a][k] = row] ELSE attempt
      /\ Advance(t, IF free THEN self ELSE Returned(t), {})
  BY DEF NewAttempt, At, wire
<1>2. thr[t].pc \in CommitPoints
  BY <1>1 DEF CommitPoints
<1>3. CASE ~free
  BY <1>1, <1>3, ThreadReturns
<1>4. CASE free
  <2>1. attempt' = [attempt EXCEPT ![a][k] = row] /\ Advance(t, self, {})
    BY <1>1, <1>4
  <2>2. "mark" \in Points
    BY DEF Points
  <2>3. /\ self \in ThreadState /\ self.pc = "mark" /\ self.key = k /\ self.lag = thr[t].lag
        /\ ~self.attStale
    <3>1. /\ Goto(t, "mark") \in ThreadState /\ Goto(t, "mark").pc = "mark"
          /\ Goto(t, "mark").key = k /\ Goto(t, "mark").lag = thr[t].lag
      BY <2>2, GotoKnowledge DEF KeyOf
    <3>2. QED
      BY <3>1 DEF ThreadState
  <2>4. row.st \in Unsettled
    BY DEF Unsettled, AttemptStatus
  <2>. HIDE DEF self, row
  <2>5. /\ \A b \in Actions \ {a} : attempt'[b] = attempt[b]
        /\ \A n \in 1 .. MaxCommits :
             /\ k # <<"jun88", n>> => (Waiting(attempt'[a], n) <=> Waiting(attempt[a], n))
             /\ k = <<"jun88", n>> => Waiting(attempt'[a], n)
    BY <1>2, <2>1, <2>4, CommitKnows, InvOf, AttemptRow
  <2>6. k[1] = "jun88" =>
          /\ NoneWaiting(attempt[a]) /\ expo[a].st = "none" /\ action[a].st = "placing_jun88"
          /\ k = <<"jun88", k[2]>> /\ k[2] \in 1 .. MaxCommits
    BY <1>1, <1>2, CommitKnows, AboutToCommit
  <2>7. action[a].st # "none"
    BY <1>2, CommitKnows, Started
  <2>8. OthersStep(t) /\ StatusStep(t, {}) /\ ExposureStep(t, {})
    BY <1>1, <2>5 DEF OthersStep, StatusStep, ExposureStep
  <2>9. WaitingStep(t, {})
    <3>1. ASSUME NEW n \in 1 .. MaxCommits
          PROVE  Waiting(attempt[a], n) => Waiting(attempt'[a], n)
      BY <2>5
    <3>2. ASSUME NEW n \in 1 .. MaxCommits, Waiting(attempt'[a], n), ~Waiting(attempt[a], n)
          PROVE  thr[t].pc = "new" /\ thr[t].key = <<"jun88", n>>
      BY <1>1, <1>2, <2>5, <3>2, CommitKnows
    <3>3. QED
      BY <3>1, <3>2 DEF WaitingStep
  <2>10. k[1] = "jun88" => Waiting(attempt'[a], k[2])
    BY <2>5, <2>6
  <2>11. Sees(t, self, action'[a].st, attempt'[a], expo'[a].st, tickets)
    BY <1>1, <1>2, <2>3, <2>10, CommitSees, CommitKnows
  <2>12. SelfStep(t, self, {})
    BY <1>1, <2>3, <2>7, <2>11 DEF SelfStep
  <2>13. RowsOf(a, action[a].st, attempt'[a], expo[a], tickets)
    <3>1. RowsOf(a, action[a].st, attempt[a], expo[a], tickets)
      BY InvOf
    <3>2. CASE k[1] = "jun88"
      <4>1. \A n \in 1 .. MaxCommits : Waiting(attempt'[a], n) => k = <<"jun88", n>>
        BY <2>5, <2>6, <3>2 DEF NoneWaiting
      <4>2. \A m, n \in 1 .. MaxCommits : Waiting(attempt'[a], m) /\ Waiting(attempt'[a], n) => m = n
        BY <4>1
      <4>3. action[a].st \notin Uncommitted \cup TerminalAction /\ action[a].st # "completed"
        BY <2>6, <3>2 DEF Uncommitted, TerminalAction
      <4>4. QED
        BY <2>6, <3>2, <4>2, <4>3 DEF RowsOf
    <3>3. CASE k[1] # "jun88"
      <4>1. \A n \in 1 .. MaxCommits : Waiting(attempt'[a], n) <=> Waiting(attempt[a], n)
        BY <2>5, <3>3
      <4>2. QED
        BY <3>1, <4>1 DEF RowsOf, NoneWaiting
    <3>4. QED
      BY <3>2, <3>3
  <2>14. SecureStep(t, self)
    BY <1>1, <2>3 DEF SecureStep, Secured
  <2>15. QED
    BY <1>1, <2>1, <2>3, <2>8, <2>9, <2>12, <2>13, <2>14, StepKeeps
<1>5. QED
  BY <1>3, <1>4

(* The mark before the write, and a write that was refused, late or        *)
(* unanswered.                                                             *)
LEMMA CommitSavedSafe ==
  ASSUME SafetyInv, NEW t \in Threads,
         \/ MarkStarted(t) \/ SendRefused(t) \/ CommitTimeout(t) \/ CommitUnknown(t)
  PROVE  VerdictInv'
<1>1. /\ thr[t].pc \in {"mark", "send", "wait"} /\ UNCHANGED <<action, expo, tickets>>
      /\ thr[t].pc \in CommitPoints /\ thr[t].pc \in AttemptPoints
  BY DEF MarkStarted, SendRefused, CommitTimeout, CommitUnknown, At, wire, CommitPoints,
         AttemptPoints
<1>2. /\ KeyOf(t) \in Keys /\ thr[t].pc \notin {"idle", "create"}
      /\ Unresolved(t, TRUE) \in Points \ {"new", "abort"}
      /\ Unresolved(t, FALSE) \in Points \ {"new", "abort"}
  BY <1>1, CommitKnows, UnresolvedSees
<1>3. \A ac, at : /\ Sees(t, Goto(t, Unresolved(t, TRUE)), ac, at, expo[Subject(t)].st, tickets)
                  /\ Sees(t, Goto(t, Unresolved(t, FALSE)), ac, at, expo[Subject(t)].st, tickets)
  BY <1>1, UnresolvedSees
<1>4. CASE MarkStarted(t)
  <2>1. SaveAttempt(t, "submit_started", "none", "send", Unresolved(t, FALSE))
    BY <1>4 DEF MarkStarted
  <2>2. "send" \in Points
    BY DEF Points
  <2>3. ASSUME ~thr[t].attStale
        PROVE  Sees(t, Goto(t, "send"), action[Subject(t)].st, attempt'[Subject(t)],
                    expo[Subject(t)].st, tickets)
    <3>. DEFINE row == [st |-> "submit_started", res |-> "none"]
    <3>1. attempt' = [attempt EXCEPT ![Subject(t)][KeyOf(t)] = row]
      BY <2>1, <2>3 DEF SaveAttempt
    <3>2. row.st \in Unsettled
      BY DEF Unsettled, AttemptStatus
    <3>. HIDE DEF row
    <3>3. \A n \in 1 .. MaxCommits :
            KeyOf(t) = <<"jun88", n>> => Waiting(attempt'[Subject(t)], n)
      BY <1>2, <3>1, <3>2, InvOf, AttemptRow
    <3>4. KeyOf(t)[1] = "jun88" => Waiting(attempt'[Subject(t)], KeyOf(t)[2])
      BY <1>1, <3>3, CommitKnows
    <3>5. QED
      BY <1>1, <2>2, <3>4, GotoKnowledge, CommitSees
  <2>4. QED
    BY <1>1, <1>2, <1>3, <2>1, <2>2, <2>3, AttemptSaved
<1>5. ASSUME NEW b \in BOOLEAN, NEW st, NEW res,
             SaveAttempt(t, st, res, Unresolved(t, b), Unresolved(t, b))
      PROVE  VerdictInv'
  <2>1. /\ Unresolved(t, b) \in Points \ {"new", "abort"}
        /\ \A ac, at : Sees(t, Goto(t, Unresolved(t, b)), ac, at, expo[Subject(t)].st, tickets)
    BY <1>1, UnresolvedSees
  <2>2. QED
    BY <1>1, <1>2, <1>5, <2>1, AttemptSaved
<1>6. QED
  BY <1>4, <1>5 DEF SendRefused, CommitTimeout, CommitUnknown

(* Nothing is saved: the command is written, or the mark fails.            *)
LEMMA CommitGoesSafe ==
  ASSUME SafetyInv, NEW t \in Threads, SendCommit(t) \/ MarkFails(t)
  PROVE  VerdictInv'
<1>1. thr[t].pc \in CommitPoints /\ thr[t].pc \in {"mark", "send"}
  BY DEF SendCommit, MarkFails, At, CommitPoints
<1>2. UNCHANGED <<action, attempt, expo, tickets>> /\ action[Subject(t)].st # "none"
  BY <1>1, Started DEF SendCommit, MarkFails, rows, wire
<1>3. CASE SendCommit(t)
  <2>1. Advance(t, Goto(t, "wait"), {}) /\ thr[t].pc = "send"
    BY <1>3 DEF SendCommit, At
  <2>2. "wait" \in Points /\ thr[t].pc \in AttemptPoints
    BY <2>1 DEF Points, AttemptPoints
  <2>3. ~thr[t].attStale => (KeyOf(t)[1] = "jun88" => Waiting(attempt[Subject(t)], KeyOf(t)[2]))
    BY <1>1, <2>2, CommitKnows, KnownWaiting
  <2>4. Sees(t, Goto(t, "wait"), action[Subject(t)].st, attempt[Subject(t)], expo[Subject(t)].st,
             tickets)
    BY <1>1, <2>2, <2>3, GotoKnowledge, CommitSees
  <2>5. Goto(t, "wait") \in ThreadState /\ Goto(t, "wait").pc = "wait"
    BY <2>2, GotoKnowledge
  <2>6. QED
    BY <1>2, <2>1, <2>4, <2>5, ThreadGoes
<1>4. CASE MarkFails(t)
  <2>. DEFINE p == Unresolved(t, FALSE)
  <2>1. Advance(t, Goto(t, p), {})
    BY <1>4 DEF MarkFails
  <2>2. /\ p \in Points \ {"new", "abort"}
        /\ Sees(t, Goto(t, p), action[Subject(t)].st, attempt[Subject(t)], expo[Subject(t)].st,
                tickets)
    BY <1>1, UnresolvedSees
  <2>. HIDE DEF p
  <2>3. Goto(t, p) \in ThreadState /\ Goto(t, p).pc = p
    BY <2>2, GotoKnowledge
  <2>4. QED
    BY <1>2, <2>1, <2>2, <2>3, ThreadGoes
<1>5. QED
  BY <1>3, <1>4

(* The only unanswered Jun88 commit is answered.                           *)
LEMMA Answered ==
  ASSUME SafetyInv, NEW t \in Threads, KeyOf(t) \in Keys, KeyOf(t)[1] = "jun88",
         thr[t].pc \in AttemptPoints, ~thr[t].attStale, NEW res, NEW p, NEW q,
         SaveAttempt(t, "response_received", res, p, q)
  PROVE  NoneWaiting(attempt'[Subject(t)]) /\ expo[Subject(t)].st = "none"
<1>. DEFINE row == [st |-> "response_received", res |-> res]
            a == Subject(t)
<1>1. attempt' = [attempt EXCEPT ![a][KeyOf(t)] = row]
  BY DEF SaveAttempt
<1>2. row.st \notin Unsettled
  BY DEF Unsettled
<1>3. KeyOf(t) = <<"jun88", KeyOf(t)[2]>> /\ KeyOf(t)[2] \in 1 .. MaxCommits
  BY DEF Keys
<1>4. Waiting(attempt[a], KeyOf(t)[2])
  BY KnownWaiting
<1>5. /\ \A m \in 1 .. MaxCommits : Waiting(attempt[a], m) => m = KeyOf(t)[2]
      /\ expo[a].st = "none"
  BY <1>3, <1>4, OneWaiting
<1>. HIDE DEF row
<1>6. \A n \in 1 .. MaxCommits :
        /\ KeyOf(t) # <<"jun88", n>> => (Waiting(attempt'[a], n) <=> Waiting(attempt[a], n))
        /\ KeyOf(t) = <<"jun88", n>> => ~Waiting(attempt'[a], n)
  BY <1>1, <1>2, InvOf, AttemptRow
<1>7. QED
  BY <1>3, <1>5, <1>6 DEF NoneWaiting

(* A ticket is not an answer yet: the commit stays unanswered until the    *)
(* ticket is committed.                                                    *)
LEMMA JunAcceptedSafe ==
  ASSUME SafetyInv, NEW t \in Threads, JunAccepted(t)
  PROVE  VerdictInv'
<1>1. /\ thr[t].pc = "wait" /\ thr[t].pc \in CommitPoints /\ thr[t].pc \in AttemptPoints
      /\ KeyOf(t)[1] = "jun88" /\ UNCHANGED <<action, expo, tickets>>
      /\ "jun_ticket" \in Points /\ "jun_unknown" \in Points
  BY DEF JunAccepted, At, wire, CommitPoints, AttemptPoints, Points
<1>2. /\ Role(t) = "exec" /\ KeyOf(t) \in Keys /\ KeyOf(t) = thr[t].key
      /\ thr[t].lag = 0 => action[Subject(t)].st = "placing_jun88"
  BY <1>1, CommitKnows
<1>3. CASE Advance(t, Goto(t, "jun_ticket"), {}) /\ UNCHANGED attempt
  <2>. DEFINE self == Goto(t, "jun_ticket")
  <2>1. /\ self \in ThreadState /\ self.pc = "jun_ticket" /\ self.key = KeyOf(t)
        /\ self.lag = thr[t].lag /\ self.attStale = thr[t].attStale
    BY <1>1, <1>2, GotoKnowledge
  <2>. HIDE DEF self
  <2>2. ~self.attStale => Waiting(attempt[Subject(t)], self.key[2])
    BY <1>1, <1>2, <2>1, KnownWaiting
  <2>3. Sees(t, self, action[Subject(t)].st, attempt[Subject(t)], expo[Subject(t)].st, tickets)
    BY <1>2, <2>1, <2>2 DEF UnknownPoints, Sees, KnowsRole, KnowsStatus, KnowsExposure,
       KnowsAttempt, HoldsTicket, ExecutorPoints, CommitPoints, AttemptPoints,
       CompletionPoints, EvidencePoints
  <2>4. action[Subject(t)].st # "none"
    BY <1>1, Started
  <2>5. QED
    BY <1>1, <1>3, <2>1, <2>3, <2>4, ThreadGoes DEF self
<1>4. CASE SaveAttempt(t, "awaiting_reconcile", "submission_unknown", "jun_unknown", "jun_unknown")
  <2>1. Goto(t, "jun_unknown").pc = "jun_unknown"
    BY <1>1, GotoKnowledge
  <2>2. \A ac, at : Sees(t, Goto(t, "jun_unknown"), ac, at, expo[Subject(t)].st, tickets)
    BY <1>2, <2>1, SeesAt
  <2>3. QED
    BY <1>1, <1>2, <1>4, <2>2, AttemptSaved
<1>5. QED
  BY <1>3, <1>4 DEF JunAccepted

(* A changed price or a rejection answers the commit.                      *)
LEMMA JunRefusedSafe ==
  ASSUME SafetyInv, NEW t \in Threads, JunOddsChanged(t) \/ JunRejected(t)
  PROVE  VerdictInv'
<1>1. /\ thr[t].pc = "wait" /\ thr[t].pc \in CommitPoints /\ thr[t].pc \in AttemptPoints
      /\ KeyOf(t)[1] = "jun88" /\ UNCHANGED <<action, expo, tickets>>
      /\ {"jun_unknown", "abort", "jun_changed"} \subseteq Points
  BY DEF JunOddsChanged, JunRejected, At, wire, CommitPoints, AttemptPoints, Points
<1>2. /\ Role(t) = "exec" /\ KeyOf(t) \in Keys
      /\ thr[t].lag = 0 => action[Subject(t)].st = "placing_jun88"
  BY <1>1, CommitKnows
<1>3. PICK p \in {"jun_unknown", "abort", "jun_changed"}, res \in Results :
        SaveAttempt(t, "response_received", res, p, "jun_unknown")
  BY DEF JunOddsChanged, JunRejected, Results
<1>4. \A ac, at : Sees(t, Goto(t, "jun_unknown"), ac, at, expo[Subject(t)].st, tickets)
  <2>1. Goto(t, "jun_unknown").pc = "jun_unknown"
    BY <1>1, GotoKnowledge
  <2>2. QED
    BY <1>2, <2>1, SeesAt
<1>5. ASSUME ~thr[t].attStale
      PROVE  Sees(t, Goto(t, p), action[Subject(t)].st, attempt'[Subject(t)],
                  expo[Subject(t)].st, tickets)
  <2>1. NoneWaiting(attempt'[Subject(t)]) /\ expo[Subject(t)].st = "none"
    BY <1>1, <1>2, <1>3, <1>5, Answered
  <2>2. Goto(t, p).pc = p /\ Goto(t, p).lag = thr[t].lag
    BY <1>1, GotoKnowledge
  <2>3. CASE p = "jun_unknown"
    BY <1>4, <2>3
  <2>4. CASE p = "abort"
    BY <2>1, <2>2, <2>4, SeesAt
  <2>5. CASE p = "jun_changed"
    BY <1>2, <2>1, <2>2, <2>5, SeesAt
  <2>6. QED
    BY <2>3, <2>4, <2>5
<1>6. p \in Points \cup {"return"} /\ p # "new"
  BY <1>1
<1>7. QED
  BY <1>1, <1>2, <1>3, <1>4, <1>5, <1>6, AttemptSaved

-----------------------------------------------------------------------------
(* The exposure                                                            *)

(* A thread that hedges has an exposure.                                   *)
LEMMA ExposureKnown ==
  ASSUME SafetyInv, NEW t \in Threads,
         \/ thr[t].pc \in HedgePoints \cup EvidencePoints \cup MatcherPoints
         \/ thr[t].pc \in CommitPoints \cup {"rec_hedge", "rec_complete"} /\ KeyOf(t)[1] = "8xbet"
  PROVE  /\ expo[Subject(t)].st # "none" /\ MayWrite(t) /\ thr[t].pc \notin {"idle", "create"}
         /\ thr[t].pc \notin MatcherPoints => KeyOf(t) \in Keys /\ KeyOf(t)[1] = "8xbet"
<1>1. KnowsKey(t, thr[t], expo) /\ t[2] = Subject(t) /\ KeyOf(t) = thr[t].key
  BY InvOf DEF Fits, Subject, KeyOf
<1>2. thr[t].pc \notin MatcherPoints => thr[t].pc \in KeyedPoints
  BY DEF KeyedPoints, ReconcilePoints
<1>3. expo[Subject(t)].st # "none"
  BY <1>1, <1>2 DEF KnowsKey
<1>4. thr[t].pc \notin {"idle", "create"}
  BY DEF HedgePoints, EvidencePoints, MatcherPoints, CommitPoints
<1>5. thr[t].pc \notin MatcherPoints => KeyOf(t) \in Keys /\ KeyOf(t)[1] = "8xbet"
  BY <1>1, <1>2 DEF KnowsKey
<1>6. QED
  BY <1>3, <1>4, <1>5 DEF MayWrite

(* The exposure is saved as it is.                                         *)
LEMMA SavedSafe ==
  ASSUME SafetyInv, NEW t \in Threads,
         \/ Evaluate(t) \/ OpenExposureRow(t)
         \/ At(t, "rec_reopen") /\ SaveExposure(t, "open") /\ UNCHANGED <<action, attempt, wire>>
  PROVE  VerdictInv'
<1>1. /\ thr[t].pc \notin {"idle", "create"} /\ UNCHANGED <<action, attempt, tickets>>
      /\ \E p \in {"open", "hedging", "open_action"} : SaveExposure(t, p)
  BY DEF Evaluate, OpenExposureRow, At, wire
<1>2. {"open", "hedging", "open_action"} \subseteq PlainPoints
  BY DEF PlainPoints
<1>3. QED
  BY <1>1, <1>2, ExposureSaved

(* The exposure gets another status, and is not completed.                 *)
LEMMA ExposureMovesSafe ==
  ASSUME SafetyInv, NEW t \in Threads,
         \/ Hedging(t) \/ HedgeChanged(t) \/ HedgeRejected(t) \/ HedgeUnknown(t)
         \/ CloseExposure(t) \/ OperatorReview(t) \/ ReopenExposure(t)
         \/ /\ At(t, "rec_reopen") /\ TransitionExposure(t, "exposure_open", "open")
            /\ UNCHANGED <<action, attempt, wire>>
  PROVE  VerdictInv'
<1>1. thr[t].pc \notin {"idle", "create"} /\ UNCHANGED <<action, attempt, tickets>>
  BY DEF Hedging, HedgeChanged, HedgeRejected, HedgeUnknown, CloseExposure, OperatorReview,
         ReopenExposure, At, wire
<1>2. \E to \in ExposureStatus \ {"completed"},
         p \in {"placing", "hedge_reprice", "open", "hedge_unknown_action", "close_action",
                "return"} :
        /\ TransitionExposure(t, to, p)
        /\ p = "placing" => to = "hedging"
        /\ p = "close_action" => to = "unhedged_closed"
  BY DEF Hedging, HedgeChanged, HedgeRejected, HedgeUnknown, CloseExposure, OperatorReview,
         ReopenExposure, ExposureStatus
<1>3. ASSUME NEW to \in ExposureStatus \ {"completed"},
             NEW p \in {"placing", "hedge_reprice", "open", "hedge_unknown_action",
                        "close_action", "return"},
             TransitionExposure(t, to, p),
             p = "placing" => to = "hedging", p = "close_action" => to = "unhedged_closed"
      PROVE  VerdictInv'
  <2>1. p \in Points \cup {"return"} /\ p \notin {"new", "abort"}
    BY DEF Points
  <2>2. to # "none"
    BY DEF ExposureStatus
  <2>3. Sees(t, Goto(t, p), action[Subject(t)].st, attempt[Subject(t)], to, tickets)
    <3>1. CASE p = "return"
      BY <3>1, ReturnedSees
    <3>2. CASE p \in {"hedge_reprice", "open"}
      BY <2>1, <3>2, GotoKnowledge, PlainSees DEF PlainPoints
    <3>3. CASE p \in {"placing", "hedge_unknown_action", "close_action"}
      BY <1>3, <2>1, <2>2, <3>3, GotoKnowledge, SeesAt DEF UnknownPoints
    <3>4. QED
      BY <3>1, <3>2, <3>3
  <2>4. QED
    BY <1>1, <1>3, <2>1, <2>3, ExposureTransition
<1>4. QED
  BY <1>2, <1>3

(* The exposure is being hedged when the action is placed at 8xbet.        *)
LEMMA PlacingSafe ==
  ASSUME SafetyInv, NEW t \in Threads, Placing(t)
  PROVE  VerdictInv'
<1>1. /\ thr[t].pc = "placing" /\ UNCHANGED <<attempt, expo, tickets>>
      /\ TransitionAction(t, "placing_8xbet", "hedge_renew") /\ "hedge_renew" \in Points
  BY DEF Placing, At, wire, Points
<1>2. MayWrite(t) /\ thr[t].pc \notin {"idle", "create"}
  BY <1>1, ExposureKnown DEF HedgePoints
<1>3. ~thr[t].expoStale => expo[Subject(t)].st = "hedging"
  BY <1>1, InvOf DEF Sees, KnowsExposure
<1>4. Sees(t, Goto(t, "hedge_renew"), "placing_8xbet", attempt[Subject(t)], expo[Subject(t)].st,
           tickets)
  BY <1>1, <1>3, GotoKnowledge, SeesAt
<1>5. QED
  BY <1>1, <1>2, <1>4, Transition DEF TerminalAction, Uncommitted

(* The reservation is renewed for the hedge, or the exposure is due again. *)
LEMMA HedgeRenewSafe ==
  ASSUME SafetyInv, NEW t \in Threads, HedgeRenew(t)
  PROVE  VerdictInv'
<1>. DEFINE a == Subject(t)
<1>1. /\ thr[t].pc = "hedge_renew" /\ UNCHANGED <<attempt, tickets>>
      /\ "new" \in Points /\ "open" \in Points
  BY DEF HedgeRenew, At, wire, Points
<1>2. /\ MayWrite(t) /\ thr[t].pc \notin {"idle", "create"} /\ KeyOf(t)[1] = "8xbet"
  BY <1>1, ExposureKnown DEF HedgePoints, MatcherPoints
<1>3. ~thr[t].expoStale => expo[a].st = "hedging"
  BY <1>1, InvOf DEF Sees, KnowsExposure
<1>4. CASE Reserve(t, "new") /\ UNCHANGED expo
  <2>. DEFINE self == Goto(t, "new")
  <2>1. CanReserve(t) /\ action' = Reserved(a) /\ Advance(t, self, {ActionRow})
    BY <1>4 DEF Reserve
  <2>2. /\ self \in ThreadState /\ self.pc = "new" /\ self.key[1] = "8xbet"
        /\ self.lag = thr[t].lag
    BY <1>1, <1>2, GotoKnowledge DEF KeyOf
  <2>. HIDE DEF self
  <2>3. NoneWaiting(attempt[a])
    BY <1>1, ExposureKnown, InvOf DEF RowsOf, HedgePoints
  <2>4. Sees(t, self, action[a].st, attempt[a], expo[a].st, tickets)
    BY <2>2, <2>3 DEF UnknownPoints, Sees, KnowsRole, KnowsStatus, KnowsExposure,
         KnowsAttempt, HoldsTicket, ExecutorPoints, CommitPoints, AttemptPoints,
         CompletionPoints, EvidencePoints
  <2>5. QED
    BY <1>1, <1>2, <1>4, <2>1, <2>2, <2>4, Reserving
<1>5. CASE /\ expo' = IF thr[t].expoStale THEN expo ELSE [expo EXCEPT ![a].st = "exposure_open"]
           /\ Advance(t, Goto(t, "open"), IF thr[t].expoStale THEN {} ELSE {ExposureRow})
           /\ UNCHANGED action
  <2>. DEFINE self == Goto(t, "open")
              row == [expo[a] EXCEPT !.st = "exposure_open"]
  <2>1. self \in ThreadState /\ self.pc = "open"
    BY <1>1, GotoKnowledge
  <2>2. expo[a] \in ExposureState /\ action[a].st # "none"
    BY <1>2, InvOf, Started DEF TypeOK
  <2>3. row.st = "exposure_open"
    BY <2>2 DEF ExposureState
  <2>4. thr[t].expoStale => expo' = expo /\ Advance(t, self, {})
    BY <1>5
  <2>5. ~thr[t].expoStale => expo' = [expo EXCEPT ![a] = row] /\ Advance(t, self, {ExposureRow})
    BY <1>5
  <2>. HIDE DEF self, row
  <2>6. self.pc \notin {"new", "abort"}
        /\ \A ac, at, ex, tk : Sees(t, self, ac, at, ex, tk)
    BY <2>1, PlainSees DEF PlainPoints
  <2>7. CASE thr[t].expoStale
    BY <1>1, <1>5, <2>1, <2>2, <2>4, <2>6, <2>7, ThreadGoes
  <2>8. CASE ~thr[t].expoStale
    BY <1>1, <1>2, <1>3, <1>5, <2>1, <2>3, <2>5, <2>6, <2>8, ExposureGoes
  <2>9. QED
    BY <2>7, <2>8
<1>6. QED
  BY <1>4, <1>5 DEF HedgeRenew

(* An exposure is completed with the ticket its thread holds.              *)
LEMMA CompletedSafe ==
  ASSUME SafetyInv, NEW t \in Threads,
         thr[t].pc \in {"hedge_done", "rec_complete", "evidence_exposure"},
         expo[Subject(t)].st \notin {"none", "completed", "unhedged_closed"},
         expo' = Completed(t), Advance(t, Goto(t, "complete"), {ExposureRow}),
         UNCHANGED <<action, attempt, tickets>>
  PROVE  VerdictInv'
<1>. DEFINE a == Subject(t)
            self == Goto(t, "complete")
            row == [expo[a] EXCEPT !.st = "completed", !.hedge = KeyOf(t)[2]]
<1>1. "complete" \in Points
  BY DEF Points
<1>2. self \in ThreadState /\ self.pc = "complete"
  BY <1>1, GotoKnowledge
<1>3. expo[a] \in ExposureState
  BY InvOf DEF TypeOK
<1>4. row.st = "completed" /\ row.hedge = KeyOf(t)[2]
  BY <1>3 DEF ExposureState
<1>5. expo' = [expo EXCEPT ![a] = row]
  BY DEF Completed
<1>6. <<a, "8xbet", KeyOf(t)[2]>> \in tickets
  BY InvOf DEF Sees, HoldsTicket, CompletionPoints, EvidencePoints, KeyOf
<1>7. row.st # "none" /\ thr[t].pc \notin {"idle", "create"}
  BY <1>4
<1>. HIDE DEF self, row
<1>8. Sees(t, self, action[a].st, attempt[a], row.st, tickets) /\ self.pc \notin {"new", "abort"}
  BY <1>2, <1>4, SeesAt
<1>9. QED
  BY <1>2, <1>4, <1>5, <1>6, <1>7, <1>8, ExposureGoes DEF self

(* An exposure is completed with the 8xbet ticket in hand.                 *)
LEMMA HedgeDoneSafe ==
  ASSUME SafetyInv, NEW t \in Threads,
         HedgeDone(t) \/ ReconcileComplete(t) \/ EvidenceExposure(t)
  PROVE  VerdictInv'
<1>1. /\ thr[t].pc \in {"hedge_done", "rec_complete", "evidence_exposure"}
      /\ UNCHANGED <<action, attempt, tickets>>
      /\ thr[t].pc \notin {"idle", "create"}
  BY DEF HedgeDone, ReconcileComplete, EvidenceExposure, At, wire
<1>2. CASE UNCHANGED expo /\ Advance(t, Returned(t), {})
  BY <1>1, <1>2, ThreadReturns
<1>3. CASE /\ expo' = Completed(t) /\ Advance(t, Goto(t, "complete"), {ExposureRow})
           /\ expo[Subject(t)].st \notin {"none", "completed", "unhedged_closed"}
  BY <1>1, <1>3, CompletedSafe
<1>4. CASE HedgeDone(t)
  BY <1>2, <1>3, <1>4, ExposureMovesFacts DEF HedgeDone, CanMoveExposure
<1>5. CASE ReconcileComplete(t)
  BY <1>2, <1>3, <1>5 DEF ReconcileComplete
<1>6. CASE EvidenceExposure(t)
  <2>1. ~thr[t].expoStale =>
          expo[Subject(t)].st \in {"exposure_open", "submission_unknown", "manual_review"}
    BY <1>6, InvOf DEF EvidenceExposure, At, Sees, KnowsExposure, EvidencePoints
  <2>2. QED
    BY <1>2, <1>3, <1>6, <2>1 DEF EvidenceExposure
<1>7. QED
  BY <1>4, <1>5, <1>6

(* A hedge that is answered or given up: the attempt is saved.             *)
LEMMA HedgeSavedSafe ==
  ASSUME SafetyInv, NEW t \in Threads,
         HedgeAnswered(t) \/ HedgeUnknownAttempt(t) \/ ReconcileHedge(t) \/ EvidenceAttempt(t)
  PROVE  VerdictInv'
<1>1. /\ UNCHANGED <<action, expo, tickets>>
      /\ \/ thr[t].pc \in HedgePoints \cup EvidencePoints
         \/ thr[t].pc \in CommitPoints \cup {"rec_hedge", "rec_complete"} /\ KeyOf(t)[1] = "8xbet"
      /\ thr[t].pc \notin MatcherPoints
  <2>1. thr[t].pc = "rec_hedge" => KeyOf(t)[1] = "8xbet"
    BY InvOf DEF Sees, HoldsTicket, CompletionPoints, KeyOf
  <2>2. QED
    BY <2>1 DEF HedgeAnswered, HedgeUnknownAttempt, ReconcileHedge, EvidenceAttempt, At, wire,
       HedgePoints, EvidencePoints, CommitPoints, MatcherPoints
<1>2. /\ expo[Subject(t)].st # "none" /\ thr[t].pc \notin {"idle", "create"}
      /\ KeyOf(t) \in Keys /\ KeyOf(t)[1] = "8xbet" /\ KeyOf(t) = thr[t].key
  BY <1>1, ExposureKnown DEF KeyOf
<1>3. ASSUME NEW st, NEW res,
             NEW p \in {"hedge_done", "hedge_unknown_attempt", "hedge_changed", "hedge_rejected",
                        "hedge_unknown", "rec_complete", "return", "evidence_exposure"},
             NEW q \in {"hedge_unknown_attempt", "return"},
             SaveAttempt(t, st, res, p, q),
             p = "hedge_done" => thr[t].rsp = "ticket_accepted",
             p = "rec_complete" => thr[t].pc = "rec_hedge",
             p = "evidence_exposure" => thr[t].pc = "evidence_attempt"
      PROVE  VerdictInv'
  <2>1. p \in Points \cup {"return"} /\ q \in Points \cup {"return"}
        /\ "hedge_unknown_attempt" \in PlainPoints
    BY DEF Points, PlainPoints
  <2>2. \A ac, at, ex : Sees(t, Goto(t, q), ac, at, ex, tickets)
    <3>1. CASE q = "return"
      BY <3>1, ReturnedSees
    <3>2. CASE q = "hedge_unknown_attempt"
      BY <2>1, <3>2, GotoKnowledge, PlainSees
    <3>3. QED
      BY <3>1, <3>2
  <2>3. Sees(t, Goto(t, p), action[Subject(t)].st, attempt'[Subject(t)], expo[Subject(t)].st,
             tickets)
    <3>1. CASE p = "return"
      BY <3>1, ReturnedSees
    <3>2. CASE p \in {"hedge_unknown_attempt", "hedge_changed", "hedge_rejected"}
      BY <2>1, <3>2, GotoKnowledge, PlainSees DEF PlainPoints
    <3>3. CASE p = "hedge_unknown"
      BY <1>2, <2>1, <3>3, GotoKnowledge, SeesAt DEF UnknownPoints
    <3>4. CASE p \in {"hedge_done", "rec_complete", "evidence_exposure"}
      <4>. DEFINE r == Goto(t, p)
      <4>1. r.pc = p /\ r.key = thr[t].key /\ r.expoStale = thr[t].expoStale
        BY <2>1, <3>4, GotoKnowledge
      <4>2. thr[t].key[1] = "8xbet" /\ <<Subject(t), "8xbet", thr[t].key[2]>> \in tickets
        BY <1>2, <1>3, <3>4, InvOf DEF Sees, HoldsTicket, CompletionPoints, EvidencePoints,
           Fits, KnowsTicket, Subject
      <4>3. p = "evidence_exposure" /\ ~thr[t].expoStale =>
              expo[Subject(t)].st \in {"exposure_open", "submission_unknown", "manual_review"}
        BY <1>3, InvOf DEF Sees, KnowsExposure, EvidencePoints
      <4>. HIDE DEF r
      <4>4. Sees(t, r, action[Subject(t)].st, attempt'[Subject(t)], expo[Subject(t)].st, tickets)
        BY <3>4, <4>1, <4>2, <4>3 DEF UnknownPoints, Sees, KnowsRole, KnowsStatus,
           KnowsExposure, KnowsAttempt, HoldsTicket, ExecutorPoints, CommitPoints,
           AttemptPoints, CompletionPoints, EvidencePoints
      <4>5. QED
        BY <4>4 DEF r
    <3>5. QED
      BY <3>1, <3>2, <3>3, <3>4
  <2>4. p \notin {"new", "abort"} /\ q \notin {"new", "abort"}
    OBVIOUS
  <2>5. QED
    BY <1>1, <1>2, <1>3, <2>1, <2>2, <2>3, <2>4, AttemptSaved
<1>4. CASE HedgeAnswered(t)
  <2>1. /\ thr[t].rsp = "ticket_accepted" =>
             \A p \in {"hedge_done", "hedge_unknown_attempt"} :
               SaveAttempt(t, "response_received", thr[t].rsp, p, "hedge_unknown_attempt") =>
                 VerdictInv'
        /\ \A p \in {"hedge_changed", "hedge_unknown_attempt", "hedge_rejected"} :
             SaveAttempt(t, "response_received", thr[t].rsp, p, "hedge_unknown_attempt") =>
               VerdictInv'
    BY <1>3
  <2>2. QED
    BY <1>4, <2>1 DEF HedgeAnswered
<1>5. CASE HedgeUnknownAttempt(t)
  BY <1>3, <1>5 DEF HedgeUnknownAttempt
<1>6. CASE ReconcileHedge(t) \/ EvidenceAttempt(t)
  <2>1. \A p \in {"rec_complete", "evidence_exposure", "return"} :
          /\ p = "rec_complete" => thr[t].pc = "rec_hedge"
          /\ p = "evidence_exposure" => thr[t].pc = "evidence_attempt"
          /\ SaveAttempt(t, "response_received", "ticket_accepted", p, "return")
          => VerdictInv'
    BY <1>3
  <2>2. QED
    BY <1>6, <2>1 DEF ReconcileHedge, EvidenceAttempt, At
<1>7. QED
  BY <1>4, <1>5, <1>6

(* The action ends as its exposure did.                                    *)
LEMMA FinishedSafe ==
  ASSUME SafetyInv, NEW t \in Threads, Complete(t) \/ CloseAction(t)
  PROVE  VerdictInv'
<1>1. thr[t].pc \in {"complete", "close_action"} /\ UNCHANGED <<attempt, expo, tickets>>
      /\ "release" \in Points
  BY DEF Complete, CloseAction, At, wire, Points
<1>2. /\ thr[t].pc = "complete" => expo[Subject(t)].st = "completed"
      /\ thr[t].pc = "close_action" => expo[Subject(t)].st = "unhedged_closed"
  BY InvOf DEF Sees, KnowsExposure
<1>3. MayWrite(t)
  BY <1>1, <1>2 DEF MayWrite
<1>4. PICK to \in {"completed", "unhedged_closed"} :
        TransitionAction(t, to, "release") /\ (to = "completed" <=> thr[t].pc = "complete")
  BY DEF Complete, CloseAction, At
<1>5. Sees(t, Goto(t, "release"), to, attempt[Subject(t)], expo[Subject(t)].st, tickets)
  BY <1>1, GotoKnowledge, SeesAt DEF TerminalAction
<1>6. to \notin Uncommitted
  BY DEF Uncommitted
<1>7. QED
  BY <1>1, <1>2, <1>3, <1>4, <1>5, <1>6, Transition

(* The action gets status exposure_open, from a status it has only with an *)
(* exposure or an unknown submission.                                      *)
LEMMA MovesFromExposed ==
  ASSUME NEW t, CanMoveAction(t, "exposure_open")
  PROVE  MayWrite(t)
<1>1. <<action[Subject(t)].st, "exposure_open">> \in ActionMoves
  BY DEF CanMoveAction
<1>2. PICK l \in DOMAIN ActionNext :
        action[Subject(t)].st = l /\ "exposure_open" \in ActionNext[l]
  BY <1>1 DEF ActionMoves
<1>3. "exposure_open" \notin ActionNext["placing_jun88"]
  BY DEF ActionNext
<1>4. QED
  BY <1>2, <1>3 DEF MayWrite

(* An action with an exposure goes back to exposure_open.                  *)
LEMMA OpenActionSafe ==
  ASSUME SafetyInv, NEW t \in Threads, OpenAction(t) \/ ReconcileJunOpen(t)
  PROVE  VerdictInv'
<1>. DEFINE a == Subject(t)
<1>1. /\ thr[t].pc \notin {"idle", "create"} /\ UNCHANGED <<attempt, expo, tickets>>
  BY DEF OpenAction, ReconcileJunOpen, At, wire
<1>2. CASE TransitionAction(t, "exposure_open", "return")
  <2>1. CanMoveAction(t, "exposure_open") => MayWrite(t)
    BY MovesFromExposed
  <2>2. "exposure_open" \notin Uncommitted \cup TerminalAction
    BY DEF Uncommitted, TerminalAction
  <2>3. QED
    BY <1>1, <1>2, <2>1, <2>2, ReturnedSees, Transition
<1>3. CASE /\ action[a].st = "exposure_open"
           /\ action' = IF thr[t].lag = 0 THEN Moved(t, "exposure_open") ELSE action
           /\ Advance(t, Returned(t), IF thr[t].lag = 0 THEN {ActionRow} ELSE {})
  <2>1. CASE thr[t].lag # 0
    BY <1>1, <1>3, <2>1, ThreadReturns
  <2>2. CASE thr[t].lag = 0
    <3>. DEFINE self == Returned(t)
                row == [action[a] EXCEPT !.st = "exposure_open", !.link = thr[t].link]
    <3>1. action' = [action EXCEPT ![a] = row] /\ Advance(t, self, {ActionRow})
      BY <1>3, <2>2 DEF Moved
    <3>2. action[a] \in ActionState
      BY InvOf DEF TypeOK
    <3>3. row.st = action[a].st /\ row.resv = action[a].resv
      BY <1>3, <3>2 DEF ActionState
    <3>4. MayWrite(t)
      BY <1>3 DEF MayWrite
    <3>5. self \in ThreadState /\ self.pc \notin {"new", "abort"}
          /\ Sees(t, self, row.st, attempt[a], expo[a].st, tickets)
      BY ReturnedSees, PlainSees
    <3>6. RowsOf(a, row.st, attempt[a], expo[a], tickets)
      BY <3>3, InvOf
    <3>. HIDE DEF self, row
    <3>7. QED
      BY <1>1, <3>1, <3>3, <3>4, <3>5, <3>6, ActionGoes
  <2>3. QED
    BY <2>1, <2>2
<1>4. QED
  BY <1>2, <1>3 DEF OpenAction, ReconcileJunOpen

(* The next round of a repriced hedge.                                     *)
LEMMA HedgeRepriceSafe ==
  ASSUME SafetyInv, NEW t \in Threads, HedgeReprice(t)
  PROVE  VerdictInv'
<1>. DEFINE a == Subject(t)
            k == KeyOf(t)
            next == [thr[t] EXCEPT !.pc = "evaluate", !.round = @ + 1, !.key = <<k[1], k[2] + 1>>]
            self == IF thr[t].round < MaxHedgeRounds THEN next ELSE Goto(t, "open")
            row == [action[a] EXCEPT !.st = "exposure_open", !.link = thr[t].link]
<1>1. /\ thr[t].pc = "hedge_reprice" /\ thr[t].pc \notin {"idle", "create"}
      /\ UNCHANGED <<attempt, expo, tickets>>
  BY DEF HedgeReprice, At, wire
<1>2. CASE Advance(t, Returned(t), {}) /\ UNCHANGED action
  BY <1>1, <1>2, ThreadReturns
<1>3. CASE /\ CanMoveAction(t, "exposure_open") /\ action' = Moved(t, "exposure_open")
           /\ Advance(t, self, {ActionRow})
  <2>1. /\ KnowsRound(thr[t]) /\ k \in Keys /\ k[1] = "8xbet" /\ thr[t] \in ThreadState
        /\ k = thr[t].key
    BY <1>1, InvOf, ExposureKnown DEF Fits, HedgePoints, MatcherPoints, KeyOf
  <2>2. thr[t].round < MaxHedgeRounds => next \in ThreadState /\ next.pc = "evaluate"
    <3>. SUFFICES ASSUME thr[t].round < MaxHedgeRounds
                  PROVE  next \in ThreadState /\ next.pc = "evaluate"
      OBVIOUS
    <3>1. k[2] + MaxHedgeRounds <= MaxCommits + thr[t].round /\ k[2] \in 1 .. MaxCommits
      BY <1>1, <2>1 DEF KnowsRound, HedgePoints, Keys
    <3>2. thr[t].round \in 0 .. MaxCommits
      BY <2>1 DEF ThreadState
    <3>3. /\ <<k[1], k[2] + 1>> \in Keys /\ thr[t].round + 1 \in 0 .. MaxCommits
          /\ "evaluate" \in Points
      BY <2>1, <3>1, <3>2, Bounds DEF Keys, Bookmakers, Points
    <3>4. QED
      BY <2>1, <3>3 DEF ThreadState
  <2>3. Goto(t, "open") \in ThreadState /\ Goto(t, "open").pc = "open"
    BY GotoKnowledge DEF Points
  <2>4. self \in ThreadState /\ self.pc \in {"evaluate", "open"}
    BY <2>2, <2>3
  <2>5. action' = [action EXCEPT ![a] = row]
    BY <1>3 DEF Moved
  <2>6. action[a] \in ActionState
    BY InvOf DEF TypeOK
  <2>7. row.st = "exposure_open" /\ row.resv = action[a].resv
    BY <2>6 DEF ActionState
  <2>8. MayWrite(t) /\ <<action[a].st, "exposure_open">> \in ActionMoves
    BY <1>3, MovesFromExposed DEF CanMoveAction
  <2>9. action[a].st \notin TerminalAction /\ row.st # "none"
    BY <2>7, <2>8, ActionMovesFacts
  <2>10. RowsOf(a, row.st, attempt[a], expo[a], tickets)
    BY <2>7, <2>8, RowsMove, InvOf DEF Uncommitted, TerminalAction
  <2>. HIDE DEF self, row
  <2>11. self.pc \notin {"new", "abort"}
         /\ Sees(t, self, row.st, attempt[a], expo[a].st, tickets)
    BY <2>4, PlainSees DEF PlainPoints
  <2>12. QED
    BY <1>1, <1>3, <2>4, <2>5, <2>7, <2>8, <2>9, <2>10, <2>11, ActionGoes
<1>4. QED
  BY <1>2, <1>3 DEF HedgeReprice

-----------------------------------------------------------------------------
(* Matcher, reconciliation and operator                                    *)

(* A thread goes where there is nothing to know.                           *)
LEMMA PlainGoes ==
  ASSUME SafetyInv, NEW t \in Threads, NEW self \in ThreadState, NEW written,
         Advance(t, self, written), ActionRow \notin written,
         UNCHANGED <<action, attempt, expo, tickets>>, self.pc \in PlainPoints,
         action[Subject(t)].st # "none"
  PROVE  VerdictInv'
<1>1. /\ Sees(t, self, action[Subject(t)].st, attempt[Subject(t)], expo[Subject(t)].st, tickets)
      /\ self.pc \notin {"new", "abort"}
  BY PlainSees
<1>2. QED
  BY <1>1, ThreadGoes

(* The exposure's lease is taken or given back.                            *)
LEMMA LeaseSafe ==
  ASSUME SafetyInv, NEW t \in Threads, NEW self \in ThreadState, NEW b \in BOOLEAN,
         Advance(t, self, {ExposureRow}), expo' = [expo EXCEPT ![Subject(t)].leased = b],
         UNCHANGED <<action, attempt, tickets>>, self.pc \in PlainPoints,
         thr[t].pc \notin {"idle", "create"}
  PROVE  VerdictInv'
<1>. DEFINE row == [expo[Subject(t)] EXCEPT !.leased = b]
<1>1. expo[Subject(t)] \in ExposureState
  BY InvOf DEF TypeOK
<1>2. row.st = expo[Subject(t)].st /\ row.hedge = expo[Subject(t)].hedge
  BY <1>1 DEF ExposureState
<1>3. expo' = [expo EXCEPT ![Subject(t)] = row]
  OBVIOUS
<1>. HIDE DEF row
<1>4. /\ Sees(t, self, action[Subject(t)].st, attempt[Subject(t)], row.st, tickets)
      /\ self.pc \notin {"new", "abort"}
  BY PlainSees
<1>5. QED
  BY <1>2, <1>3, <1>4, ExposureGoes

(* An action with an exposure is there.                                    *)
LEMMA ExposedStarted ==
  ASSUME SafetyInv, NEW a \in Actions, expo[a].st # "none"
  PROVE  action[a].st # "none"
  BY StatusFacts DEF SafetyInv, VerdictInv, RowsAgree, RowsOf, Uncommitted

(* A matcher or an operator starts on an exposure.                         *)
LEMMA ListSafe ==
  ASSUME SafetyInv, NEW a \in Actions, HedgeList(a) \/ OperatorReads(a) \/ ReconcileManually(a)
  PROVE  VerdictInv'
<1>. DEFINE matcher == [Idle EXCEPT !.pc = "lease"]
            operator == [Idle EXCEPT !.pc = "resolve"]
            manual == [Idle EXCEPT !.pc = "listed", !.lag = 0, !.link = action[a].link]
<1>1. Idle \in ThreadState /\ {"lease", "resolve", "listed"} \subseteq Points
      /\ action[a] \in ActionState
  <2>1. Idle \in ThreadState
    BY Bounds DEF Idle, ThreadState, Points, Links
  <2>2. QED
    BY <2>1 DEF SafetyInv, IInv, TypeOK, Points
<1>2. /\ matcher \in ThreadState /\ matcher.pc = "lease"
      /\ operator \in ThreadState /\ operator.pc = "resolve"
      /\ manual \in ThreadState /\ manual.pc = "listed"
  <2>1. action[a].link \in Links /\ 0 \in 0 .. 2
    BY <1>1 DEF ActionState
  <2>2. matcher \in ThreadState /\ matcher.pc = "lease"
    BY <1>1 DEF ThreadState
  <2>3. operator \in ThreadState /\ operator.pc = "resolve"
    BY <1>1 DEF ThreadState
  <2>4. manual \in ThreadState /\ manual.pc = "listed"
    BY <1>1, <2>1 DEF ThreadState
  <2>5. QED
    BY <2>2, <2>3, <2>4
<1>3. CASE HedgeList(a)
  <2>. DEFINE t == <<"hedge", a>>
  <2>1. t \in Threads /\ Subject(t) = a
    BY <1>3 DEF HedgeList, Threads, Subject
  <2>2. Advance(t, matcher, {}) /\ UNCHANGED <<action, attempt, expo, tickets>>
        /\ action[a].st # "none"
    BY <1>3, ExposedStarted DEF HedgeList, rows, wire
  <2>3. matcher.pc \in PlainPoints
    BY <1>2 DEF PlainPoints
  <2>. HIDE DEF t, matcher
  <2>4. QED
    BY <1>2, <2>1, <2>2, <2>3, PlainGoes
<1>4. CASE OperatorReads(a)
  <2>. DEFINE t == <<"operate", a>>
  <2>1. t \in Threads /\ Subject(t) = a
    BY <1>4 DEF OperatorReads, Threads, Subject
  <2>2. /\ Advance(t, operator, {}) /\ UNCHANGED <<action, attempt, expo, tickets>>
        /\ expo[a].st \in {"exposure_open", "submission_unknown", "manual_review"}
        /\ action[a].st # "none"
    BY <1>4, ExposedStarted DEF OperatorReads, rows, wire
  <2>. HIDE DEF t, operator
  <2>3. Sees(t, operator, action[a].st, attempt[a], expo[a].st, tickets)
    BY <1>2, <2>2 DEF UnknownPoints, Sees, KnowsRole, KnowsStatus, KnowsExposure, KnowsAttempt,
       HoldsTicket, ExecutorPoints, CommitPoints, AttemptPoints, CompletionPoints,
       EvidencePoints
  <2>4. QED
    BY <1>2, <2>1, <2>2, <2>3, ThreadGoes
<1>5. CASE ReconcileManually(a)
  <2>. DEFINE t == <<"manual", a>>
  <2>1. t \in Threads /\ Subject(t) = a
    BY <1>5 DEF ReconcileManually, Threads, Subject
  <2>2. /\ Advance(t, manual, {}) /\ UNCHANGED <<action, attempt, expo, tickets>>
        /\ action[a].st \in Reconcilable
    BY <1>5, <2>1 DEF ReconcileManually, Reading, rows, wire
  <2>3. action[a].st # "none"
    BY <2>2 DEF Reconcilable
  <2>. HIDE DEF t, manual
  <2>4. Sees(t, manual, action[a].st, attempt[a], expo[a].st, tickets)
    BY <1>2, <2>2 DEF UnknownPoints, Sees, KnowsRole, KnowsStatus, KnowsExposure, KnowsAttempt,
       HoldsTicket, ExecutorPoints, CommitPoints, AttemptPoints, CompletionPoints,
       EvidencePoints
  <2>5. QED
    BY <1>2, <2>1, <2>2, <2>3, <2>4, ThreadGoes
<1>6. QED
  BY <1>3, <1>4, <1>5

(* What a thread that has read the action knows.                           *)
LEMMA ReadingKnowledge ==
  ASSUME SafetyInv, NEW t \in Threads, NEW r \in ThreadState
  PROVE  /\ Reading(t, r) \in ThreadState /\ Reading(t, r).pc = r.pc
         /\ Reading(t, r).key = r.key /\ Reading(t, r).expoStale = r.expoStale
         /\ Reading(t, r).lag = 0
<1>. DEFINE l == action[Subject(t)].link
<1>1. l \in Links /\ 0 \in 0 .. 2
  BY InvOf DEF TypeOK, ActionState
<1>2. Reading(t, r) = [r EXCEPT !.lag = 0, !.link = l]
  BY DEF Reading
<1>. HIDE DEF l
<1>3. QED
  BY <1>1, <1>2 DEF ThreadState

(* The steps only the matcher takes.                                       *)
LEMMA MatcherSafe ==
  ASSUME SafetyInv, NEW t \in Threads,
         HedgeLease(t) \/ HedgeMatch(t) \/ HedgeReserve(t) \/ HedgePrepare(t) \/ Unlease(t)
  PROVE  VerdictInv'
<1>1. /\ thr[t].pc \notin {"idle", "create"} /\ action[Subject(t)].st # "none"
      /\ UNCHANGED <<attempt, tickets>> /\ thr[t] \in ThreadState
  BY InvOf, Started DEF HedgeLease, HedgeMatch, HedgeReserve, HedgePrepare, Unlease, At, rows, wire
<1>2. {"match", "hedge_reserve", "hedge_prepare", "close", "evaluate", "idle"} \subseteq PlainPoints
      /\ PlainPoints \subseteq Points
  BY DEF PlainPoints, Points
<1>3. CASE HedgeLease(t)
  <2>1. CASE thr[t].expoStale
    BY <1>1, <1>3, <2>1, ThreadReturns DEF HedgeLease
  <2>2. CASE ~thr[t].expoStale
    <3>. DEFINE self == Goto(t, "match")
    <3>1. Advance(t, self, {ExposureRow}) /\ expo' = [expo EXCEPT ![Subject(t)].leased = TRUE]
          /\ UNCHANGED <<action, attempt, tickets>>
      BY <1>1, <1>3, <2>2 DEF HedgeLease
    <3>2. self \in ThreadState /\ self.pc \in PlainPoints
      BY <1>2, GotoKnowledge
    <3>. HIDE DEF self
    <3>3. QED
      BY <1>1, <3>1, <3>2, LeaseSafe
  <2>3. QED
    BY <2>1, <2>2
<1>4. CASE HedgeMatch(t)
  <2>1. UNCHANGED <<action, attempt, expo, tickets>>
    BY <1>4 DEF HedgeMatch, rows, wire
  <2>2. CASE Advance(t, Returned(t), {})
    BY <1>1, <2>1, <2>2, ThreadReturns
  <2>3. ASSUME NEW p \in {"close", "hedge_reserve"},
               Advance(t, Reading(t, [thr[t] EXCEPT !.pc = p]), {})
        PROVE  VerdictInv'
    <3>. DEFINE r == [thr[t] EXCEPT !.pc = p]
                self == Reading(t, r)
    <3>1. r \in ThreadState /\ r.pc = p
      BY <1>1, <1>2 DEF ThreadState
    <3>2. self \in ThreadState /\ self.pc = p
      BY <3>1, ReadingKnowledge
    <3>. HIDE DEF self
    <3>3. QED
      BY <1>1, <1>2, <2>1, <2>3, <3>2, PlainGoes DEF self
  <2>4. QED
    BY <1>4, <2>2, <2>3 DEF HedgeMatch
<1>5. CASE HedgeReserve(t)
  <2>1. expo' = expo /\ MayWrite(t)
    BY <1>5, ExposureKnown DEF HedgeReserve, At, MatcherPoints
  <2>2. CASE Advance(t, Returned(t), {}) /\ UNCHANGED action
    BY <1>1, <2>1, <2>2, ThreadReturns
  <2>3. CASE Reserve(t, "hedge_prepare")
    <3>. DEFINE self == Goto(t, "hedge_prepare")
    <3>1. CanReserve(t) /\ action' = Reserved(Subject(t)) /\ Advance(t, self, {ActionRow})
      BY <2>3 DEF Reserve
    <3>2. self \in ThreadState /\ self.pc = "hedge_prepare"
      BY <1>2, GotoKnowledge
    <3>. HIDE DEF self
    <3>3. /\ Sees(t, self, action[Subject(t)].st, attempt[Subject(t)], expo[Subject(t)].st, tickets)
          /\ self.pc # "abort"
      BY <1>2, <3>2, PlainSees
    <3>4. QED
      BY <1>1, <2>1, <3>1, <3>2, <3>3, Reserving
  <2>4. QED
    BY <1>5, <2>2, <2>3 DEF HedgeReserve
<1>6. CASE HedgePrepare(t)
  <2>1. UNCHANGED <<action, attempt, expo, tickets>>
    BY <1>6 DEF HedgePrepare, rows, wire
  <2>2. ASSUME NEW n \in 1 .. MaxCommits,
               Advance(t, [thr[t] EXCEPT !.pc = "evaluate", !.key = <<"8xbet", n>>], {})
        PROVE  VerdictInv'
    <3>. DEFINE self == [thr[t] EXCEPT !.pc = "evaluate", !.key = <<"8xbet", n>>]
    <3>1. <<"8xbet", n>> \in Keys
      BY DEF Keys, Bookmakers
    <3>2. self \in ThreadState /\ self.pc = "evaluate"
      BY <1>1, <1>2, <3>1 DEF ThreadState
    <3>. HIDE DEF self
    <3>3. QED
      BY <1>1, <1>2, <2>1, <2>2, <3>2, PlainGoes DEF self
  <2>3. CASE Advance(t, Returned(t), IF thr[t].expoStale THEN {} ELSE {ExposureRow})
    <3>1. ActionRow \notin IF thr[t].expoStale THEN {} ELSE {ExposureRow}
      BY DEF ActionRow, ExposureRow
    <3>2. QED
      BY <1>1, <2>1, <2>3, <3>1, ThreadReturns
  <2>4. QED
    BY <1>6, <2>2, <2>3 DEF HedgePrepare, FirstOfRounds
<1>7. CASE Unlease(t)
  <2>1. UNCHANGED <<action, attempt, tickets>>
    BY <1>1, <1>7 DEF Unlease
  <2>2. CASE Advance(t, Idle, {}) /\ UNCHANGED expo
    BY <1>1, <2>1, <2>2, ThreadReturns
  <2>3. CASE Advance(t, Idle, {ExposureRow}) /\ expo' = [expo EXCEPT ![Subject(t)].leased = FALSE]
    BY <1>1, <2>1, <2>3, ReturnedSees, LeaseSafe
  <2>4. QED
    BY <1>7, <2>2, <2>3 DEF Unlease
<1>8. QED
  BY <1>3, <1>4, <1>5, <1>6, <1>7

(* What a thread that reconciles knows.                                    *)
LEMMA ReconcilerKnows ==
  ASSUME SafetyInv, NEW t \in Threads, thr[t].pc \in {"ask", "answer"}
  PROVE  /\ KeyOf(t) = thr[t].key /\ KeyOf(t) \in Keys
         /\ KeyOf(t)[1] \in {"jun88", "8xbet"} /\ thr[t].pc \in AttemptPoints
         /\ thr[t].lag = 0 => action[Subject(t)].st \in Reconcilable
         /\ KeyOf(t)[1] = "jun88" /\ ~thr[t].attStale =>
              Waiting(attempt[Subject(t)], KeyOf(t)[2])
<1>1. KeyOf(t) = thr[t].key /\ thr[t].key \in Keys
  BY InvOf DEF Fits, KnowsKey, KeyedPoints, ReconcilePoints, KeyOf
<1>2. KeyOf(t)[1] \in {"jun88", "8xbet"}
  BY <1>1 DEF Keys, Bookmakers
<1>3. thr[t].pc \in AttemptPoints
  BY DEF AttemptPoints
<1>4. thr[t].lag = 0 => action[Subject(t)].st \in Reconcilable
  BY InvOf DEF Sees, KnowsStatus
<1>5. QED
  BY <1>1, <1>2, <1>3, <1>4, KnownWaiting

(* The points of a reconciliation before its answer is applied.            *)
LEMMA ReconcilerSees ==
  ASSUME NEW t, NEW r, NEW ac, NEW at, NEW ex, NEW tk, r.pc \in {"ask", "answer", "rec_jun"},
         r.lag = 0 => ac \in Reconcilable,
         r.key[1] = "jun88" /\ ~r.attStale => Waiting(at, r.key[2])
  PROVE  Sees(t, r, ac, at, ex, tk) /\ r.pc \notin {"new", "abort"}
  BY DEF UnknownPoints, Sees, KnowsRole, KnowsStatus, KnowsExposure, KnowsAttempt, HoldsTicket,
     ExecutorPoints, CommitPoints, AttemptPoints, CompletionPoints, EvidencePoints

(* Reconciliation picks an unanswered commit.                              *)
LEMMA PickAttemptSafe ==
  ASSUME SafetyInv, NEW t \in Threads, PickAttempt(t)
  PROVE  VerdictInv'
<1>. DEFINE a == Subject(t)
<1>1. /\ thr[t].pc = "listed" /\ thr[t].pc \notin {"idle", "create"}
      /\ UNCHANGED <<action, attempt, expo, tickets>> /\ action[a].st # "none"
  BY Started DEF PickAttempt, At, rows, wire
<1>2. CASE Advance(t, Idle, {})
  BY <1>1, <1>2, ThreadReturns
<1>3. ASSUME NEW k \in PendingKeys(a), Advance(t, [Goto(t, "ask") EXCEPT !.key = k], {})
      PROVE  VerdictInv'
  <2>. DEFINE self == [Goto(t, "ask") EXCEPT !.key = k]
  <2>1. k \in Keys /\ attempt[a][k].st \in PendingAttempt
    BY DEF PendingKeys
  <2>2. Goto(t, "ask") \in ThreadState /\ Goto(t, "ask").pc = "ask"
        /\ Goto(t, "ask").lag = thr[t].lag
    BY GotoKnowledge DEF Points
  <2>3. self \in ThreadState /\ self.pc = "ask" /\ self.key = k /\ self.lag = thr[t].lag
    BY <2>1, <2>2 DEF ThreadState
  <2>. HIDE DEF self
  <2>4. thr[t].lag = 0 => action[a].st \in Reconcilable
    BY <1>1, InvOf DEF Sees, KnowsStatus
  <2>5. k[1] = "jun88" => Waiting(attempt[a], k[2])
    <3>1. k[1] = "jun88" => k = <<"jun88", k[2]>>
      BY <2>1 DEF Keys
    <3>2. PendingAttempt \subseteq Unsettled
      BY DEF PendingAttempt, Unsettled, AttemptStatus
    <3>3. QED
      BY <2>1, <3>1, <3>2 DEF Waiting
  <2>6. /\ Sees(t, self, action[a].st, attempt[a], expo[a].st, tickets)
        /\ self.pc \notin {"new", "abort"}
    BY <2>3, <2>4, <2>5, ReconcilerSees
  <2>7. QED
    BY <1>1, <1>3, <2>3, <2>6, ThreadGoes DEF self
<1>4. QED
  BY <1>2, <1>3 DEF PickAttempt

(* Reconciliation asks, hears nothing, or hears of a ticket.               *)
LEMMA AskSafe ==
  ASSUME SafetyInv, NEW t \in Threads,
         SendReconcile(t) \/ ReconcileUnanswered(t) \/ ReconcileTicket(t)
  PROVE  VerdictInv'
<1>. DEFINE a == Subject(t)
<1>1. /\ thr[t].pc \in {"ask", "answer"} /\ thr[t].pc \notin {"idle", "create"}
      /\ UNCHANGED <<action, attempt, expo, tickets>> /\ action[a].st # "none"
  BY Started DEF SendReconcile, ReconcileUnanswered, ReconcileTicket, At, rows, wire
<1>2. /\ KeyOf(t) = thr[t].key /\ KeyOf(t) \in Keys
      /\ KeyOf(t)[1] \in {"jun88", "8xbet"}
      /\ thr[t].lag = 0 => action[a].st \in Reconcilable
      /\ KeyOf(t)[1] = "jun88" /\ ~thr[t].attStale => Waiting(attempt[a], KeyOf(t)[2])
  BY <1>1, ReconcilerKnows
<1>3. CASE Advance(t, Idle, {}) \/ Advance(t, Returned(t), {})
  BY <1>1, <1>3, ThreadReturns
<1>4. ASSUME NEW p \in {"answer", "rec_jun"}, Advance(t, Goto(t, p), {})
      PROVE  VerdictInv'
  <2>. DEFINE self == Goto(t, p)
  <2>1. /\ self \in ThreadState /\ self.pc = p /\ self.key = thr[t].key
        /\ self.lag = thr[t].lag /\ self.attStale = thr[t].attStale
    BY GotoKnowledge DEF Points
  <2>. HIDE DEF self
  <2>2. /\ Sees(t, self, action[a].st, attempt[a], expo[a].st, tickets)
        /\ self.pc \notin {"new", "abort"}
    BY <1>2, <2>1, ReconcilerSees
  <2>3. QED
    BY <1>1, <1>4, <2>1, <2>2, ThreadGoes DEF self
<1>5. CASE /\ thr[t].pc = "answer" /\ thr[t].rsp = "ticket_accepted" /\ KeyOf(t)[1] # "jun88"
           /\ Advance(t, [Goto(t, "rec_hedge") EXCEPT !.expoStale = FALSE], {})
  <2>. DEFINE self == [Goto(t, "rec_hedge") EXCEPT !.expoStale = FALSE]
  <2>1. Goto(t, "rec_hedge") \in ThreadState /\ Goto(t, "rec_hedge").pc = "rec_hedge"
        /\ Goto(t, "rec_hedge").key = thr[t].key
    BY GotoKnowledge DEF Points
  <2>2. self \in ThreadState /\ self.pc = "rec_hedge" /\ self.key = thr[t].key
    BY <2>1 DEF ThreadState
  <2>3. thr[t].key[1] = "8xbet" /\ <<a, "8xbet", thr[t].key[2]>> \in tickets
    BY <1>2, <1>5, InvOf DEF Fits, KnowsTicket, Subject
  <2>. HIDE DEF self
  <2>4. Sees(t, self, action[a].st, attempt[a], expo[a].st, tickets)
    BY <2>2, <2>3 DEF UnknownPoints, Sees, KnowsRole, KnowsStatus, KnowsExposure, KnowsAttempt,
       HoldsTicket, ExecutorPoints, CommitPoints, AttemptPoints, CompletionPoints,
       EvidencePoints
  <2>5. QED
    BY <1>1, <1>5, <2>2, <2>4, ThreadGoes DEF self
<1>6. CASE SendReconcile(t)
  BY <1>3, <1>4, <1>6 DEF SendReconcile
<1>7. CASE ReconcileUnanswered(t)
  BY <1>3, <1>7 DEF ReconcileUnanswered
<1>8. CASE ReconcileTicket(t)
  <2>1. Goto(t, "return") = Returned(t)
    BY ReturnedSees
  <2>2. QED
    BY <1>3, <1>4, <1>5, <1>8, <2>1 DEF ReconcileTicket, At
<1>9. QED
  BY <1>6, <1>7, <1>8

(* Reconciliation hears that there is no ticket: the commit is answered.   *)
LEMMA ReconcileNoTicketSafe ==
  ASSUME SafetyInv, NEW t \in Threads, ReconcileNoTicket(t)
  PROVE  VerdictInv'
<1>. DEFINE a == Subject(t)
<1>1. thr[t].pc \in {"ask", "answer"} /\ thr[t].pc \notin {"idle", "create"}
      /\ UNCHANGED <<action, expo, tickets>>
  BY DEF ReconcileNoTicket, At, wire
<1>2. KeyOf(t) \in Keys /\ thr[t].pc \in AttemptPoints
  BY <1>1, ReconcilerKnows
<1>3. PICK p \in {"abort", "rec_read", "return"} :
        /\ SaveAttempt(t, "response_received", thr[t].rsp, p, "return")
        /\ p = "abort" => KeyOf(t)[1] = "jun88"
  BY Zenon DEF ReconcileNoTicket
<1>4. ASSUME ~thr[t].attStale
      PROVE  Sees(t, Goto(t, p), action[a].st, attempt'[a], expo[a].st, tickets)
  <2>1. {"abort", "rec_read"} \subseteq Points
    BY DEF Points
  <2>2. CASE p = "abort"
    <3>1. NoneWaiting(attempt'[a]) /\ expo[a].st = "none"
      BY <1>2, <1>3, <1>4, <2>2, Answered
    <3>2. QED
      BY <2>1, <2>2, <3>1, GotoKnowledge, SeesAt
  <2>3. CASE p = "rec_read"
    BY <2>1, <2>3, GotoKnowledge, PlainSees DEF PlainPoints
  <2>4. CASE p = "return"
    BY <2>4, ReturnedSees
  <2>5. QED
    BY <2>2, <2>3, <2>4
<1>5. p \in Points \cup {"return"}
  BY DEF Points
<1>6. Sees(t, Goto(t, "return"), action[a].st, attempt[a], expo[a].st, tickets)
  BY ReturnedSees
<1>7. QED
  BY <1>1, <1>2, <1>3, <1>4, <1>5, <1>6, AttemptSaved

(* After that the exposure is due again.                                   *)
LEMMA ReopenSafe ==
  ASSUME SafetyInv, NEW t \in Threads, ReconcileRead(t) \/ ReconcileReopen(t)
  PROVE  VerdictInv'
<1>1. CASE ReconcileRead(t)
  <2>. DEFINE self == [Goto(t, "rec_reopen") EXCEPT !.expoStale = FALSE]
  <2>1. Goto(t, "rec_reopen") \in ThreadState /\ Goto(t, "rec_reopen").pc = "rec_reopen"
    BY GotoKnowledge DEF Points
  <2>2. self \in ThreadState /\ self.pc \in PlainPoints
    BY <2>1 DEF ThreadState, PlainPoints
  <2>3. /\ Advance(t, self, {}) /\ UNCHANGED <<action, attempt, expo, tickets>>
        /\ action[Subject(t)].st # "none"
    BY <1>1, Started DEF ReconcileRead, At, rows, wire
  <2>. HIDE DEF self
  <2>4. QED
    BY <2>2, <2>3, PlainGoes
<1>2. CASE ReconcileReopen(t)
  BY <1>2, SavedSafe, ExposureMovesSafe DEF ReconcileReopen
<1>3. QED
  BY <1>1, <1>2

(* The operator reads the action and chooses.                              *)
LEMMA OperatorSafe ==
  ASSUME SafetyInv, NEW t \in Threads,
         OperatorReopen(t) \/ OperatorClose(t) \/ OperatorTicket(t) \/ OperatorRefused(t)
  PROVE  VerdictInv'
<1>. DEFINE a == Subject(t)
<1>1. /\ thr[t].pc = "resolve" /\ thr[t].pc \notin {"idle", "create"}
      /\ UNCHANGED <<action, attempt, expo, tickets>>
      /\ action[a].st # "none" /\ thr[t] \in ThreadState
  BY Started, InvOf DEF OperatorReopen, OperatorClose, OperatorTicket, OperatorRefused, At,
     rows, wire
<1>2. ASSUME NEW p \in {"reopen", "close"},
             Advance(t, Reading(t, [thr[t] EXCEPT !.pc = p]), {})
      PROVE  VerdictInv'
  <2>. DEFINE r == [thr[t] EXCEPT !.pc = p]
              self == Reading(t, r)
  <2>1. r \in ThreadState /\ r.pc = p
    BY <1>1 DEF ThreadState, Points
  <2>2. self \in ThreadState /\ self.pc \in PlainPoints
    BY <2>1, ReadingKnowledge DEF PlainPoints
  <2>. HIDE DEF self
  <2>3. QED
    BY <1>1, <1>2, <2>2, PlainGoes DEF self
<1>3. ASSUME NEW n \in 1 .. MaxCommits, <<a, "8xbet", n>> \in tickets,
             NEW p \in {"evidence_exposure", "evidence_attempt"},
             Advance(t, Reading(t, [thr[t] EXCEPT !.key = <<"8xbet", n>>, !.attStale = FALSE,
                                      !.pc = p]), {})
      PROVE  VerdictInv'
  <2>. DEFINE r == [thr[t] EXCEPT !.key = <<"8xbet", n>>, !.attStale = FALSE, !.pc = p]
              self == Reading(t, r)
  <2>1. <<"8xbet", n>> \in Keys /\ p \in Points
    BY DEF Keys, Bookmakers, Points
  <2>2. /\ r \in ThreadState /\ r.pc = p /\ r.key = <<"8xbet", n>>
        /\ r.expoStale = thr[t].expoStale
    BY <1>1, <2>1 DEF ThreadState
  <2>3. /\ self \in ThreadState /\ self.pc = p /\ self.key = <<"8xbet", n>>
        /\ self.expoStale = thr[t].expoStale
    BY <2>2, ReadingKnowledge
  <2>. HIDE DEF self
  <2>4. ~thr[t].expoStale =>
          expo[a].st \in {"exposure_open", "submission_unknown", "manual_review"}
    BY <1>1, InvOf DEF Sees, KnowsExposure
  <2>5. Sees(t, self, action[a].st, attempt[a], expo[a].st, tickets)
    BY <1>3, <2>3, <2>4 DEF UnknownPoints, Sees, KnowsRole, KnowsStatus, KnowsExposure,
       KnowsAttempt, HoldsTicket, ExecutorPoints, CommitPoints, AttemptPoints,
       CompletionPoints, EvidencePoints
  <2>6. QED
    BY <1>1, <1>3, <2>3, <2>5, ThreadGoes DEF self
<1>4. CASE OperatorReopen(t) \/ OperatorClose(t)
  BY <1>2, <1>4 DEF OperatorReopen, OperatorClose
<1>5. CASE OperatorTicket(t)
  BY <1>3, <1>5 DEF OperatorTicket, CommitNumbers
<1>6. CASE OperatorRefused(t)
  BY <1>1, <1>6, ThreadReturns DEF OperatorRefused
<1>7. QED
  BY <1>4, <1>5, <1>6

(* Every step of a thread keeps the invariant.                             *)
LEMMA ThreadStepSafe ==
  ASSUME SafetyInv, NEW t \in Threads, ThreadStep(t)
  PROVE  VerdictInv'
<1>1. CASE ExecutorStep(t)
  BY <1>1, CreateActionSafe, ReserveAccountSafe, PrepareBothSafe, JunStartSafe, JunRenewSafe,
     JunAcceptedSafe, JunRefusedSafe, JunChangedSafe, JunReallocateSafe, UnknownSafe,
     JunTicketSafe, AbortSafe, ReleaseSafe DEF ExecutorStep
<1>2. CASE AttemptStep(t)
  BY <1>2, NewAttemptSafe, CommitSavedSafe, CommitGoesSafe DEF AttemptStep
<1>3. CASE HedgeStep(t)
  BY <1>3, SavedSafe, ExposureMovesSafe, PlacingSafe, HedgeRenewSafe, HedgeSavedSafe,
     HedgeDoneSafe, FinishedSafe, HedgeRepriceSafe, OpenActionSafe, UnknownSafe DEF HedgeStep
<1>4. CASE MatcherStep(t)
  BY <1>4, MatcherSafe, ExposureMovesSafe, FinishedSafe DEF MatcherStep
<1>5. CASE ReconcileStep(t)
  BY <1>5, PickAttemptSafe, AskSafe, ReconcileNoTicketSafe, JunTicketSafe, OpenActionSafe,
     HedgeSavedSafe, HedgeDoneSafe, ReopenSafe DEF ReconcileStep
<1>6. CASE OperatorStep(t)
  BY <1>6, OperatorSafe, ExposureMovesSafe, HedgeSavedSafe, HedgeDoneSafe DEF OperatorStep
<1>7. QED
  BY <1>1, <1>2, <1>3, <1>4, <1>5, <1>6 DEF ThreadStep

-----------------------------------------------------------------------------
(* Collectors, time and faults                                             *)

SameView(r, s) ==
  /\ r.pc = s.pc /\ r.key = s.key /\ r.lag = s.lag
  /\ r.expoStale = s.expoStale /\ r.attStale = s.attStale

(* Steps of nobody's thread: they write no status, and a thread they touch *)
(* starts over or is only told something.                                  *)
LEMMA Elsewhere ==
  ASSUME SafetyInv,
         \A a \in Actions :
           /\ action'[a].st = action[a].st
           /\ action'[a].resv = "none" <=> action[a].resv = "none"
           /\ attempt'[a] = attempt[a]
           /\ expo'[a].st = expo[a].st /\ expo'[a].hedge = expo[a].hedge,
         tickets \subseteq tickets',
         \A u \in Threads :
           \/ SameView(thr'[u], thr[u])
           \/ /\ thr'[u].pc \notin {"new", "abort"}
              /\ thr'[u].pc = "idle" \/ action[Subject(u)].st # "none"
              /\ Sees(u, thr'[u], action[Subject(u)].st, attempt[Subject(u)],
                      expo[Subject(u)].st, tickets)
  PROVE  VerdictInv'
<1>1. ThreadsSee'
  <2>. SUFFICES ASSUME NEW u \in Threads
                PROVE  Sees(u, thr'[u], action'[Subject(u)].st, attempt'[Subject(u)],
                            expo'[Subject(u)].st, tickets')
    BY DEF ThreadsSee
  <2>1. Subject(u) \in Actions
        /\ Sees(u, thr[u], action[Subject(u)].st, attempt[Subject(u)], expo[Subject(u)].st, tickets)
    BY InvOf
  <2>2. Sees(u, thr'[u], action[Subject(u)].st, attempt[Subject(u)], expo[Subject(u)].st, tickets)
    <3>1. CASE SameView(thr'[u], thr[u])
      BY <2>1, <3>1 DEF SameView, Sees, KnowsRole, KnowsStatus, KnowsExposure, KnowsAttempt,
         HoldsTicket
    <3>2. QED
      BY <3>1
  <2>3. HoldsTicket(u, thr'[u], tickets')
    BY <2>2 DEF Sees, HoldsTicket
  <2>4. QED
    BY <2>1, <2>2, <2>3 DEF Sees
<1>2. RowsAgree'
  <2>. SUFFICES ASSUME NEW a \in Actions
                PROVE  /\ RowsOf(a, action'[a].st, attempt'[a], expo'[a], tickets')
                       /\ action'[a].st = "none" => Quiet(a, thr')
    BY DEF RowsAgree
  <2>1. RowsOf(a, action[a].st, attempt[a], expo[a], tickets)
        /\ (action[a].st = "none" => Quiet(a, thr))
    BY DEF SafetyInv, VerdictInv, RowsAgree
  <2>2. RowsOf(a, action'[a].st, attempt'[a], expo'[a], tickets')
    BY <2>1 DEF RowsOf
  <2>3. ASSUME action[a].st = "none", NEW u \in Threads, Subject(u) = a
        PROVE  thr'[u].pc \in {"idle", "create"}
    BY <2>1, <2>3 DEF Quiet, SameView
  <2>4. QED
    BY <2>2, <2>3 DEF Quiet
<1>3. NoLateCommit(thr')
  <2>. SUFFICES ASSUME NEW u \in Threads, NEW v \in Threads, Subject(u) = Subject(v),
                       thr'[u].pc = "abort", thr'[u].lag = 0, thr'[v].pc = "new"
                PROVE  FALSE
    BY DEF NoLateCommit
  <2>1. SameView(thr'[u], thr[u]) /\ SameView(thr'[v], thr[v])
    OBVIOUS
  <2>2. QED
    BY <2>1 DEF SameView, SafetyInv, VerdictInv, NoLateCommit
<1>4. OneSecured'
  <2>1. ASSUME NEW c \in Actions, Secured(c)'
        PROVE  Secured(c)
    <3>1. ASSUME NEW u \in Threads, thr'[u].pc = "new"
          PROVE  thr[u].pc = "new"
      BY <3>1 DEF SameView
    <3>2. QED
      BY <2>1, <3>1 DEF Secured
  <2>2. QED
    BY <2>1 DEF OneSecured, SafetyInv, VerdictInv
<1>5. QED
  BY <1>1, <1>2, <1>3, <1>4 DEF VerdictInv

(* Nothing changed is the same view.                                       *)
LEMMA SameViewTrivial ==
  ASSUME NEW r
  PROVE  SameView(r, r)
  BY DEF SameView

(* An answer is delivered: the thread learns it, tickets only come.        *)
LEMMA CollectorSafe ==
  ASSUME SafetyInv, NEW bm \in Bookmakers, CollectorStep(bm) \/ CollectorRestarts(bm)
  PROVE  VerdictInv'
<1>1. UNCHANGED <<action, attempt, expo>> /\ tickets \subseteq tickets'
  BY DEF CollectorStep, CollectorRestarts, HandleCommit, HandleReconcile, DropExpired, rows
<1>2. ASSUME NEW u \in Threads
      PROVE  SameView(thr'[u], thr[u])
  <2>1. ASSUME NEW m, NEW result, Deliver(m, result)
        PROVE  SameView(thr'[u], thr[u])
    <3>1. thr'[u] = thr[u] \/ thr'[u] = [thr[u] EXCEPT !.rsp = result]
      BY <2>1 DEF Deliver
    <3>2. thr[u] \in ThreadState
      BY InvOf
    <3>3. QED
      BY <3>1, <3>2 DEF SameView, ThreadState
  <2>2. CASE UNCHANGED thr
    BY <2>2, SameViewTrivial
  <2>3. QED
    BY <2>1, <2>2 DEF CollectorStep, CollectorRestarts, HandleCommit, HandleReconcile, DropExpired
<1>3. QED
  BY <1>1, <1>2, Elsewhere

(* Leases run out: no status changes.                                      *)
LEMMA TimeSafe ==
  ASSUME SafetyInv, NEW a \in Actions, LeaseExpires(a)
  PROVE  VerdictInv'
<1>1. /\ UNCHANGED <<attempt, thr, tickets>>
      /\ \/ action' = [action EXCEPT ![a].held = FALSE] /\ UNCHANGED expo
         \/ expo' = [expo EXCEPT ![a].leased = FALSE] /\ UNCHANGED action
  BY DEF LeaseExpires, wire
<1>2. action \in [Actions -> ActionState] /\ expo \in [Actions -> ExposureState]
  BY DEF SafetyInv, IInv, TypeOK
<1>3. \A b \in Actions :
        /\ action'[b].st = action[b].st /\ action'[b].resv = action[b].resv
        /\ expo'[b].st = expo[b].st /\ expo'[b].hedge = expo[b].hedge
  <2>1. CASE action' = [action EXCEPT ![a].held = FALSE] /\ UNCHANGED expo
    BY <1>2, <2>1 DEF ActionState
  <2>2. CASE expo' = [expo EXCEPT ![a].leased = FALSE] /\ UNCHANGED action
    BY <1>2, <2>2 DEF ExposureState
  <2>3. QED
    BY <1>1, <2>1, <2>2
<1>4. QED
  BY <1>1, <1>3, SameViewTrivial, Elsewhere

(* A pass lists the actions it may work on.                                *)
LEMMA PassSafe ==
  ASSUME SafetyInv, ListPending
  PROVE  VerdictInv'
<1>1. UNCHANGED <<action, attempt, expo, tickets>>
  BY DEF ListPending, rows, wire
<1>2. ASSUME NEW u \in Threads
      PROVE  \/ SameView(thr'[u], thr[u])
             \/ /\ thr'[u].pc \notin {"new", "abort"}
                /\ action[Subject(u)].st # "none"
                /\ Sees(u, thr'[u], action[Subject(u)].st, attempt[Subject(u)],
                        expo[Subject(u)].st, tickets)
  <2>. DEFINE r == [Idle EXCEPT !.pc = "listed"]
  <2>1. CASE thr'[u] = thr[u]
    BY <2>1, SameViewTrivial
  <2>2. CASE thr'[u] = Reading(u, r) /\ action[Subject(u)].st \in Reconcilable
    <3>1. Idle \in ThreadState /\ "listed" \in Points
      BY IdleFacts DEF Points
    <3>2. r \in ThreadState /\ r.pc = "listed"
      BY <3>1 DEF ThreadState
    <3>. HIDE DEF r
    <3>3. thr'[u].pc = "listed"
      BY <2>2, <3>2, ReadingKnowledge
    <3>4. action[Subject(u)].st # "none"
      BY <2>2 DEF Reconcilable
    <3>5. Sees(u, thr'[u], action[Subject(u)].st, attempt[Subject(u)], expo[Subject(u)].st, tickets)
      BY <2>2, <3>3 DEF UnknownPoints, Sees, KnowsRole, KnowsStatus, KnowsExposure,
         KnowsAttempt, HoldsTicket, ExecutorPoints, CommitPoints, AttemptPoints,
         CompletionPoints, EvidencePoints
    <3>6. QED
      BY <3>3, <3>4, <3>5
  <2>3. QED
    BY <2>1, <2>2 DEF ListPending
<1>3. QED
  BY <1>1, <1>2, Elsewhere

(* A crash, a restart or a failing thread leaves the statuses as they are. *)
LEMMA FaultSafe ==
  ASSUME SafetyInv, Fault
  PROVE  VerdictInv'
<1>1. CASE BackendCrashes
  <2>1. UNCHANGED <<attempt, expo, tickets>> /\ thr' = [t \in Threads |-> Idle]
    BY <1>1 DEF BackendCrashes
  <2>2. ASSUME NEW a \in Actions
        PROVE  /\ action'[a].st = action[a].st
               /\ action'[a].resv = "none" <=> action[a].resv = "none"
    <3>1. action'[a] = IF action[a].resv = "mine" THEN [action[a] EXCEPT !.resv = "dead"]
                       ELSE action[a]
      BY <1>1 DEF BackendCrashes
    <3>2. action[a] \in ActionState
      BY DEF SafetyInv, IInv, TypeOK
    <3>3. QED
      BY <3>1, <3>2 DEF ActionState
  <2>3. ASSUME NEW u \in Threads
        PROVE  /\ thr'[u].pc = "idle" /\ thr'[u].pc \notin {"new", "abort"}
               /\ Sees(u, thr'[u], action[Subject(u)].st, attempt[Subject(u)],
                       expo[Subject(u)].st, tickets)
    BY <2>1, ReturnedSees, PlainSees
  <2>4. QED
    BY <2>1, <2>2, <2>3, Elsewhere
<1>2. ASSUME NEW t \in Threads, ThreadFails(t)
      PROVE  VerdictInv'
  <2>1. /\ thr[t].pc # "idle" /\ UNCHANGED <<action, attempt, expo, tickets>>
        /\ Advance(t, Idle, {}) \/ Advance(t, Returned(t), {})
    BY <1>2 DEF ThreadFails, At, rows
  <2>2. CASE thr[t].pc = "create"
    <3>1. Role(t) = "exec"
      BY <2>2, ExecutorKnows DEF ExecutorPoints
    <3>2. Returned(t) = Idle
      BY <3>1 DEF Returned
    <3>3. /\ Idle \in ThreadState /\ Idle.pc = "idle"
          /\ Sees(t, Idle, action[Subject(t)].st, attempt[Subject(t)], expo[Subject(t)].st, tickets)
      BY ReturnedSees
    <3>4. QED
      BY <2>1, <3>2, <3>3, ThreadGoes
  <2>3. CASE thr[t].pc # "create"
    BY <2>1, <2>3, ThreadReturns
  <2>4. QED
    BY <2>2, <2>3
<1>3. QED
  BY <1>1, <1>2, CommitGoesSafe, CollectorSafe DEF Fault

-----------------------------------------------------------------------------
(* The invariant                                                           *)

(* Initially nothing is known and nothing is at stake.                     *)
LEMMA StartsSafe ==
  ASSUME Init
  PROVE  VerdictInv
<1>1. /\ \A a \in Actions : action[a].st = "none" /\ expo[a].st = "none"
      /\ \A a \in Actions, k \in Keys : attempt[a][k].st = "none"
      /\ \A t \in Threads : thr[t] = Idle
  BY DEF Init, NoAction, NoExposure, NoAttempt
<1>2. ASSUME NEW a \in Actions
      PROVE  NoneWaiting(attempt[a])
  <2>1. \A n \in 1 .. MaxCommits : <<"jun88", n>> \in Keys
    BY DEF Keys, Bookmakers
  <2>2. QED
    BY <1>1, <2>1 DEF NoneWaiting, Waiting, Unsettled, AttemptStatus
<1>3. ThreadsSee
  BY <1>1, ReturnedSees DEF ThreadsSee
<1>4. \A t \in Threads : thr[t].pc = "idle"
  BY <1>1 DEF Idle
<1>5. RowsAgree
  <2>. SUFFICES ASSUME NEW a \in Actions
                PROVE  RowsOf(a, action[a].st, attempt[a], expo[a], tickets) /\ Quiet(a, thr)
    BY DEF RowsAgree
  <2>1. QED
    BY <1>1, <1>2, <1>4 DEF RowsOf, NoneWaiting, Quiet, TerminalAction
<1>6. NoLateCommit(thr)
  BY <1>4 DEF NoLateCommit
<1>7. OneSecured
  BY <1>1, <1>2, <1>4 DEF OneSecured, Secured, NoneWaiting
<1>8. QED
  BY <1>3, <1>5, <1>6, <1>7 DEF VerdictInv

(* Every step keeps what threads know, rows say and the account is.        *)
LEMMA NextSafe ==
  ASSUME SafetyInv, Next
  PROVE  VerdictInv'
<1>1. ASSUME NEW a \in Actions, Arrival(a)
      PROVE  VerdictInv'
  BY <1>1, GateSafe, ListSafe DEF Arrival
<1>2. QED
  BY <1>1, ThreadStepSafe, TimeSafe, CollectorSafe, PassSafe, FaultSafe DEF Next

(* So does stuttering.                                                     *)
LEMMA IdleStepSafe ==
  ASSUME SafetyInv, UNCHANGED vars
  PROVE  VerdictInv'
<1>1. UNCHANGED <<action, attempt, expo, thr, tickets>>
  BY DEF vars
<1>2. QED
  BY <1>1, SameViewTrivial, Elsewhere

-----------------------------------------------------------------------------
(* No step changes a verdict                                               *)

(* What VerdictIsFinal says of one step.                                   *)
KeepsVerdicts ==
  \A a \in Actions : action[a].st \in TerminalAction => action'[a].st = action[a].st

(* A step that leaves every status as it is.                               *)
LEMMA SameStatus ==
  ASSUME \A a \in Actions : action'[a].st = action[a].st
  PROVE  KeepsVerdicts
  BY DEF KeepsVerdicts

(* A transition finds the action unfinished, or it is refused.             *)
LEMMA MovedKeeps ==
  ASSUME SafetyInv, NEW t \in Threads, NEW to,
         (CanMoveAction(t, to) /\ action' = Moved(t, to)) \/ UNCHANGED action
  PROVE  KeepsVerdicts
<1>. DEFINE a == Subject(t)
<1>1. CASE UNCHANGED action
  BY <1>1, SameStatus
<1>2. CASE CanMoveAction(t, to) /\ action' = Moved(t, to)
  <2>1. action[a].st \notin TerminalAction
    BY <1>2, ActionMovesFacts DEF CanMoveAction
  <2>2. \A b \in Actions \ {a} : action'[b] = action[b]
    BY <1>2, InvOf DEF Moved, TypeOK
  <2>3. QED
    BY <2>1, <2>2 DEF KeepsVerdicts
<1>3. QED
  BY <1>1, <1>2

(* The same for a step written as a transition.                            *)
LEMMA TransitionKeeps ==
  ASSUME SafetyInv, NEW t \in Threads, NEW to, NEW p, TransitionAction(t, to, p)
  PROVE  KeepsVerdicts
<1>1. (CanMoveAction(t, to) /\ action' = Moved(t, to)) \/ UNCHANGED action
  BY DEF TransitionAction
<1>2. QED
  BY <1>1, MovedKeeps

(* Taking the reservation leaves the status.                               *)
LEMMA ReservingKeeps ==
  ASSUME SafetyInv, NEW t \in Threads, action' = Reserved(Subject(t)) \/ UNCHANGED action
  PROVE  KeepsVerdicts
<1>1. action \in [Actions -> ActionState] /\ Subject(t) \in Actions
  BY InvOf DEF TypeOK
<1>2. CASE action' = Reserved(Subject(t))
  <2>1. action' = [action EXCEPT ![Subject(t)] =
                     [action[Subject(t)] EXCEPT !.resv = "mine", !.held = TRUE]]
    BY <1>2 DEF Reserved
  <2>2. action[Subject(t)] \in ActionState
    BY <1>1
  <2>3. action'[Subject(t)].st = action[Subject(t)].st
    BY <1>1, <2>1, <2>2 DEF ActionState
  <2>4. \A a \in Actions \ {Subject(t)} : action'[a] = action[a]
    BY <1>1, <2>1
  <2>5. \A a \in Actions : action'[a].st = action[a].st
    BY <2>3, <2>4
  <2>6. QED
    BY <2>5, SameStatus
<1>3. CASE UNCHANGED action
  BY <1>3, SameStatus
<1>4. QED
  BY <1>2, <1>3

(* A Jun88 ticket is committed only for an action that is being placed.    *)
LEMMA TicketKeeps ==
  ASSUME SafetyInv, NEW t \in Threads, NEW self, CommitJun88Ticket(t, self),
         thr[t].pc \in TicketPoints
  PROVE  KeepsVerdicts
<1>. DEFINE a == Subject(t)
<1>1. CASE UNCHANGED action
  BY <1>1, SameStatus
<1>2. CASE /\ thr[t].lag = 0
           /\ action' = [action EXCEPT ![a] = [@ EXCEPT !.st = "jun88_ticket_received",
                                                       !.link = "own"]]
  <2>1. thr[t].key[1] = "jun88"
    BY InvOf DEF Fits, KnowsTicket
  <2>2. action[a].st = "placing_jun88" \/ action[a].st \in Reconcilable
    BY <1>2, InvOf DEF Sees, KnowsStatus, TicketPoints
  <2>3. action[a].st \notin TerminalAction
    BY <2>2, StatusFacts
  <2>4. \A b \in Actions \ {a} : action'[b] = action[b]
    BY <1>2, InvOf DEF TypeOK
  <2>5. QED
    BY <2>3, <2>4 DEF KeepsVerdicts
<1>3. QED
  BY <1>1, <1>2 DEF CommitJun88Ticket, rows

(* The executor's half of an action.                                       *)
LEMMA ExecutorKeepsVerdicts ==
  ASSUME SafetyInv, NEW t \in Threads, ExecutorStep(t)
  PROVE  KeepsVerdicts
<1>1. CASE CreateAction(t)
  <2>1. action[Subject(t)].st = "none"
    BY <1>1, ExecutorKnows DEF CreateAction, At
  <2>2. \A b \in Actions \ {Subject(t)} : action'[b] = action[b]
    BY <1>1, InvOf DEF CreateAction, TypeOK
  <2>3. QED
    BY <2>1, <2>2 DEF KeepsVerdicts, TerminalAction
<1>2. CASE ReserveAccount(t) \/ JunRenew(t)
  BY <1>2, ReservingKeeps, TransitionKeeps DEF ReserveAccount, JunRenew, Reserve
<1>3. CASE PrepareBoth(t) \/ DryRun(t) \/ JunStart(t) \/ JunChanged(t) \/ JunUnknown(t)
           \/ Abort(t)
  BY <1>3, TransitionKeeps DEF PrepareBoth, DryRun, JunStart, JunChanged, JunUnknown, Abort
<1>4. CASE JunReallocate(t)
  BY <1>4, TransitionKeeps, MovedKeeps DEF JunReallocate
<1>5. CASE JunAccepted(t) \/ JunOddsChanged(t) \/ JunRejected(t)
  BY <1>5, SameStatus DEF JunAccepted, JunOddsChanged, JunRejected
<1>6. CASE JunTicket(t)
  BY <1>6, TicketKeeps DEF JunTicket, At, TicketPoints
<1>7. CASE Release(t)
  <2>1. action \in [Actions -> ActionState]
    BY InvOf DEF TypeOK
  <2>2. \A a \in Actions : action'[a].st = action[a].st
    BY <1>7, <2>1, InvOf DEF Release, ActionState
  <2>3. QED
    BY <2>2, SameStatus
<1>8. QED
  BY <1>1, <1>2, <1>3, <1>4, <1>5, <1>6, <1>7 DEF ExecutorStep

(* Any thread.                                                             *)
LEMMA ThreadKeepsVerdicts ==
  ASSUME SafetyInv, NEW t \in Threads, ThreadStep(t)
  PROVE  KeepsVerdicts
<1>1. CASE AttemptStep(t)
  BY <1>1, SameStatus DEF AttemptStep, NewAttempt, MarkStarted, SendCommit, SendRefused,
     CommitTimeout, CommitUnknown, rows
<1>2. CASE HedgeStep(t)
  <2>1. CASE Placing(t) \/ Complete(t) \/ HedgeUnknownAction(t)
    BY <2>1, TransitionKeeps DEF Placing, Complete, HedgeUnknownAction
  <2>2. CASE HedgeRenew(t)
    BY <2>2, ReservingKeeps DEF HedgeRenew, Reserve
  <2>3. CASE HedgeReprice(t)
    BY <2>3, MovedKeeps DEF HedgeReprice
  <2>4. CASE OpenAction(t)
    <3>1. CASE action[Subject(t)].st # "exposure_open"
      BY <2>4, <3>1, TransitionKeeps DEF OpenAction
    <3>2. CASE action[Subject(t)].st = "exposure_open"
      <4>1. action' = Moved(t, "exposure_open") \/ UNCHANGED action
        BY <2>4, <3>2 DEF OpenAction
      <4>2. action \in [Actions -> ActionState] /\ Subject(t) \in Actions
        BY InvOf DEF TypeOK
      <4>3. \A a \in Actions : action'[a].st = action[a].st
        BY <3>2, <4>1, <4>2 DEF Moved, ActionState
      <4>4. QED
        BY <4>3, SameStatus
    <3>3. QED
      BY <3>1, <3>2
  <2>5. CASE UNCHANGED action
    BY <2>5, SameStatus
  <2>6. QED
    BY <1>2, <2>1, <2>2, <2>3, <2>4, <2>5 DEF HedgeStep, Evaluate, Hedging, HedgeAnswered,
       HedgeDone, HedgeChanged, HedgeRejected, OpenExposureRow, HedgeUnknownAttempt,
       HedgeUnknown
<1>3. CASE MatcherStep(t)
  <2>1. CASE HedgeReserve(t)
    BY <2>1, ReservingKeeps DEF HedgeReserve, Reserve
  <2>2. CASE CloseAction(t)
    BY <2>2, TransitionKeeps DEF CloseAction
  <2>3. CASE UNCHANGED action
    BY <2>3, SameStatus
  <2>4. QED
    BY <1>3, <2>1, <2>2, <2>3 DEF MatcherStep, HedgeLease, HedgeMatch, HedgePrepare, Unlease,
       CloseExposure, rows
<1>4. CASE ReconcileStep(t)
  <2>1. CASE ReconcileJun(t)
    BY <2>1, TicketKeeps DEF ReconcileJun, At, TicketPoints
  <2>2. CASE ReconcileJunOpen(t)
    BY <2>2, TransitionKeeps DEF ReconcileJunOpen
  <2>3. CASE UNCHANGED action
    BY <2>3, SameStatus
  <2>4. QED
    BY <1>4, <2>1, <2>2, <2>3 DEF ReconcileStep, PickAttempt, SendReconcile,
       ReconcileUnanswered, ReconcileTicket, ReconcileNoTicket, ReconcileHedge,
       ReconcileComplete, ReconcileRead, ReconcileReopen, rows
<1>5. CASE OperatorStep(t)
  BY <1>5, SameStatus DEF OperatorStep, OperatorReview, OperatorReopen, ReopenExposure,
     OperatorClose, OperatorTicket, EvidenceAttempt, EvidenceExposure, OperatorRefused, rows
<1>6. QED
  BY <1>1, <1>2, <1>3, <1>4, <1>5, ExecutorKeepsVerdicts DEF ThreadStep

(* Any step.                                                               *)
LEMMA NextKeepsVerdicts ==
  ASSUME SafetyInv, [Next]_vars
  PROVE  KeepsVerdicts
<1>1. ASSUME NEW a \in Actions, Arrival(a)
      PROVE  KeepsVerdicts
  BY <1>1, SameStatus DEF Arrival, Gate, HedgeList, ReconcileManually, OperatorReads, rows
<1>2. ASSUME NEW a \in Actions, LeaseExpires(a)
      PROVE  KeepsVerdicts
  <2>1. action \in [Actions -> ActionState]
    BY DEF SafetyInv, IInv, TypeOK
  <2>2. \A b \in Actions : action'[b].st = action[b].st
    BY <1>2, <2>1 DEF LeaseExpires, ActionState
  <2>3. QED
    BY <2>2, SameStatus
<1>3. CASE ListPending \/ UNCHANGED vars
           \/ \E bm \in Bookmakers : CollectorStep(bm) \/ CollectorRestarts(bm)
  BY <1>3, SameStatus DEF ListPending, vars, CollectorStep, CollectorRestarts, HandleCommit,
     HandleReconcile, DropExpired, rows
<1>4. CASE \E t \in Threads : ThreadFails(t) \/ MarkFails(t)
  BY <1>4, SameStatus DEF ThreadFails, MarkFails, rows
<1>5. CASE BackendCrashes
  <2>1. action \in [Actions -> ActionState]
    BY DEF SafetyInv, IInv, TypeOK
  <2>2. \A b \in Actions : action'[b].st = action[b].st
    BY <1>5, <2>1 DEF BackendCrashes, ActionState
  <2>3. QED
    BY <2>2, SameStatus
<1>6. QED
  BY <1>1, <1>2, <1>3, <1>4, <1>5, ThreadKeepsVerdicts DEF Next, Fault

-----------------------------------------------------------------------------
(* Without any exposure allowed nothing begins                             *)

(* The gate refuses every action, and whatever else works on an action     *)
(* needs one that has begun.                                               *)
NothingBegins ==
  MaxOpenExposures = 0 =>
    /\ \A a \in Actions : action[a].st = "none"
    /\ \A t \in Threads : thr[t].pc = "idle"

(* A thread that takes a step is at work.                                  *)
LEMMA StepsAreAwake ==
  ASSUME NEW t \in Threads, ThreadStep(t) \/ ThreadFails(t) \/ MarkFails(t)
  PROVE  thr[t].pc # "idle"
<1>1. ASSUME ExecutorStep(t)
      PROVE  thr[t].pc # "idle"
  BY <1>1 DEF ExecutorStep, CreateAction, ReserveAccount, PrepareBoth, DryRun, JunStart,
     JunRenew, JunAccepted, JunOddsChanged, JunRejected, JunChanged, JunReallocate, JunUnknown,
     JunTicket, Abort, Release, At
<1>2. ASSUME AttemptStep(t)
      PROVE  thr[t].pc # "idle"
  BY <1>2 DEF AttemptStep, NewAttempt, MarkStarted, SendCommit, SendRefused, CommitTimeout,
     CommitUnknown, At
<1>3. ASSUME HedgeStep(t)
      PROVE  thr[t].pc # "idle"
  BY <1>3 DEF HedgeStep, Evaluate, Hedging, Placing, HedgeRenew, HedgeAnswered, HedgeDone,
     Complete, HedgeChanged, HedgeReprice, HedgeRejected, OpenExposureRow, OpenAction,
     HedgeUnknownAttempt, HedgeUnknown, HedgeUnknownAction, At
<1>4. ASSUME MatcherStep(t) \/ ReconcileStep(t)
      PROVE  thr[t].pc # "idle"
  BY <1>4 DEF MatcherStep, ReconcileStep, HedgeLease, HedgeMatch, HedgeReserve, HedgePrepare,
     Unlease, CloseExposure, CloseAction, PickAttempt, SendReconcile, ReconcileUnanswered,
     ReconcileTicket, ReconcileNoTicket, ReconcileJun, ReconcileJunOpen, ReconcileHedge,
     ReconcileComplete, ReconcileRead, ReconcileReopen, At
<1>5. ASSUME OperatorStep(t)
      PROVE  thr[t].pc # "idle"
  BY <1>5 DEF OperatorStep, OperatorReview, OperatorReopen, ReopenExposure, OperatorClose,
     OperatorTicket, EvidenceAttempt, EvidenceExposure, OperatorRefused, At
<1>6. QED
  BY <1>1, <1>2, <1>3, <1>4, <1>5 DEF ThreadStep, ThreadFails, MarkFails, At

(* Nothing ever begins.                                                    *)
LEMMA NothingStarts ==
  ASSUME SafetyInv, NothingBegins, [Next]_vars
  PROVE  NothingBegins'
<1>. SUFFICES ASSUME MaxOpenExposures = 0
              PROVE  /\ \A a \in Actions : action'[a].st = "none"
                     /\ \A t \in Threads : thr'[t].pc = "idle"
  BY DEF NothingBegins
<1>1. /\ \A a \in Actions : action[a].st = "none" /\ expo[a].st = "none"
      /\ \A t \in Threads : thr[t].pc = "idle"
      /\ action \in [Actions -> ActionState] /\ thr \in [Threads -> ThreadState]
  BY DEF NothingBegins, SafetyInv, VerdictInv, RowsAgree, RowsOf, Exposed, TerminalAction,
     IInv, TypeOK
<1>2. \A t \in Threads : ~ThreadStep(t) /\ ~ThreadFails(t) /\ ~MarkFails(t)
  BY <1>1, StepsAreAwake
<1>3. \A a \in Actions : ~Arrival(a)
  BY <1>1 DEF Arrival, Gate, HedgeList, ReconcileManually, OperatorReads, Reconcilable
<1>4. ~ListPending
  BY <1>1 DEF ListPending, Reconcilable
<1>5. ASSUME NEW a \in Actions, LeaseExpires(a)
      PROVE  (\A b \in Actions : action'[b].st = action[b].st) /\ thr' = thr
  BY <1>1, <1>5 DEF LeaseExpires, ActionState
<1>6. ASSUME NEW bm \in Bookmakers, CollectorStep(bm) \/ CollectorRestarts(bm)
      PROVE  action' = action /\ (\A t \in Threads : thr'[t].pc = thr[t].pc)
  <2>1. ASSUME NEW m, NEW result, Deliver(m, result), NEW t \in Threads
        PROVE  thr'[t].pc = thr[t].pc
    BY <1>1, <2>1 DEF Deliver, ThreadState
  <2>2. QED
    BY <1>6, <2>1 DEF CollectorStep, CollectorRestarts, HandleCommit, HandleReconcile,
       DropExpired, rows
<1>7. CASE BackendCrashes
  BY <1>1, <1>7 DEF BackendCrashes, ActionState, Idle
<1>8. CASE UNCHANGED vars
  BY <1>1, <1>8 DEF vars
<1>9. QED
  BY <1>1, <1>2, <1>3, <1>4, <1>5, <1>6, <1>7, <1>8 DEF Next, Fault

-----------------------------------------------------------------------------
(* The theorems                                                            *)

(* Executors, matchers, reconciliation passes and operators may interleave,*)
(* crash and restart as they like: what each of them concludes from the    *)
(* rows it has read is true for as long as nobody has written those rows,  *)
(* the rows of an action agree with each other and with the tickets, and   *)
(* the account is one action's.                                            *)
THEOREM SafetyHolds == Spec => []SafetyInv
<1>1. Init => SafetyInv
  BY InitFits, StartsSafe DEF SafetyInv
<1>2. SafetyInv /\ [Next]_vars => SafetyInv'
  <2>. SUFFICES ASSUME SafetyInv, [Next]_vars
                PROVE  SafetyInv'
    OBVIOUS
  <2>1. IInv'
    BY NextKeeps DEF SafetyInv
  <2>2. VerdictInv'
    BY NextSafe, IdleStepSafe
  <2>3. QED
    BY <2>1, <2>2 DEF SafetyInv
<1>3. QED
  BY <1>1, <1>2, PTL DEF Spec

(* A finished action keeps its verdict: no thread that read the action     *)
(* before it ended, no reconciliation answer, no late ticket and no        *)
(* operator rewrites how it ended.                                         *)
THEOREM VerdictsAreFinal == Spec => VerdictIsFinal
<1>1. SafetyInv /\ [Next]_vars =>
        [\A a \in Actions :
           action[a].st \in TerminalAction => action'[a].st = action[a].st]_vars
  BY NextKeepsVerdicts DEF KeepsVerdicts
<1>2. QED
  BY <1>1, SafetyHolds, PTL DEF Spec, VerdictIsFinal

(* Whoever completes an action (its executor, the matcher, reconciliation, *)
(* an operator with evidence), both bookmakers hold the tickets that its   *)
(* exposure names.                                                         *)
THEOREM CompletedActionsHaveTickets == Spec => []CompletedHasBothTickets
<1>1. SafetyInv => CompletedHasBothTickets
  <2>. SUFFICES ASSUME SafetyInv, NEW a \in Actions
                PROVE  /\ expo[a].st = "completed" =>
                            {<<a, "jun88", expo[a].jun>>, <<a, "8xbet", expo[a].hedge>>}
                              \subseteq tickets
                       /\ action[a].st = "completed" => expo[a].st = "completed"
    BY DEF CompletedHasBothTickets
  <2>1. RowsOf(a, action[a].st, attempt[a], expo[a], tickets)
    BY DEF SafetyInv, VerdictInv, RowsAgree
  <2>2. expo[a].st # "none" => <<a, "jun88", expo[a].jun>> \in tickets
    BY DEF SafetyInv, IInv, RowsFit
  <2>3. QED
    BY <2>1, <2>2 DEF RowsOf
<1>2. QED
  BY <1>1, SafetyHolds, PTL

(* An action that may have a bet at a bookmaker has the account to itself. *)
LEMMA EngagedIsSecured ==
  ASSUME SafetyInv, NEW a \in Actions, Engaged(a)
  PROVE  Secured(a)
<1>1. CASE expo[a].st # "none"
  BY <1>1 DEF Engaged, Secured
<1>2. ASSUME NEW k \in Keys, attempt[a][k].st \in Unsettled, expo[a].st = "none"
      PROVE  Secured(a)
  <2>1. PICK bm \in Bookmakers, n \in 1 .. MaxCommits : k = <<bm, n>>
    BY DEF Keys
  <2>2. bm # "8xbet"
    <3>1. attempt[a][k].st # "none"
      BY <1>2 DEF Unsettled, AttemptStatus
    <3>2. QED
      BY <1>2, <2>1, <3>1 DEF SafetyInv, IInv, RowsFit
  <2>3. Waiting(attempt[a], n)
    BY <1>2, <2>1, <2>2 DEF Bookmakers, Waiting
  <2>4. QED
    BY <2>3 DEF Engaged, Secured
<1>3. QED
  BY <1>1, <1>2 DEF Engaged

(* The account is exclusive: two unfinished actions never both have a      *)
(* commit that may have become a ticket, not even after the lease or the   *)
(* process that reserved the account is gone.                              *)
THEOREM AccountIsExclusive == Spec => []AccountExclusive
<1>1. SafetyInv => AccountExclusive
  BY EngagedIsSecured DEF AccountExclusive, SafetyInv, VerdictInv, OneSecured
<1>2. QED
  BY <1>1, SafetyHolds, PTL

(* The configured limit on open exposures holds, although the gate counts  *)
(* them before the action exists and actions may pass it together.         *)
THEOREM ExposureLimitHolds == Spec => []ExposureLimit
<1>. DEFINE Open == {a \in Actions : expo[a].st \in OpenExposure}
<1>1. SafetyInv /\ NothingBegins => ExposureLimit
  <2>. SUFFICES ASSUME SafetyInv, NothingBegins
                PROVE  Cardinality(Open) <= MaxOpenExposures
    BY DEF ExposureLimit, OpenCount
  <2>1. \A a \in Actions :
          RowsOf(a, action[a].st, attempt[a], expo[a], tickets)
    BY DEF SafetyInv, VerdictInv, RowsAgree
  <2>2. \A a \in Open : Secured(a)
    BY <2>1 DEF RowsOf, OpenExposure, Secured
  <2>3. \A a, b \in Open : a = b
    BY <2>2 DEF SafetyInv, VerdictInv, OneSecured
  <2>4. MaxOpenExposures \in Nat
    BY BoundsAssumption
  <2>5. CASE Open = {}
    <3>1. Cardinality(Open) = 0
      BY <2>5, FS_EmptySet
    <3>2. QED
      BY <2>4, <3>1
  <2>6. CASE Open # {}
    <3>1. PICK a \in Open : Open = {a}
      BY <2>3, <2>6
    <3>2. MaxOpenExposures # 0
      BY <2>1, <3>1 DEF NothingBegins, RowsOf, OpenExposure, Exposed, TerminalAction
    <3>3. Cardinality(Open) = 1
      <4>. HIDE DEF Open
      <4>1. QED
        BY <3>1, FS_Singleton
    <3>4. QED
      BY <2>4, <3>2, <3>3
  <2>7. QED
    BY <2>5, <2>6
<1>2. Init => NothingBegins
  BY DEF Init, NothingBegins, NoAction, Idle
<1>3. SafetyInv /\ NothingBegins /\ [Next]_vars => NothingBegins'
  BY NothingStarts
<1>4. QED
  BY <1>1, <1>2, <1>3, SafetyHolds, PTL DEF Spec
=============================================================================
