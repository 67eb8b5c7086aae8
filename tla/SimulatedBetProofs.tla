-------------------------- MODULE SimulatedBetProofs --------------------------
(***************************************************************************)
(* For all actions and all bounds of sessions, moves and faults: the       *)
(* verdict of a simulated bet agrees with the tickets of its collectors,   *)
(* tickets honour the previews, and the workflow with both its collectors  *)
(* is the two-leg bet of TwoLegBet.                                        *)
(***************************************************************************)
EXTENDS SimulatedBet, SequenceTheorems, TLAPS

-----------------------------------------------------------------------------
(* The inductive invariant.                                                 *)

Places == {"start", "selecting", "ready", "place_jun88", "placing_jun88",
           "jun88_ticket_received", "place_8xbet", "placing_eightxbet", "returned"}

Commands == [action : Actions, kind : {"select", "place"}, session : Nat, odds : Odds]
Responses == [action : Actions, result : Answers]

Types ==
  /\ TypeOK
  /\ pc \in [Actions -> Places]
  /\ pending \in [Actions -> [Bookmakers -> Nat]]
  /\ down \in [Bookmakers -> Seq(Commands)]
  /\ out \in [Bookmakers -> Seq(Responses)]
  /\ quote \in [Bookmakers -> [odds : Odds \cup {"none"}, fresh : BOOLEAN]]
  /\ results \in [Bookmakers -> [Actions -> {"none", "odds_changed", "ticket_accepted"}]]

(* Where the workflow may be once the placement at a bookmaker was sent.    *)
Placed(b) ==
  IF b = "jun88"
    THEN {"placing_jun88", "jun88_ticket_received", "place_8xbet", "placing_eightxbet",
          "returned"}
    ELSE {"placing_eightxbet", "returned"}

PlacedFirst == {"jun88_ticket_received", "place_8xbet", "placing_eightxbet"}

(* Command i to the collector is the placement of the action.               *)
IsPlacement(a, b, i) == down[b][i].kind = "place" /\ down[b][i].action = a

OnItsWay(a, b) == \E i \in 1..Len(down[b]) : IsPlacement(a, b, i)

(* There is no ticket and there will be none.                               *)
NeverTicketed(a, b) == ~Ticketed(a, b) /\ ~OnItsWay(a, b)

(* What an answer of a collector about a placement stands for.              *)
Fits(a, b, result) ==
  /\ result \in {"ticket_accepted", "odds_changed", "rejected"} => pc[a] \in Placed(b)
  /\ result = "ticket_accepted" => Ticketed(a, b)
  /\ result \in {"odds_changed", "rejected"} => NeverTicketed(a, b)

(* One leg: its placement is sent once and nothing comes of it before, every*)
(* answer under way or received is right, and the collector remembers the   *)
(* tickets it handed out.                                                   *)
LegInv(a, b) ==
  /\ OnItsWay(a, b) \/ Ticketed(a, b) => pc[a] \in Placed(b)
  /\ \A i, j \in 1..Len(down[b]) : IsPlacement(a, b, i) /\ IsPlacement(a, b, j) => i = j
  /\ \A i \in 1..Len(out[b]) : out[b][i].action = a => Fits(a, b, out[b][i].result)
  /\ Fits(a, b, answer[a][b])
  /\ Ticketed(a, b) <=> results[b][a] = "ticket_accepted"

(* The order of the legs.                                                   *)
OrderInv(a) ==
  pc[a] \in PlacedFirst \/ OnItsWay(a, "8xbet") \/ Ticketed(a, "8xbet") => Ticketed(a, "jun88")

(* The verdict: given once the workflow has returned, and for good.         *)
VerdictInv(a) ==
  /\ row[a].status \in Terminal => pc[a] = "returned"
  /\ row[a].status = "completed" => \A b \in Bookmakers : Ticketed(a, b)
  /\ row[a].status \in Terminal \ {"completed"} /\ ~row[a].exposure =>
       \A b \in Bookmakers : NeverTicketed(a, b)
  /\ row[a].status = "exposure_open" => Ticketed(a, "jun88") /\ NeverTicketed(a, "8xbet")

BettingInv ==
  /\ \A a \in Actions, b \in Bookmakers : LegInv(a, b)
  /\ \A a \in Actions : OrderInv(a) /\ VerdictInv(a)

IInv == Types /\ BettingInv

-----------------------------------------------------------------------------
(* The refinement mapping.                                                  *)

heldBy == [a \in Actions |-> {b \in Bookmakers : Ticketed(a, b)}]

verdictOf ==
  [a \in Actions |->
     IF row[a].status = "completed" THEN "completed"
     ELSE IF row[a].status = "exposure_open" THEN "unhedged"
     ELSE IF row[a].status \in Terminal /\ ~row[a].exposure THEN "aborted"
     ELSE "open"]

TwoLeg == INSTANCE TwoLegBet WITH held <- heldBy, verdict <- verdictOf

TwoLegSpec == TwoLeg!Spec
-----------------------------------------------------------------------------
(* Sequences.                                                               *)

(* Appending a command or a response adds one place at the end.             *)
LEMMA Appended ==
  ASSUME NEW S, NEW s \in Seq(S), NEW e \in S
  PROVE  /\ Append(s, e) \in Seq(S)
         /\ Len(Append(s, e)) = Len(s) + 1 /\ Len(s) \in Nat
         /\ \A i \in 1..Len(s) : Append(s, e)[i] = s[i]
         /\ Append(s, e)[Len(s) + 1] = e
  BY AppendProperties, LenProperties

(* Taking the head moves everything else up.                                *)
LEMMA Taken ==
  ASSUME NEW S, NEW s \in Seq(S), s # <<>>
  PROVE  /\ Tail(s) \in Seq(S) /\ Head(s) \in S /\ Head(s) = s[1]
         /\ Len(s) \in Nat /\ 1 \in 1..Len(s)
         /\ Len(Tail(s)) = Len(s) - 1
         /\ \A i \in 1..Len(Tail(s)) : Tail(s)[i] = s[i + 1] /\ i + 1 \in 2..Len(s)
  BY HeadTailProperties, EmptySeq, LenProperties

-----------------------------------------------------------------------------
(* Types.                                                                   *)

(* The types hold initially.                                                *)
LEMMA InitTyped ==
  ASSUME SimulationBounds, Init
  PROVE  Types
<1> USE DEF Init, Types, TypeOK, SimulationBounds, Bookmakers, Odds, Answers, Terminal, Open,
            Places
<1>1. down \in [Bookmakers -> Seq(Commands)] /\ out \in [Bookmakers -> Seq(Responses)]
  BY EmptySeq
<1> QED BY <1>1

(* The types of what a command changes, and of a command.                   *)
LEMMA AskTyped ==
  ASSUME Types, NEW a \in Actions, NEW kind \in {"select", "place"},
         NEW bs \in SUBSET Bookmakers, Ask(a, kind, bs), SimulationBounds
  PROVE  /\ \A b \in Bookmakers : Command(a, kind, b) \in Commands
         /\ down' \in [Bookmakers -> Seq(Commands)]
         /\ answer' \in [Actions -> [Bookmakers -> Answers]]
         /\ pending' \in [Actions -> [Bookmakers -> Nat]]
<1>1. \A b \in Bookmakers : Command(a, kind, b) \in Commands /\ session[b] \in Nat
  BY DEF Types, TypeOK, Commands, Command, SimulationBounds
<1>2. \A b \in Bookmakers : Append(down[b], Command(a, kind, b)) \in Seq(Commands)
  BY <1>1, Appended DEF Types
<1>3. down' \in [Bookmakers -> Seq(Commands)]
  BY <1>2 DEF Ask, Types
<1>4. answer' \in [Actions -> [Bookmakers -> Answers]]
  BY DEF Ask, Types, TypeOK, Answers
<1>5. pending' \in [Actions -> [Bookmakers -> Nat]]
  BY <1>1 DEF Ask, Types
<1> QED BY <1>1, <1>3, <1>4, <1>5

(* The workflow keeps the types.                                            *)
LEMMA WorkflowTyped ==
  ASSUME Types, NEW a \in Actions, Workflow(a), SimulationBounds
  PROVE  Types'
<1> USE DEF Types, TypeOK
<1>q. ASSUME Quiet
      PROVE  /\ expired' = expired /\ out' = out /\ session' = session /\ quote' = quote
             /\ prepared' = prepared /\ results' = results /\ tickets' = tickets
  BY <1>q DEF Quiet, collector
<1>f. ASSUME NEW status \in Terminal, NEW exposure \in BOOLEAN, Finish(a, status, exposure), Quiet
      PROVE  Types'
  BY <1>f, <1>q DEF Finish, Save, Goto, Places
<1>r. ASSUME Returns(a), Quiet
      PROVE  Types'
  BY <1>r, <1>q DEF Returns, Goto, Places
<1>g. ASSUME NEW where \in Places \ {"start"}, Goto(a, where), Quiet,
             UNCHANGED <<row, odds, answer, pending, down>>
      PROVE  Types'
  BY <1>g, <1>q DEF Goto
<1>k. ASSUME NEW status \in Open, NEW where \in Places \ {"start"},
             NEW kind \in {"select", "place"},
             NEW bs \in SUBSET Bookmakers,
             Save(a, status, FALSE), Goto(a, where), Ask(a, kind, bs), UNCHANGED odds, Quiet
      PROVE  Types'
  <2>1. /\ down' \in [Bookmakers -> Seq(Commands)]
        /\ answer' \in [Actions -> [Bookmakers -> Answers]]
        /\ pending' \in [Actions -> [Bookmakers -> Nat]]
    BY <1>k, AskTyped
  <2>2. /\ row' \in [Actions -> [status : Terminal \cup Open, exposure : BOOLEAN]]
        /\ pc' \in [Actions -> Places]
        /\ \A x \in Actions : pc'[x] = "start" => row'[x].status = "none"
    BY <1>k DEF Save, Goto
  <2> QED BY <1>k, <1>q, <2>1, <2>2
<1>p. ASSUME NEW b \in Bookmakers, NEW status \in {"placing_jun88", "placing_eightxbet"},
             Place(a, b, status), Quiet
      PROVE  Types'
  <2>1. CASE a \in expired
    BY <2>1, <1>p, <1>r DEF Place
  <2>2. CASE a \notin expired
    <3>1. {b} \in SUBSET Bookmakers /\ status \in Open /\ status \in Places \ {"start"}
      BY DEF Open, Places
    <3>2. /\ Save(a, status, FALSE) /\ Ask(a, "place", {b}) /\ Goto(a, status)
          /\ UNCHANGED odds
      BY <2>2, <1>p DEF Place
    <3> QED BY <3>1, <3>2, <1>p, <1>k
  <2> QED BY <2>1, <2>2
<1>1. CASE Start(a)
  BY <1>1, <1>k DEF Start, Open, Places
<1>2. CASE SelectionFails(a)
  BY <1>2, <1>f DEF SelectionFails, Terminal
<1>3. CASE Selected(a)
  <2>1. CASE Finish(a, "selection_rejected", FALSE)
    BY <1>3, <1>f, <2>1 DEF Selected, Terminal
  <2>2. CASE Returns(a)
    BY <1>3, <1>r, <2>2 DEF Selected
  <2>3. CASE /\ \A b \in Bookmakers : answer[a][b] = "good"
             /\ Save(a, "ready", FALSE) /\ odds' = [odds EXCEPT ![a] = answer[a]]
             /\ Goto(a, "ready") /\ UNCHANGED <<answer, pending, down>>
    <3>1. answer[a] \in [Bookmakers -> Odds]
      BY <2>3 DEF Odds
    <3>2. odds' \in [Actions -> [Bookmakers -> Odds]]
      BY <2>3, <3>1
    <3> QED BY <1>3, <1>q, <2>3, <3>2 DEF Selected, Save, Goto, Open, Places
  <2> QED BY <1>3, <2>1, <2>2, <2>3 DEF Selected
<1>4. CASE ReadyToPlace(a)
  BY <1>4, <1>f, <1>g DEF ReadyToPlace, Terminal, Places
<1>5. CASE PlaceJun88(a)
  BY <1>5, <1>p DEF PlaceJun88, Bookmakers
<1>6. CASE Jun88Answered(a)
  <2>1. CASE \E status \in Terminal, exposure \in BOOLEAN : Finish(a, status, exposure)
    BY <1>6, <2>1, <1>f DEF Jun88Answered
  <2>2. CASE Returns(a)
    BY <1>6, <2>2, <1>r DEF Jun88Answered
  <2>3. CASE /\ Save(a, "jun88_ticket_received", FALSE) /\ Goto(a, "jun88_ticket_received")
             /\ UNCHANGED <<odds, answer, pending, down>>
    BY <1>6, <2>3, <1>q DEF Jun88Answered, Save, Goto, Open, Places
  <2> QED BY <1>6, <2>1, <2>2, <2>3 DEF Jun88Answered, Terminal
<1>7. CASE ReadyForEightXBet(a)
  BY <1>7, <1>f, <1>g DEF ReadyForEightXBet, Terminal, Places
<1>8. CASE PlaceEightXBet(a)
  BY <1>8, <1>p DEF PlaceEightXBet, Bookmakers
<1>9. CASE EightXBetAnswered(a)
  BY <1>9, <1>f DEF EightXBetAnswered, Terminal
<1> QED BY <1>1, <1>2, <1>3, <1>4, <1>5, <1>6, <1>7, <1>8, <1>9 DEF Workflow

(* What a placement is answered.                                            *)
LEMMA PlacementAnswer ==
  ASSUME Types, NEW b \in Bookmakers, NEW c \in Commands
  PROVE  /\ PlacementResult(b, c) \in
              {"failed", "rejected", "odds_changed", "ticket_accepted"}
         /\ results[b][c.action] # "none" => PlacementResult(b, c) = results[b][c.action]
         /\ PlacementResult(b, c) = "ticket_accepted" /\ results[b][c.action] = "none" =>
              prepared[b][c.action] = c.odds /\ quote[b] = [odds |-> c.odds, fresh |-> TRUE]
  BY DEF Types, PlacementResult, Available, Commands

(* The collectors, the network and the clock keep the types.                *)
LEMMA RestTyped ==
  ASSUME Types, SimulationBounds,
         \/ \E a \in Actions : \/ DeadlinePasses(a) \/ Dies(a)
                               \/ \E b \in Bookmakers : TimesOut(a, b)
         \/ \E b \in Bookmakers : Collector(b) \/ Reconnect(b) \/ QuoteMoves(b)
  PROVE  Types'
<1> USE DEF Types, TypeOK
<1>t. ASSUME NEW b \in Bookmakers, down[b] # <<>>
      PROVE  /\ Tail(down[b]) \in Seq(Commands) /\ Head(down[b]) \in Commands
             /\ Head(down[b]).action \in Actions /\ Head(down[b]).odds \in Odds
  <2>1. down[b] \in Seq(Commands)
    OBVIOUS
  <2>2. Tail(down[b]) \in Seq(Commands) /\ Head(down[b]) \in Commands
    BY <1>t, <2>1, Taken
  <2> QED BY <2>2 DEF Commands
<1>o. ASSUME NEW b \in Bookmakers, out[b] # <<>>
      PROVE  /\ Tail(out[b]) \in Seq(Responses)
             /\ Head(out[b]).action \in Actions /\ Head(out[b]).result \in Answers
  <2>1. out[b] \in Seq(Responses)
    OBVIOUS
  <2>2. Tail(out[b]) \in Seq(Responses) /\ Head(out[b]) \in Responses
    BY <1>o, <2>1, Taken
  <2> QED BY <2>2 DEF Responses
<1>a. ASSUME NEW b \in Bookmakers, down[b] # <<>>, NEW a \in Actions, NEW result \in Answers,
             Respond(b, a, result)
      PROVE  down' \in [Bookmakers -> Seq(Commands)] /\ out' \in [Bookmakers -> Seq(Responses)]
  <2>1. [action |-> a, result |-> result] \in Responses /\ out[b] \in Seq(Responses)
    BY DEF Responses
  <2>2. Append(out[b], [action |-> a, result |-> result]) \in Seq(Responses)
    BY <2>1, Appended
  <2> QED BY <1>a, <1>t, <2>2 DEF Respond
<1>1. ASSUME NEW a \in Actions, DeadlinePasses(a) PROVE Types'
  BY <1>1 DEF DeadlinePasses, collector
<1>2. ASSUME NEW a \in Actions, Dies(a) PROVE Types'
  BY <1>2 DEF Dies, Goto, Places, Answers, collector
<1>3. ASSUME NEW a \in Actions, NEW b \in Bookmakers, TimesOut(a, b) PROVE Types'
  BY <1>3 DEF TimesOut, Answers, workflow, collector
<1>4. ASSUME NEW b \in Bookmakers, SelectOdds(b) PROVE Types'
  <2> DEFINE c == Head(down[b])
  <2>1. c.action \in Actions /\ down[b] # <<>>
    BY <1>4, <1>t DEF SelectOdds
  <2>2. quote[b].odds \in Odds \cup {"none"}
    OBVIOUS
  <2>3. CASE \E result \in {"failed", "unavailable"} :
               Respond(b, c.action, result) /\ UNCHANGED prepared
    BY <1>4, <1>a, <2>1, <2>3 DEF SelectOdds, workflow, Answers
  <2>4. CASE /\ Available(b) /\ Respond(b, c.action, quote[b].odds)
             /\ prepared' = [prepared EXCEPT ![b][c.action] = quote[b].odds]
    <3>1. quote[b].odds \in Odds
      BY <2>2, <2>4 DEF Available
    <3>2. prepared' \in [Bookmakers -> [Actions -> Odds \cup {"none"}]]
      BY <2>1, <2>4, <3>1
    <3> QED BY <1>4, <1>a, <2>1, <2>4, <3>1, <3>2 DEF SelectOdds, workflow, Answers
  <2> QED BY <1>4, <2>3, <2>4 DEF SelectOdds
<1>5. ASSUME NEW b \in Bookmakers, PlaceBet(b) PROVE Types'
  <2> DEFINE c == Head(down[b])
             result == PlacementResult(b, c)
  <2>1. c \in Commands /\ c.action \in Actions /\ c.odds \in Odds /\ down[b] # <<>>
    BY <1>5, <1>t DEF PlaceBet
  <2>2. result \in {"failed", "rejected", "odds_changed", "ticket_accepted"}
    BY <2>1, PlacementAnswer
  <2>3. Respond(b, c.action, result)
    BY <1>5 DEF PlaceBet
  <2>4. down' \in [Bookmakers -> Seq(Commands)] /\ out' \in [Bookmakers -> Seq(Responses)]
    <3> HIDE DEF result, c
    <3> QED BY <1>a, <2>1, <2>2, <2>3 DEF Answers, c
  <2>5. tickets' \subseteq Actions \X Bookmakers \X Odds
    BY <1>5, <2>1 DEF PlaceBet, Ticket
  <2>6. /\ results' \in [Bookmakers -> [Actions -> {"none", "odds_changed", "ticket_accepted"}]]
        /\ prepared' \in [Bookmakers -> [Actions -> Odds \cup {"none"}]]
    BY <1>5, <2>1, <2>2 DEF PlaceBet
  <2> QED BY <1>5, <2>4, <2>5, <2>6 DEF PlaceBet, workflow
<1>6. ASSUME NEW b \in Bookmakers, Delivered(b) PROVE Types'
  <2> DEFINE r == Head(out[b])
  <2>1. out[b] # <<>> /\ r.action \in Actions /\ r.result \in Answers
    BY <1>6, <1>o DEF Delivered
  <2>2. out' \in [Bookmakers -> Seq(Responses)]
    BY <1>6, <1>o DEF Delivered
  <2>3. answer' \in [Actions -> [Bookmakers -> Answers]]
    BY <1>6, <2>1 DEF Delivered, Answers
  <2> QED BY <1>6, <2>2, <2>3 DEF Delivered, workflow, collector
<1>7. ASSUME NEW b \in Bookmakers, Reconnect(b) PROVE Types'
  <2>1. session' \in [Bookmakers -> 1..MaxSessions]
    BY <1>7 DEF Reconnect, SimulationBounds
  <2>2. down' \in [Bookmakers -> Seq(Commands)] /\ out' \in [Bookmakers -> Seq(Responses)]
    <3>1. <<>> \in Seq(Commands)
      BY EmptySeq
    <3>2. down' = [down EXCEPT ![b] = <<>>]
      BY <1>7 DEF Reconnect
    <3>3. out' = out \/ (out[b] # <<>> /\ out' = [out EXCEPT ![b] = Tail(@)])
      BY <1>7 DEF Reconnect
    <3>4. out' \in [Bookmakers -> Seq(Responses)]
      BY <3>3, <1>o
    <3> QED BY <3>1, <3>2, <3>4
  <2> QED BY <1>7, <2>1, <2>2 DEF Reconnect, workflow
<1>8. ASSUME NEW b \in Bookmakers, QuoteMoves(b) PROVE Types'
  BY <1>8 DEF QuoteMoves, workflow
<1> QED BY <1>1, <1>2, <1>3, <1>4, <1>5, <1>6, <1>7, <1>8 DEF Collector

-----------------------------------------------------------------------------
(* What the steps preserve.                                                 *)

(* IInv holds initially.                                                    *)
LEMMA InitInv ==
  ASSUME SimulationBounds, Init
  PROVE  IInv
<1>1. Types
  BY InitTyped
<1>2. ASSUME NEW a \in Actions, NEW b \in Bookmakers PROVE LegInv(a, b)
  <2>1. Len(down[b]) = 0 /\ Len(out[b]) = 0
    BY DEF Init
  <2>2. ~OnItsWay(a, b) /\ ~Ticketed(a, b)
    BY <2>1 DEF Init, OnItsWay, Ticketed
  <2> QED BY <2>1, <2>2 DEF Init, LegInv, Fits
<1>3. ASSUME NEW a \in Actions PROVE OrderInv(a) /\ VerdictInv(a)
  <2>1. Len(down["8xbet"]) = 0 /\ ~Ticketed(a, "8xbet")
    BY DEF Init, Ticketed, Bookmakers
  <2> QED BY <2>1 DEF Init, OrderInv, VerdictInv, PlacedFirst, OnItsWay, Terminal
<1> QED BY <1>1, <1>2, <1>3 DEF IInv, BettingInv

(* A leg without a new command, ticket or answer about its placement.       *)
LEMMA LegKept ==
  ASSUME NEW a \in Actions, NEW b \in Bookmakers, LegInv(a, b),
         pc[a] \in Placed(b) => pc'[a] \in Placed(b),
         tickets' = tickets, results'[b][a] = results[b][a],
         OnItsWay(a, b)' => OnItsWay(a, b),
         \A i, j \in 1..Len(down'[b]) : IsPlacement(a, b, i)' /\ IsPlacement(a, b, j)' => i = j,
         \A i \in 1..Len(out'[b]) : out'[b][i].action = a => Fits(a, b, out'[b][i].result),
         Fits(a, b, answer'[a][b])
  PROVE  LegInv(a, b)'
<1>1. Ticketed(a, b)' <=> Ticketed(a, b)
  BY DEF Ticketed
<1>2. ASSUME NEW r, Fits(a, b, r)
      PROVE  /\ r \in {"ticket_accepted", "odds_changed", "rejected"} => pc'[a] \in Placed(b)
             /\ r = "ticket_accepted" => Ticketed(a, b)'
             /\ r \in {"odds_changed", "rejected"} => NeverTicketed(a, b)'
  BY <1>1, <1>2 DEF Fits, NeverTicketed
<1>3. \A i \in 1..Len(out'[b]) : out'[b][i].action = a => Fits(a, b, out[b][i].result)'
  BY <1>2 DEF Fits
<1>4. Fits(a, b, answer[a][b])'
  BY <1>2 DEF Fits
<1>5. OnItsWay(a, b)' \/ Ticketed(a, b)' => pc'[a] \in Placed(b)
  BY <1>1 DEF LegInv
<1>6. Ticketed(a, b)' <=> results'[b][a] = "ticket_accepted"
  BY <1>1 DEF LegInv
<1> QED BY <1>3, <1>4, <1>5, <1>6 DEF LegInv

(* An action to which nothing happens beyond a tick of its collectors.      *)
LEMMA ActionKept ==
  ASSUME NEW a \in Actions, OrderInv(a), VerdictInv(a),
         pc'[a] = pc[a], row'[a] = row[a], tickets' = tickets,
         \A b \in Bookmakers : OnItsWay(a, b)' => OnItsWay(a, b)
  PROVE  OrderInv(a)' /\ VerdictInv(a)'
<1>1. \A b \in Bookmakers : Ticketed(a, b)' <=> Ticketed(a, b)
  BY DEF Ticketed
<1>2. "8xbet" \in Bookmakers /\ "jun88" \in Bookmakers
  BY DEF Bookmakers
<1>3. OrderInv(a)'
  BY <1>1, <1>2 DEF OrderInv
<1>4. VerdictInv(a)'
  BY <1>1, <1>2 DEF VerdictInv, NeverTicketed
<1> QED BY <1>3, <1>4

(* The legs see nothing of a step that leaves commands, responses, tickets  *)
(* and cached results alone, and answers with nothing a collector said.     *)
LEMMA LegSeesNothing ==
  ASSUME NEW a \in Actions, NEW b \in Bookmakers, LegInv(a, b),
         pc[a] \in Placed(b) => pc'[a] \in Placed(b),
         UNCHANGED <<tickets, results, down, out>>,
         answer'[a][b] = answer[a][b] \/ answer'[a][b] \in {"idle", "waiting", "timeout"}
  PROVE  LegInv(a, b)' /\ (OnItsWay(a, b)' <=> OnItsWay(a, b))
<1>1. OnItsWay(a, b)' <=> OnItsWay(a, b)
  BY DEF OnItsWay, IsPlacement
<1>2. \A i, j \in 1..Len(down'[b]) : IsPlacement(a, b, i)' /\ IsPlacement(a, b, j)' => i = j
  BY DEF LegInv, IsPlacement
<1>3. \A i \in 1..Len(out'[b]) : out'[b][i].action = a => Fits(a, b, out'[b][i].result)
  BY DEF LegInv
<1>4. Fits(a, b, answer'[a][b])
  BY DEF LegInv, Fits
<1> QED BY <1>1, <1>2, <1>3, <1>4, LegKept

-----------------------------------------------------------------------------
(* The workflow.                                                            *)

(* The workflow moves on, or returns with a verdict, without a command.     *)
LEMMA MoveKeeps ==
  ASSUME IInv, NEW a \in Actions, NEW where \in Places,
         pc' = [pc EXCEPT ![a] = where], UNCHANGED <<tickets, results, down, out, answer>>,
         \A x \in Actions \ {a} : row'[x] = row[x],
         \A b \in Bookmakers : pc[a] \in Placed(b) => where \in Placed(b),
         where \in PlacedFirst => Ticketed(a, "jun88"),
         row'[a].status \in Terminal => where = "returned",
         row'[a].status = "completed" => \A b \in Bookmakers : Ticketed(a, b),
         row'[a].status \in Terminal \ {"completed"} /\ ~row'[a].exposure =>
           \A b \in Bookmakers : NeverTicketed(a, b),
         row'[a].status = "exposure_open" => Ticketed(a, "jun88") /\ NeverTicketed(a, "8xbet")
  PROVE  BettingInv'
<1>0. pc \in [Actions -> Places]
  BY DEF IInv, BettingInv, Types
<1>1. ASSUME NEW x \in Actions, NEW b \in Bookmakers
      PROVE  LegInv(x, b)' /\ (OnItsWay(x, b)' <=> OnItsWay(x, b))
  <2>1. LegInv(x, b)
    BY DEF IInv, BettingInv
  <2>2. pc[x] \in Placed(b) => pc'[x] \in Placed(b)
    BY <1>0
  <2> QED BY <2>1, <2>2, LegSeesNothing
<1>2. ASSUME NEW x \in Actions \ {a} PROVE OrderInv(x)' /\ VerdictInv(x)'
  <2>1. pc'[x] = pc[x]
    BY <1>0
  <2>2. OrderInv(x) /\ VerdictInv(x)
    BY DEF IInv, BettingInv
  <2> QED BY <1>1, <2>1, <2>2, ActionKept
<1>3. pc'[a] = where
  BY <1>0
<1>4. \A b \in Bookmakers : Ticketed(a, b)' <=> Ticketed(a, b)
  BY DEF Ticketed
<1>5. "8xbet" \in Bookmakers /\ "jun88" \in Bookmakers
  BY DEF Bookmakers
<1>6. OrderInv(a)'
  <2>1. OrderInv(a)
    BY DEF IInv, BettingInv
  <2> QED BY <1>1, <1>3, <1>4, <1>5, <2>1 DEF OrderInv
<1>7. VerdictInv(a)'
  BY <1>1, <1>3, <1>4, <1>5 DEF VerdictInv, NeverTicketed
<1> QED BY <1>1, <1>2, <1>6, <1>7 DEF BettingInv

(* A command goes out: one for odds from a workflow that has placed nothing,*)
(* or the placement, sent once.                                             *)
LEMMA AskKeeps ==
  ASSUME IInv, SimulationBounds, NEW a \in Actions, NEW where \in Places,
         NEW kind \in {"select", "place"}, NEW bs \in SUBSET Bookmakers,
         Ask(a, kind, bs), pc' = [pc EXCEPT ![a] = where],
         UNCHANGED <<tickets, results, out>>,
         \A x \in Actions \ {a} : row'[x] = row[x], row'[a].status \notin Terminal,
         \A b \in Bookmakers : pc[a] \in Placed(b) => where \in Placed(b),
         where \in PlacedFirst => Ticketed(a, "jun88"),
         kind = "place" => \A b \in bs : pc[a] \notin Placed(b) /\ where \in Placed(b),
         kind = "place" /\ "8xbet" \in bs => where \in PlacedFirst
  PROVE  BettingInv'
<1>0. /\ pc \in [Actions -> Places] /\ answer \in [Actions -> [Bookmakers -> Answers]]
      /\ down \in [Bookmakers -> Seq(Commands)]
  BY DEF IInv, BettingInv, Types, TypeOK
<1>1. \A b \in Bookmakers : Command(a, kind, b) \in Commands
  BY AskTyped DEF IInv, BettingInv
<1>2. ASSUME NEW b \in Bookmakers
      PROVE  /\ b \notin bs => down'[b] = down[b]
             /\ b \in bs => /\ Len(down'[b]) = Len(down[b]) + 1 /\ Len(down[b]) \in Nat
                            /\ \A i \in 1..Len(down[b]) : down'[b][i] = down[b][i]
                            /\ down'[b][Len(down[b]) + 1] = Command(a, kind, b)
  <2>1. down[b] \in Seq(Commands) /\ Command(a, kind, b) \in Commands
    BY <1>0, <1>1
  <2>2. b \notin bs => down'[b] = down[b]
    BY DEF Ask
  <2>3. b \in bs => down'[b] = Append(down[b], Command(a, kind, b))
    BY DEF Ask
  <2> QED BY <2>1, <2>2, <2>3, Appended
<1>3. \A b \in Bookmakers :
        Command(a, kind, b).kind = kind /\ Command(a, kind, b).action = a
  BY DEF Command
<1>4. ASSUME NEW x \in Actions, NEW b \in Bookmakers, ~(kind = "place" /\ b \in bs /\ x = a)
      PROVE  /\ OnItsWay(x, b)' <=> OnItsWay(x, b)
             /\ \A i \in 1..Len(down'[b]) :
                  IsPlacement(x, b, i)' => i \in 1..Len(down[b]) /\ IsPlacement(x, b, i)
  <2>1. CASE b \notin bs
    BY <1>2, <2>1 DEF OnItsWay, IsPlacement
  <2>2. CASE b \in bs
    <3>1. \A i \in 1..Len(down'[b]) : i \in 1..Len(down[b]) \/ i = Len(down[b]) + 1
      BY <1>2, <2>2
    <3>2. \A i \in 1..Len(down'[b]) : i = Len(down[b]) + 1 => ~IsPlacement(x, b, i)'
      BY <1>2, <1>3, <1>4, <2>2 DEF IsPlacement
    <3>3. \A i \in 1..Len(down[b]) :
            i \in 1..Len(down'[b]) /\ (IsPlacement(x, b, i)' <=> IsPlacement(x, b, i))
      BY <1>2, <2>2 DEF IsPlacement
    <3> QED BY <3>1, <3>2, <3>3 DEF OnItsWay
  <2> QED BY <2>1, <2>2
<1>5. ASSUME NEW x \in Actions, NEW b \in Bookmakers
      PROVE  answer'[x][b] = answer[x][b] \/ answer'[x][b] = "waiting"
  BY <1>0 DEF Ask
<1>6. ASSUME NEW x \in Actions, NEW b \in Bookmakers PROVE LegInv(x, b)'
  <2>0. LegInv(x, b)
    BY DEF IInv, BettingInv
  <2>1. CASE ~(kind = "place" /\ b \in bs /\ x = a)
    <3>1. pc[x] \in Placed(b) => pc'[x] \in Placed(b)
      BY <1>0
    <3>2. \A i, j \in 1..Len(down'[b]) : IsPlacement(x, b, i)' /\ IsPlacement(x, b, j)' => i = j
      BY <1>4, <2>0, <2>1 DEF LegInv
    <3>3. \A i \in 1..Len(out'[b]) : out'[b][i].action = x => Fits(x, b, out'[b][i].result)
      BY <2>0 DEF LegInv
    <3>4. Fits(x, b, answer'[x][b])
      BY <1>5, <2>0 DEF LegInv, Fits
    <3> QED BY <1>4, <2>0, <2>1, <3>1, <3>2, <3>3, <3>4, LegKept
  <2>2. CASE kind = "place" /\ b \in bs /\ x = a
    <3>1. pc[x] \notin Placed(b) /\ pc'[x] \in Placed(b)
      BY <1>0, <2>2
    <3>2. ~OnItsWay(x, b) /\ ~Ticketed(x, b)
      BY <2>0, <3>1 DEF LegInv
    <3>3. ~Ticketed(x, b)' /\ results'[b][x] # "ticket_accepted"
      BY <2>0, <3>2 DEF LegInv, Ticketed
    <3>4. \A i \in 1..Len(down'[b]) : IsPlacement(x, b, i)' => i = Len(down[b]) + 1
      <4>1. \A i \in 1..Len(down'[b]) : i \in 1..Len(down[b]) \/ i = Len(down[b]) + 1
        BY <1>2, <2>2
      <4>2. \A i \in 1..Len(down[b]) : ~IsPlacement(x, b, i)'
        BY <1>2, <2>2, <3>2 DEF IsPlacement, OnItsWay
      <4> QED BY <4>1, <4>2
    <3>5. \A r : Fits(x, b, r) => r \notin {"ticket_accepted", "odds_changed", "rejected"}
      BY <3>1 DEF Fits
    <3>6. \A i \in 1..Len(out'[b]) : out'[b][i].action = x => Fits(x, b, out[b][i].result)'
      BY <2>0, <3>5 DEF LegInv, Fits
    <3>7. Fits(x, b, answer[x][b])'
      BY <1>5, <2>0, <3>5 DEF LegInv, Fits
    <3> QED BY <3>1, <3>3, <3>4, <3>6, <3>7 DEF LegInv
  <2> QED BY <2>1, <2>2
<1>7. ASSUME NEW x \in Actions \ {a} PROVE OrderInv(x)' /\ VerdictInv(x)'
  <2>1. pc'[x] = pc[x]
    BY <1>0
  <2>2. OrderInv(x) /\ VerdictInv(x)
    BY DEF IInv, BettingInv
  <2> QED BY <1>4, <2>1, <2>2, ActionKept
<1>8. OrderInv(a)'
  <2>1. OrderInv(a) /\ pc'[a] = where /\ "8xbet" \in Bookmakers
    BY <1>0 DEF IInv, BettingInv, Bookmakers
  <2>2. /\ Ticketed(a, "jun88")' <=> Ticketed(a, "jun88")
        /\ Ticketed(a, "8xbet")' <=> Ticketed(a, "8xbet")
    BY DEF Ticketed
  <2>3. OnItsWay(a, "8xbet")' => OnItsWay(a, "8xbet") \/ where \in PlacedFirst
    BY <1>4, <2>1
  <2> QED BY <2>1, <2>2, <2>3 DEF OrderInv
<1>9. VerdictInv(a)'
  BY DEF VerdictInv, Terminal
<1> QED BY <1>6, <1>7, <1>8, <1>9 DEF BettingInv

(* A workflow that has recorded nothing final is still without a verdict.   *)
LEMMA WorkflowKeeps ==
  ASSUME IInv, SimulationBounds, NEW a \in Actions, Workflow(a)
  PROVE  BettingInv'
<1>0. /\ pc \in [Actions -> Places]
      /\ row \in [Actions -> [status : Terminal \cup Open, exposure : BOOLEAN]]
      /\ \A b \in Bookmakers : LegInv(a, b)
      /\ OrderInv(a) /\ VerdictInv(a)
      /\ Bookmakers = {"jun88", "8xbet"}
  BY DEF IInv, BettingInv, Types, TypeOK, Bookmakers
<1>q. ASSUME Quiet
      PROVE  UNCHANGED <<tickets, results, out>>
  BY <1>q DEF Quiet, collector
<1>f. ASSUME NEW status \in Terminal, NEW exposure \in BOOLEAN, Finish(a, status, exposure), Quiet,
             status = "completed" => \A b \in Bookmakers : Ticketed(a, b),
             status # "completed" /\ ~exposure => \A b \in Bookmakers : NeverTicketed(a, b),
             status = "exposure_open" => Ticketed(a, "jun88") /\ NeverTicketed(a, "8xbet")
      PROVE  BettingInv'
  <2>1. /\ pc' = [pc EXCEPT ![a] = "returned"] /\ UNCHANGED <<down, answer>>
        /\ row'[a].status = status /\ row'[a].exposure = exposure
        /\ \A x \in Actions \ {a} : row'[x] = row[x]
    BY <1>0, <1>f DEF Finish, Save, Goto
  <2>2. "returned" \in Places /\ "returned" \notin PlacedFirst
        /\ \A b \in Bookmakers : "returned" \in Placed(b)
    BY DEF Places, PlacedFirst, Placed
  <2>3. UNCHANGED <<tickets, results, down, out, answer>>
    BY <1>f, <1>q, <2>1
  <2> QED BY <1>f, <2>1, <2>2, <2>3, MoveKeeps
<1>m. ASSUME NEW where \in Places \ {"start", "selecting"}, Goto(a, where), Quiet,
             UNCHANGED <<answer, down>>,
             \A x \in Actions \ {a} : row'[x] = row[x],
             row'[a] = row[a] \/ row'[a].status \notin Terminal,
             pc[a] # "returned",
             \A b \in Bookmakers : pc[a] \in Placed(b) => where \in Placed(b),
             where \in PlacedFirst => Ticketed(a, "jun88")
      PROVE  BettingInv'
  <2>1. pc' = [pc EXCEPT ![a] = where]
    BY <1>m DEF Goto
  <2>2. row'[a].status \notin Terminal
    BY <1>0, <1>m DEF VerdictInv
  <2>3. UNCHANGED <<tickets, results, down, out, answer>>
    BY <1>m, <1>q
  <2>4. row'[a].status \notin {"completed", "exposure_open"}
    BY <2>2 DEF Terminal
  <2> QED BY <1>m, <2>1, <2>2, <2>3, <2>4, MoveKeeps
<1>r. ASSUME Returns(a), Quiet, pc[a] # "returned"
      PROVE  BettingInv'
  <2>1. "returned" \in Places \ {"start", "selecting"} /\ "returned" \notin PlacedFirst
        /\ \A b \in Bookmakers : "returned" \in Placed(b)
    BY DEF Places, PlacedFirst, Placed
  <2>2. Goto(a, "returned") /\ UNCHANGED <<row, answer, down>>
    BY <1>r DEF Returns
  <2> QED BY <1>m, <1>r, <2>1, <2>2
<1>n. ASSUME pc[a] \in {"start", "selecting", "ready", "place_jun88"}
      PROVE  \A b \in Bookmakers : NeverTicketed(a, b) /\ pc[a] \notin Placed(b)
  <2>1. \A b \in Bookmakers : pc[a] \notin Placed(b)
    BY <1>n DEF Placed
  <2> QED BY <1>0, <2>1 DEF LegInv, NeverTicketed
<1>p. ASSUME NEW b \in Bookmakers, NEW status \in {"placing_jun88", "placing_eightxbet"},
             Place(a, b, status), Quiet, pc[a] # "returned",
             \/ b = "jun88" /\ status = "placing_jun88" /\ pc[a] = "place_jun88"
             \/ b = "8xbet" /\ status = "placing_eightxbet" /\ pc[a] = "place_8xbet"
      PROVE  BettingInv'
  <2>1. CASE a \in expired
    BY <2>1, <1>p, <1>r DEF Place
  <2>2. CASE a \notin expired
    <3>1. /\ Ask(a, "place", {b}) /\ pc' = [pc EXCEPT ![a] = status]
          /\ row'[a].status \notin Terminal /\ \A x \in Actions \ {a} : row'[x] = row[x]
      BY <1>0, <1>p, <2>2 DEF Place, Save, Goto, Terminal
    <3>2. status \in Places /\ {b} \in SUBSET Bookmakers
      BY DEF Places
    <3>3. /\ pc[a] \notin Placed(b) /\ status \in Placed(b)
          /\ \A d \in Bookmakers : pc[a] \in Placed(d) => status \in Placed(d)
          /\ b = "8xbet" => status \in PlacedFirst
      BY <1>0, <1>p DEF Placed, PlacedFirst
    <3>4. status \in PlacedFirst => Ticketed(a, "jun88")
      BY <1>0, <1>p DEF PlacedFirst, OrderInv
    <3>5. UNCHANGED <<tickets, results, out>>
      BY <1>p, <1>q
    <3> QED BY <3>1, <3>2, <3>3, <3>4, <3>5, AskKeeps
  <2> QED BY <2>1, <2>2
<1>1. CASE Start(a)
  <2>1. /\ Ask(a, "select", Bookmakers) /\ pc' = [pc EXCEPT ![a] = "selecting"]
        /\ row'[a].status \notin Terminal /\ \A x \in Actions \ {a} : row'[x] = row[x]
    BY <1>0, <1>1 DEF Start, Save, Goto, Terminal
  <2>2. /\ "selecting" \in Places /\ "selecting" \notin PlacedFirst
        /\ \A b \in Bookmakers : pc[a] \notin Placed(b)
    BY <1>1, <1>n DEF Places, PlacedFirst, Start, At
  <2>3. UNCHANGED <<tickets, results, out>>
    BY <1>1, <1>q DEF Start
  <2> QED BY <2>1, <2>2, <2>3, AskKeeps
<1>2. CASE SelectionFails(a)
  <2>1. Finish(a, "selection_rejected", FALSE) /\ Quiet /\ pc[a] = "selecting"
    BY <1>2 DEF SelectionFails, At
  <2> QED BY <2>1, <1>f, <1>n DEF Terminal
<1>3. CASE Selected(a)
  <2>0. Quiet /\ pc[a] = "selecting"
    BY <1>3 DEF Selected, At
  <2>1. CASE Finish(a, "selection_rejected", FALSE)
    BY <2>0, <2>1, <1>f, <1>n DEF Terminal
  <2>2. CASE Returns(a)
    BY <2>0, <2>2, <1>r
  <2>3. CASE Save(a, "ready", FALSE) /\ Goto(a, "ready") /\ UNCHANGED <<answer, down>>
    <3>1. row'[a].status \notin Terminal /\ \A x \in Actions \ {a} : row'[x] = row[x]
      BY <1>0, <2>3 DEF Save, Terminal
    <3>2. "ready" \in Places \ {"start", "selecting"} /\ "ready" \notin PlacedFirst
      BY DEF Places, PlacedFirst
    <3>3. pc[a] # "returned" /\ \A b \in Bookmakers : pc[a] \notin Placed(b)
      BY <2>0, <1>n
    <3> QED BY <2>0, <2>3, <3>1, <3>2, <3>3, <1>m
  <2> QED BY <1>3, <2>1, <2>2, <2>3 DEF Selected
<1>4. CASE ReadyToPlace(a)
  <2>0. Quiet /\ pc[a] = "ready"
    BY <1>4 DEF ReadyToPlace, At
  <2>1. CASE Finish(a, "failed", FALSE)
    BY <2>0, <2>1, <1>f, <1>n DEF Terminal
  <2>2. CASE Goto(a, "place_jun88") /\ UNCHANGED <<row, answer, down>>
    <3>1. "place_jun88" \in Places \ {"start", "selecting"} /\ "place_jun88" \notin PlacedFirst
      BY DEF Places, PlacedFirst
    <3>2. pc[a] # "returned" /\ \A b \in Bookmakers : pc[a] \notin Placed(b)
      BY <2>0, <1>n
    <3> QED BY <2>0, <2>2, <3>1, <3>2, <1>m
  <2> QED BY <1>4, <2>1, <2>2 DEF ReadyToPlace
<1>5. CASE PlaceJun88(a)
  BY <1>0, <1>5, <1>p DEF PlaceJun88, At
<1>6. CASE Jun88Answered(a)
  <2>0. Quiet /\ pc[a] = "placing_jun88" /\ Fits(a, "jun88", answer[a]["jun88"])
    BY <1>0, <1>6 DEF Jun88Answered, At, LegInv
  <2>a. NeverTicketed(a, "8xbet")
    BY <1>0, <2>0 DEF LegInv, NeverTicketed, Placed
  <2>1. CASE answer[a]["jun88"] = "odds_changed"
    <3>1. \A b \in Bookmakers : NeverTicketed(a, b)
      BY <1>0, <2>0, <2>a, <2>1 DEF Fits
    <3>2. Finish(a, "awaiting_odds_confirmation", FALSE)
      BY <1>6, <2>1 DEF Jun88Answered
    <3> QED BY <2>0, <3>1, <3>2, <1>f DEF Terminal
  <2>2. CASE answer[a]["jun88"] = "rejected"
    <3>1. \A b \in Bookmakers : NeverTicketed(a, b)
      BY <1>0, <2>0, <2>a, <2>2 DEF Fits
    <3>2. Finish(a, "failed", FALSE)
      BY <1>6, <2>2 DEF Jun88Answered
    <3> QED BY <2>0, <3>1, <3>2, <1>f DEF Terminal
  <2>3. CASE answer[a]["jun88"] = "ticket_accepted"
    <3>1. CASE Returns(a)
      BY <2>0, <3>1, <1>r
    <3>2. CASE /\ Save(a, "jun88_ticket_received", FALSE) /\ Goto(a, "jun88_ticket_received")
               /\ UNCHANGED <<answer, down>>
      <4>1. row'[a].status \notin Terminal /\ \A x \in Actions \ {a} : row'[x] = row[x]
        BY <1>0, <3>2 DEF Save, Terminal
      <4>2. /\ "jun88_ticket_received" \in Places \ {"start", "selecting"}
            /\ \A b \in Bookmakers :
                 pc[a] \in Placed(b) => "jun88_ticket_received" \in Placed(b)
        BY <1>0, <2>0 DEF Places, Placed
      <4>3. Ticketed(a, "jun88")
        BY <2>0, <2>3 DEF Fits
      <4> QED BY <2>0, <3>2, <4>1, <4>2, <4>3, <1>m
    <3> QED BY <1>6, <2>3, <3>1, <3>2 DEF Jun88Answered
  <2>4. CASE answer[a]["jun88"] \notin {"odds_changed", "rejected", "ticket_accepted"}
    <3>1. Finish(a, "submission_unknown", TRUE)
      BY <1>6, <2>4 DEF Jun88Answered
    <3> QED BY <2>0, <3>1, <1>f DEF Terminal
  <2> QED BY <2>1, <2>2, <2>3, <2>4
<1>7. CASE ReadyForEightXBet(a)
  <2>0. Quiet /\ pc[a] = "jun88_ticket_received"
    BY <1>7 DEF ReadyForEightXBet, At
  <2>1. CASE Finish(a, "exposure_open", TRUE)
    <3>1. Ticketed(a, "jun88") /\ NeverTicketed(a, "8xbet")
      BY <1>0, <2>0 DEF OrderInv, PlacedFirst, LegInv, NeverTicketed, Placed
    <3> QED BY <2>0, <2>1, <3>1, <1>f DEF Terminal
  <2>2. CASE Goto(a, "place_8xbet") /\ UNCHANGED <<row, answer, down>>
    <3>1. /\ "place_8xbet" \in Places \ {"start", "selecting"}
          /\ \A b \in Bookmakers : pc[a] \in Placed(b) => "place_8xbet" \in Placed(b)
      BY <1>0, <2>0 DEF Places, Placed
    <3>2. Ticketed(a, "jun88")
      BY <1>0, <2>0 DEF OrderInv, PlacedFirst
    <3> QED BY <2>0, <2>2, <3>1, <3>2, <1>m
  <2> QED BY <1>7, <2>1, <2>2 DEF ReadyForEightXBet
<1>8. CASE PlaceEightXBet(a)
  BY <1>0, <1>8, <1>p DEF PlaceEightXBet, At
<1>9. CASE EightXBetAnswered(a)
  <2>0. Quiet /\ pc[a] = "placing_eightxbet" /\ Fits(a, "8xbet", answer[a]["8xbet"])
    BY <1>0, <1>9 DEF EightXBetAnswered, At, LegInv
  <2>1. CASE answer[a]["8xbet"] = "ticket_accepted"
    <3>1. \A b \in Bookmakers : Ticketed(a, b)
      BY <1>0, <2>0, <2>1 DEF Fits, OrderInv
    <3>2. Finish(a, "completed", FALSE)
      BY <1>9, <2>1 DEF EightXBetAnswered
    <3> QED BY <2>0, <3>1, <3>2, <1>f DEF Terminal
  <2>2. CASE answer[a]["8xbet"] # "ticket_accepted"
    <3>1. CASE answer[a]["8xbet"] \in {"odds_changed", "rejected"}
      <4>1. Ticketed(a, "jun88") /\ NeverTicketed(a, "8xbet")
        BY <1>0, <2>0, <3>1 DEF Fits, OrderInv, PlacedFirst
      <4>2. Finish(a, "exposure_open", TRUE)
        BY <1>9, <3>1 DEF EightXBetAnswered
      <4> QED BY <2>0, <4>1, <4>2, <1>f DEF Terminal
    <3>2. CASE answer[a]["8xbet"] \notin {"odds_changed", "rejected"}
      <4>1. Finish(a, "submission_unknown", TRUE)
        BY <1>9, <2>2, <3>2 DEF EightXBetAnswered
      <4> QED BY <2>0, <4>1, <1>f DEF Terminal
    <3> QED BY <3>1, <3>2
  <2> QED BY <2>1, <2>2
<1> QED BY <1>1, <1>2, <1>3, <1>4, <1>5, <1>6, <1>7, <1>8, <1>9 DEF Workflow

-----------------------------------------------------------------------------
(* The collectors, the network and the clock.                               *)

(* A command that is taken leaves the others; a placement was the only one. *)
LEMMA CommandTaken ==
  ASSUME IInv, NEW b \in Bookmakers, down[b] # <<>>,
         down' = [down EXCEPT ![b] = Tail(down[b])],
         NEW a \in Actions, NEW d \in Bookmakers
  PROVE  /\ OnItsWay(a, d)' => OnItsWay(a, d)
         /\ \A i, j \in 1..Len(down'[d]) : IsPlacement(a, d, i)' /\ IsPlacement(a, d, j)' => i = j
         /\ d = b /\ Head(down[b]).kind = "place" /\ Head(down[b]).action = a =>
              OnItsWay(a, b) /\ ~OnItsWay(a, b)'
<1>1. LegInv(a, d) /\ down \in [Bookmakers -> Seq(Commands)]
  BY DEF IInv, BettingInv, Types
<1>2. CASE d # b
  <2>1. down'[d] = down[d]
    BY <1>1, <1>2
  <2> QED BY <1>1, <1>2, <2>1 DEF LegInv, OnItsWay, IsPlacement
<1>3. CASE d = b
  <2>1. /\ down'[b] = Tail(down[b]) /\ Head(down[b]) = down[b][1]
        /\ Len(down[b]) \in Nat /\ 1 \in 1..Len(down[b])
        /\ Len(down'[b]) = Len(down[b]) - 1
        /\ \A i \in 1..Len(down'[b]) : down'[b][i] = down[b][i + 1] /\ i + 1 \in 2..Len(down[b])
    <3>1. down[b] \in Seq(Commands) /\ down'[b] = Tail(down[b])
      BY <1>1
    <3>2. /\ Head(down[b]) = down[b][1] /\ Len(down[b]) \in Nat /\ 1 \in 1..Len(down[b])
          /\ Len(Tail(down[b])) = Len(down[b]) - 1
          /\ \A i \in 1..Len(Tail(down[b])) :
               Tail(down[b])[i] = down[b][i + 1] /\ i + 1 \in 2..Len(down[b])
      BY <3>1, Taken
    <3> QED BY <3>1, <3>2
  <2>2. \A i \in 1..Len(down'[b]) :
          /\ i + 1 \in 1..Len(down[b]) /\ i + 1 # 1
          /\ IsPlacement(a, b, i)' => IsPlacement(a, b, i + 1)
    BY <2>1 DEF IsPlacement
  <2>3. OnItsWay(a, b)' => OnItsWay(a, b)
    BY <2>2 DEF OnItsWay
  <2>4. \A i, j \in 1..Len(down'[b]) : IsPlacement(a, b, i)' /\ IsPlacement(a, b, j)' => i = j
    <3> TAKE i, j \in 1..Len(down'[b])
    <3>1. IsPlacement(a, b, i)' /\ IsPlacement(a, b, j)' => i + 1 = j + 1
      BY <1>1, <1>3, <2>2 DEF LegInv
    <3> QED BY <3>1, <2>1
  <2>5. Head(down[b]).kind = "place" /\ Head(down[b]).action = a =>
          OnItsWay(a, b) /\ ~OnItsWay(a, b)'
    <3> HAVE Head(down[b]).kind = "place" /\ Head(down[b]).action = a
    <3>1. IsPlacement(a, b, 1)
      BY <2>1 DEF IsPlacement
    <3>2. \A i \in 1..Len(down'[b]) : ~IsPlacement(a, b, i)'
      BY <1>1, <1>3, <2>1, <2>2, <3>1 DEF LegInv
    <3> QED BY <2>1, <3>1, <3>2 DEF OnItsWay
  <2> QED BY <1>3, <2>3, <2>4, <2>5
<1> QED BY <1>2, <1>3

(* What a collector answers is new at the end of its queue.                 *)
LEMMA ResponseAdded ==
  ASSUME IInv, NEW b \in Bookmakers, NEW e \in Responses,
         out' = [out EXCEPT ![b] = Append(out[b], e)],
         NEW x \in Actions, NEW d \in Bookmakers
  PROVE  \A i \in 1..Len(out'[d]) : out'[d][i].action = x =>
           Fits(x, d, out'[d][i].result) \/ (d = b /\ out'[d][i] = e)
<1>1. LegInv(x, d) /\ out \in [Bookmakers -> Seq(Responses)]
  BY DEF IInv, BettingInv, Types
<1>2. CASE d # b
  <2>1. out'[d] = out[d]
    BY <1>1, <1>2
  <2> QED BY <1>1, <2>1 DEF LegInv
<1>3. CASE d = b
  <2>1. out[b] \in Seq(Responses) /\ out'[b] = Append(out[b], e)
    BY <1>1
  <2>2. /\ Len(out'[b]) = Len(out[b]) + 1 /\ Len(out[b]) \in Nat
        /\ \A k \in 1..Len(out[b]) : out'[b][k] = out[b][k]
        /\ out'[b][Len(out[b]) + 1] = e
    BY <2>1, Appended
  <2>4. \A i \in 1..Len(out'[b]) : i \in 1..Len(out[b]) \/ i = Len(out[b]) + 1
    BY <2>2
  <2> QED BY <1>1, <1>3, <2>2, <2>4 DEF LegInv
<1> QED BY <1>2, <1>3

(* Responses that are taken or lost leave the others.                       *)
LEMMA ResponseTaken ==
  ASSUME IInv, NEW b \in Bookmakers, out[b] # <<>>,
         out' = [out EXCEPT ![b] = Tail(out[b])], NEW x \in Actions, NEW d \in Bookmakers
  PROVE  /\ \A i \in 1..Len(out'[d]) : out'[d][i].action = x => Fits(x, d, out'[d][i].result)
         /\ Head(out[b]).action = x => Fits(x, b, Head(out[b]).result)
<1>1. /\ \A e \in Bookmakers : LegInv(x, e)
      /\ out \in [Bookmakers -> Seq(Responses)]
  BY DEF IInv, BettingInv, Types
<1>2. /\ Head(out[b]) = out[b][1] /\ 1 \in 1..Len(out[b])
      /\ \A i \in 1..Len(Tail(out[b])) :
           Tail(out[b])[i] = out[b][i + 1] /\ i + 1 \in 2..Len(out[b])
  <2>1. out[b] \in Seq(Responses)
    BY <1>1
  <2> QED BY <2>1, Taken
<1>3. CASE d # b
  BY <1>1, <1>2, <1>3 DEF LegInv
<1>4. CASE d = b
  <2>1. out'[d] = Tail(out[b])
    BY <1>1, <1>4
  <2>2. \A i \in 1..Len(Tail(out[b])) : i + 1 \in 1..Len(out[b])
    BY <1>2
  <2> QED BY <1>1, <1>2, <1>4, <2>1, <2>2 DEF LegInv
<1> QED BY <1>3, <1>4

(* A collector answers a request for odds.                                  *)
LEMMA SelectOddsKeeps ==
  ASSUME IInv, NEW b \in Bookmakers, SelectOdds(b)
  PROVE  BettingInv'
<1>0. PICK c : c = Head(down[b])
  OBVIOUS
<1>1. /\ c.action \in Actions /\ down[b] # <<>> /\ c.kind = "select"
      /\ quote[b].odds \in Odds \cup {"none"}
  <2>1. down[b] \in Seq(Commands) /\ down[b] # <<>> /\ quote[b].odds \in Odds \cup {"none"}
    BY DEF IInv, Types, SelectOdds
  <2>2. c \in Commands
    BY <1>0, <2>1, Taken
  <2> QED BY <1>0, <2>1, <2>2 DEF Commands, SelectOdds
<1>2. PICK result \in {"failed", "unavailable", "good", "bad"} : Respond(b, c.action, result)
  <2>1. CASE \E r \in {"failed", "unavailable"} : Respond(b, c.action, r)
    BY <2>1
  <2>2. CASE Available(b) /\ Respond(b, c.action, quote[b].odds)
    BY <1>1, <2>2 DEF Available, Odds
  <2> QED BY <1>0, <2>1, <2>2 DEF SelectOdds
<1>3. /\ down' = [down EXCEPT ![b] = Tail(down[b])]
      /\ out' = [out EXCEPT ![b] = Append(out[b], [action |-> c.action, result |-> result])]
      /\ UNCHANGED <<pc, row, tickets, results, answer>>
      /\ result \in Answers
  BY <1>2 DEF Respond, SelectOdds, workflow, Answers, Odds
<1>4. ASSUME NEW x \in Actions, NEW d \in Bookmakers
      PROVE  LegInv(x, d)' /\ (OnItsWay(x, d)' => OnItsWay(x, d))
  <2>1. LegInv(x, d)
    BY DEF IInv, BettingInv
  <2>2. /\ OnItsWay(x, d)' => OnItsWay(x, d)
        /\ \A i, j \in 1..Len(down'[d]) : IsPlacement(x, d, i)' /\ IsPlacement(x, d, j)' => i = j
    BY <1>1, <1>3, CommandTaken
  <2>3. \A i \in 1..Len(out'[d]) : out'[d][i].action = x => Fits(x, d, out'[d][i].result)
    <3>1. Fits(x, d, result)
      BY <1>2 DEF Fits
    <3>2. PICK e : e = [action |-> c.action, result |-> result]
      OBVIOUS
    <3>3. e \in Responses /\ e.result = result
      BY <1>1, <1>3, <3>2 DEF Responses
    <3>4. out' = [out EXCEPT ![b] = Append(out[b], e)]
      BY <1>3, <3>2
    <3>5. \A y \in Actions, k \in Bookmakers : \A i \in 1..Len(out'[k]) :
            out'[k][i].action = y =>
              Fits(y, k, out'[k][i].result) \/ (k = b /\ out'[k][i] = e)
      BY <3>3, <3>4, ResponseAdded
    <3> QED BY <3>1, <3>3, <3>5
  <2>4. Fits(x, d, answer'[x][d])
    BY <1>3, <2>1 DEF LegInv
  <2> QED BY <1>3, <2>1, <2>2, <2>3, <2>4, LegKept
<1>5. ASSUME NEW x \in Actions PROVE OrderInv(x)' /\ VerdictInv(x)'
  <2>1. OrderInv(x) /\ VerdictInv(x)
    BY DEF IInv, BettingInv
  <2> QED BY <1>3, <1>4, <2>1, ActionKept
<1> QED BY <1>4, <1>5 DEF BettingInv

(* What a placement finds: its action has no verdict that excludes a ticket,*)
(* and what it is answered fits what the collector then remembers.          *)
LEMMA PlaceBetFinds ==
  ASSUME IInv, NEW b \in Bookmakers, PlaceBet(b), NEW c, c = Head(down[b]),
         NEW a, a = c.action, NEW result, result = PlacementResult(b, c)
  PROVE  /\ c \in Commands /\ a \in Actions /\ c.odds \in Odds /\ down[b] # <<>>
         /\ c.kind = "place" /\ OnItsWay(a, b) /\ ~OnItsWay(a, b)' /\ pc[a] \in Placed(b)
         /\ result \in {"failed", "rejected", "odds_changed", "ticket_accepted"}
         /\ down' = [down EXCEPT ![b] = Tail(down[b])]
         /\ out' = [out EXCEPT ![b] = Append(out[b], [action |-> a, result |-> result])]
         /\ UNCHANGED <<pc, row, answer>>
         /\ Ticketed(a, b)' <=> result = "ticket_accepted"
         /\ Ticketed(a, b)' <=> results'[b][a] = "ticket_accepted"
         /\ Ticketed(a, b) => Ticketed(a, b)'
<1>1. /\ c \in Commands /\ a \in Actions /\ c.odds \in Odds
      /\ down[b] # <<>> /\ c.kind = "place"
  <2>1. down[b] \in Seq(Commands) /\ down[b] # <<>> /\ c.kind = "place"
    BY DEF IInv, Types, PlaceBet
  <2>2. c \in Commands
    BY <2>1, Taken
  <2> QED BY <2>1, <2>2 DEF Commands
<1>2. /\ result \in {"failed", "rejected", "odds_changed", "ticket_accepted"}
      /\ results[b][a] # "none" => result = results[b][a]
  BY <1>1, PlacementAnswer DEF IInv
<1>3. /\ Respond(b, a, result) /\ UNCHANGED <<pc, row, answer>>
      /\ IF result = "ticket_accepted" /\ results[b][a] = "none"
           THEN tickets' = tickets \cup {<<a, b, c.odds>>} ELSE tickets' = tickets
      /\ results' = IF result \in {"odds_changed", "ticket_accepted"}
                      THEN [results EXCEPT ![b][a] = result] ELSE results
  BY DEF PlaceBet, Ticket, workflow
<1>4. /\ down' = [down EXCEPT ![b] = Tail(down[b])]
      /\ out' = [out EXCEPT ![b] = Append(out[b], [action |-> a, result |-> result])]
  BY <1>3 DEF Respond
<1>5. OnItsWay(a, b) /\ ~OnItsWay(a, b)'
  BY <1>1, <1>4, CommandTaken
<1>6. /\ LegInv(a, b) /\ Types
      /\ results \in [Bookmakers -> [Actions -> {"none", "odds_changed", "ticket_accepted"}]]
  BY <1>1 DEF IInv, BettingInv, Types
<1>7. pc[a] \in Placed(b) /\ (Ticketed(a, b) <=> results[b][a] = "ticket_accepted")
  BY <1>5, <1>6 DEF LegInv
<1>8. Ticketed(a, b)' <=> Ticketed(a, b) \/ (result = "ticket_accepted" /\ results[b][a] = "none")
  BY <1>1, <1>3 DEF Ticketed
<1>9. results[b][a] \in {"none", "odds_changed", "ticket_accepted"}
  BY <1>1, <1>6
<1>10. results'[b][a] = IF result \in {"odds_changed", "ticket_accepted"} THEN result
                        ELSE results[b][a]
  BY <1>1, <1>3, <1>6
<1>11. /\ Ticketed(a, b)' <=> result = "ticket_accepted"
       /\ Ticketed(a, b)' <=> results'[b][a] = "ticket_accepted"
       /\ Ticketed(a, b) => Ticketed(a, b)'
  BY <1>2, <1>7, <1>8, <1>9, <1>10
<1> QED BY <1>1, <1>2, <1>3, <1>4, <1>5, <1>7, <1>11

(* The tickets of other actions, and of the other bookmaker, stay.          *)
LEMMA PlaceBetElsewhere ==
  ASSUME IInv, NEW b \in Bookmakers, PlaceBet(b), NEW c, c = Head(down[b]),
         NEW x \in Actions, NEW d \in Bookmakers, x # c.action \/ d # b
  PROVE  (Ticketed(x, d)' <=> Ticketed(x, d)) /\ results'[d][x] = results[d][x]
<1>1. /\ tickets' = tickets \cup {<<c.action, b, c.odds>>} \/ tickets' = tickets
      /\ \/ results' = [results EXCEPT ![b][c.action] = PlacementResult(b, c)]
         \/ results' = results
      /\ results \in [Bookmakers -> [Actions -> {"none", "odds_changed", "ticket_accepted"}]]
  BY DEF PlaceBet, Ticket, IInv, Types
<1>2. \A o : <<x, d, o>> \in tickets' <=> <<x, d, o>> \in tickets
  BY <1>1
<1>3. results'[d][x] = results[d][x]
  BY <1>1
<1> QED BY <1>2, <1>3 DEF Ticketed

(* A collector answers a placement.                                         *)
LEMMA PlaceBetKeeps ==
  ASSUME IInv, NEW b \in Bookmakers, PlaceBet(b)
  PROVE  BettingInv'
<1>1. PICK c, a, result :
        c = Head(down[b]) /\ a = c.action /\ result = PlacementResult(b, c)
  OBVIOUS
<1>2. /\ a \in Actions /\ down[b] # <<>>
      /\ OnItsWay(a, b) /\ ~OnItsWay(a, b)' /\ pc[a] \in Placed(b)
      /\ result \in {"failed", "rejected", "odds_changed", "ticket_accepted"}
      /\ down' = [down EXCEPT ![b] = Tail(down[b])]
      /\ out' = [out EXCEPT ![b] = Append(out[b], [action |-> a, result |-> result])]
      /\ UNCHANGED <<pc, row, answer>>
      /\ Ticketed(a, b)' <=> result = "ticket_accepted"
      /\ Ticketed(a, b)' <=> results'[b][a] = "ticket_accepted"
      /\ Ticketed(a, b) => Ticketed(a, b)'
  BY <1>1, PlaceBetFinds
<1>3. \A x \in Actions, d \in Bookmakers : x # a \/ d # b =>
        (Ticketed(x, d)' <=> Ticketed(x, d)) /\ results'[d][x] = results[d][x]
  BY <1>1, PlaceBetElsewhere
<1>4. result \in Answers
  BY <1>2 DEF Answers
<1>5. ASSUME NEW x \in Actions, NEW d \in Bookmakers
      PROVE  /\ OnItsWay(x, d)' => OnItsWay(x, d)
             /\ \A i, j \in 1..Len(down'[d]) :
                  IsPlacement(x, d, i)' /\ IsPlacement(x, d, j)' => i = j
             /\ LegInv(x, d) /\ OrderInv(x) /\ VerdictInv(x)
  BY <1>2, CommandTaken DEF IInv, BettingInv
<1>o. \A x \in Actions, d \in Bookmakers : \A i \in 1..Len(out'[d]) :
        out'[d][i].action = x =>
          \/ Fits(x, d, out'[d][i].result)
          \/ x = a /\ d = b /\ out'[d][i].result = result
  <2>1. PICK e : e = [action |-> a, result |-> result]
    OBVIOUS
  <2>2. e \in Responses /\ e.action = a /\ e.result = result
    BY <1>2, <1>4, <2>1 DEF Responses
  <2>3. out' = [out EXCEPT ![b] = Append(out[b], e)]
    BY <1>2, <2>1
  <2>4. \A x \in Actions, d \in Bookmakers : \A i \in 1..Len(out'[d]) :
          out'[d][i].action = x =>
            Fits(x, d, out'[d][i].result) \/ (d = b /\ out'[d][i] = e)
    BY <2>2, <2>3, ResponseAdded
  <2> QED BY <2>2, <2>4
<1>6. ASSUME NEW x \in Actions, NEW d \in Bookmakers PROVE LegInv(x, d)'
  <2>1. CASE x # a \/ d # b
    <3>1. /\ Ticketed(x, d)' <=> Ticketed(x, d)
          /\ Ticketed(x, d)' <=> results'[d][x] = "ticket_accepted"
          /\ OnItsWay(x, d)' \/ Ticketed(x, d)' => pc'[x] \in Placed(d)
      BY <1>2, <1>3, <1>5, <2>1 DEF LegInv
    <3>2. ASSUME NEW r, Fits(x, d, r)
          PROVE  /\ r \in {"ticket_accepted", "odds_changed", "rejected"} => pc'[x] \in Placed(d)
                 /\ r = "ticket_accepted" => Ticketed(x, d)'
                 /\ r \in {"odds_changed", "rejected"} => NeverTicketed(x, d)'
      BY <1>2, <1>5, <3>1, <3>2 DEF Fits, NeverTicketed
    <3>3. ASSUME NEW i \in 1..Len(out'[d]), out'[d][i].action = x
          PROVE  Fits(x, d, out[d][i].result)'
      <4>1. Fits(x, d, out'[d][i].result)
        BY <1>o, <2>1, <3>3
      <4> QED BY <3>2, <4>1 DEF Fits
    <3>4. Fits(x, d, answer[x][d])'
      <4>1. Fits(x, d, answer'[x][d])
        BY <1>2, <1>5 DEF LegInv
      <4> QED BY <3>2, <4>1 DEF Fits
    <3> QED BY <1>5, <3>1, <3>3, <3>4 DEF LegInv
  <2>2. CASE x = a /\ d = b
    <3>1. ASSUME NEW r, Fits(a, b, r) \/ r = result
          PROVE  /\ r \in {"ticket_accepted", "odds_changed", "rejected"} => pc'[a] \in Placed(b)
                 /\ r = "ticket_accepted" => Ticketed(a, b)'
                 /\ r \in {"odds_changed", "rejected"} => NeverTicketed(a, b)'
      <4>1. Fits(a, b, r) => r \notin {"odds_changed", "rejected"}
        BY <1>2 DEF Fits, NeverTicketed
      <4>2. Fits(a, b, r) /\ r = "ticket_accepted" => Ticketed(a, b)'
        BY <1>2 DEF Fits
      <4>3. r = result /\ r \in {"odds_changed", "rejected"} => NeverTicketed(a, b)'
        BY <1>2 DEF NeverTicketed
      <4> QED BY <1>2, <3>1, <4>1, <4>2, <4>3
    <3>2. ASSUME NEW i \in 1..Len(out'[b]), out'[b][i].action = a
          PROVE  Fits(a, b, out[b][i].result)'
      <4>1. Fits(a, b, out'[b][i].result) \/ out'[b][i].result = result
        <5>1. PICK q : q = out'[b][i]
          OBVIOUS
        <5>2. Fits(a, b, q.result) \/ q.result = result
          BY <1>2, <1>o, <3>2, <5>1
        <5> QED BY <5>1, <5>2
      <4> QED BY <3>1, <4>1 DEF Fits
    <3>3. Fits(a, b, answer[a][b])'
      <4>1. Fits(a, b, answer'[a][b])
        BY <1>2, <1>5 DEF LegInv
      <4> QED BY <3>1, <4>1 DEF Fits
    <3>4. OnItsWay(a, b)' \/ Ticketed(a, b)' => pc'[a] \in Placed(b)
      BY <1>2
    <3> QED BY <1>2, <1>5, <2>2, <3>2, <3>3, <3>4 DEF LegInv
  <2> QED BY <2>1, <2>2
<1>7. ASSUME NEW x \in Actions PROVE OrderInv(x)'
  <2>1. /\ "8xbet" \in Bookmakers /\ "jun88" \in Bookmakers
        /\ OrderInv(x) /\ (OnItsWay(x, "8xbet")' => OnItsWay(x, "8xbet"))
    BY <1>5 DEF Bookmakers
  <2>2. Ticketed(x, "jun88") => Ticketed(x, "jun88")'
    BY <1>2, <1>3, <2>1
  <2>3. Ticketed(x, "8xbet")' => Ticketed(x, "8xbet") \/ OnItsWay(x, "8xbet")
    BY <1>2, <1>3, <2>1
  <2> QED BY <1>2, <2>1, <2>2, <2>3 DEF OrderInv
<1>8. ASSUME NEW x \in Actions PROVE VerdictInv(x)'
  <2>1. VerdictInv(x)
    BY DEF IInv, BettingInv
  <2>2. \A d \in Bookmakers : Ticketed(x, d) => Ticketed(x, d)'
    BY <1>2, <1>3
  <2>3. \A d \in Bookmakers : NeverTicketed(x, d) => NeverTicketed(x, d)'
    BY <1>2, <1>3, <1>5 DEF NeverTicketed
  <2>4. /\ pc'[x] = pc[x] /\ row'[x] = row[x]
        /\ "jun88" \in Bookmakers /\ "8xbet" \in Bookmakers
    BY <1>2 DEF Bookmakers
  <2> QED BY <2>1, <2>2, <2>3, <2>4 DEF VerdictInv
<1> QED BY <1>6, <1>7, <1>8 DEF BettingInv

(* Responses arrive, are lost with their connection, or come too late; the  *)
(* backend dies; quotes and deadlines pass.                                 *)
LEMMA RestKeeps ==
  ASSUME IInv, SimulationBounds,
         \/ \E a \in Actions : \/ DeadlinePasses(a) \/ Dies(a)
                               \/ \E b \in Bookmakers : TimesOut(a, b)
         \/ \E b \in Bookmakers : Collector(b) \/ Reconnect(b) \/ QuoteMoves(b)
  PROVE  BettingInv'
<1>0. /\ pc \in [Actions -> Places] /\ answer \in [Actions -> [Bookmakers -> Answers]]
      /\ down \in [Bookmakers -> Seq(Commands)] /\ out \in [Bookmakers -> Seq(Responses)]
      /\ \A x \in Actions, d \in Bookmakers : LegInv(x, d)
      /\ \A x \in Actions : OrderInv(x) /\ VerdictInv(x)
  BY DEF IInv, BettingInv, Types, TypeOK
<1>1. ASSUME UNCHANGED <<pc, row, tickets, results, down, out>>,
             \A x \in Actions, d \in Bookmakers :
               answer'[x][d] = answer[x][d] \/ answer'[x][d] \in {"idle", "waiting", "timeout"}
      PROVE  BettingInv'
  <2>1. ASSUME NEW x \in Actions, NEW d \in Bookmakers
        PROVE  LegInv(x, d)' /\ (OnItsWay(x, d)' <=> OnItsWay(x, d))
    BY <1>0, <1>1, LegSeesNothing
  <2>2. ASSUME NEW x \in Actions PROVE OrderInv(x)' /\ VerdictInv(x)'
    BY <1>0, <1>1, <2>1, ActionKept
  <2> QED BY <2>1, <2>2 DEF BettingInv
<1>2. CASE \E a \in Actions : DeadlinePasses(a)
  BY <1>1, <1>2 DEF DeadlinePasses, collector
<1>3. ASSUME NEW a \in Actions, Dies(a) PROVE BettingInv'
  <2>0. /\ pc' = [pc EXCEPT ![a] = "returned"] /\ pc[a] # "returned"
        /\ answer' = [answer EXCEPT ![a] = [b \in Bookmakers |-> "idle"]]
        /\ UNCHANGED <<row, tickets, results, down, out>>
    BY <1>3 DEF Dies, Goto, collector
  <2>1. ASSUME NEW x \in Actions, NEW d \in Bookmakers
        PROVE  LegInv(x, d)' /\ (OnItsWay(x, d)' <=> OnItsWay(x, d))
    <3>1. pc[x] \in Placed(d) => pc'[x] \in Placed(d)
      BY <1>0, <2>0 DEF Placed
    <3>2. answer'[x][d] = answer[x][d] \/ answer'[x][d] \in {"idle", "waiting", "timeout"}
      BY <1>0, <2>0
    <3> QED BY <1>0, <2>0, <3>1, <3>2, LegSeesNothing
  <2>2. ASSUME NEW x \in Actions \ {a} PROVE OrderInv(x)' /\ VerdictInv(x)'
    <3>1. pc'[x] = pc[x]
      BY <1>0, <2>0
    <3> QED BY <1>0, <2>0, <2>1, <3>1, ActionKept
  <2>3. OrderInv(a)'
    <3>1. /\ "8xbet" \in Bookmakers /\ pc'[a] \notin PlacedFirst
          /\ Ticketed(a, "8xbet")' <=> Ticketed(a, "8xbet")
          /\ Ticketed(a, "jun88")' <=> Ticketed(a, "jun88")
      BY <1>0, <2>0 DEF Bookmakers, Ticketed, PlacedFirst
    <3> QED BY <1>0, <2>1, <3>1 DEF OrderInv
  <2>4. VerdictInv(a)'
    BY <1>0, <2>0 DEF VerdictInv, Terminal
  <2> QED BY <2>1, <2>2, <2>3, <2>4 DEF BettingInv
<1>4. ASSUME NEW a \in Actions, NEW b \in Bookmakers, TimesOut(a, b) PROVE BettingInv'
  <2>1. /\ answer' = [answer EXCEPT ![a][b] = "timeout"]
        /\ UNCHANGED <<pc, row, tickets, results, down, out>>
    BY <1>4 DEF TimesOut, workflow, collector
  <2> QED BY <1>0, <1>1, <2>1
<1>5. CASE \E b \in Bookmakers : QuoteMoves(b)
  BY <1>1, <1>5 DEF QuoteMoves, workflow
<1>6. ASSUME UNCHANGED <<pc, row, tickets, results>>,
             \A x \in Actions, d \in Bookmakers :
               /\ OnItsWay(x, d)' => OnItsWay(x, d)
               /\ \A i, j \in 1..Len(down'[d]) :
                    IsPlacement(x, d, i)' /\ IsPlacement(x, d, j)' => i = j
               /\ \A i \in 1..Len(out'[d]) :
                    out'[d][i].action = x => Fits(x, d, out'[d][i].result)
               /\ Fits(x, d, answer'[x][d])
      PROVE  BettingInv'
  <2>1. ASSUME NEW x \in Actions, NEW d \in Bookmakers PROVE LegInv(x, d)'
    BY <1>0, <1>6, LegKept
  <2>2. ASSUME NEW x \in Actions PROVE OrderInv(x)' /\ VerdictInv(x)'
    BY <1>0, <1>6, ActionKept
  <2> QED BY <2>1, <2>2 DEF BettingInv
<1>7. ASSUME NEW b \in Bookmakers, Delivered(b) PROVE BettingInv'
  <2>0. PICK r : r = Head(out[b])
    OBVIOUS
  <2>1. /\ out[b] # <<>> /\ out' = [out EXCEPT ![b] = Tail(out[b])]
        /\ UNCHANGED <<pc, row, tickets, results, down>>
        /\ \/ answer' = [answer EXCEPT ![r.action][b] = r.result]
           \/ answer' = [answer EXCEPT ![r.action][b] = "failed"]
           \/ answer' = answer
    BY <1>7, <2>0 DEF Delivered, workflow, collector
  <2>2. r.action \in Actions
    <3>1. r \in Responses
      BY <1>0, <2>0, <2>1, Taken
    <3> QED BY <3>1 DEF Responses
  <2>3. ASSUME NEW x \in Actions, NEW d \in Bookmakers
        PROVE  /\ OnItsWay(x, d)' => OnItsWay(x, d)
               /\ \A i, j \in 1..Len(down'[d]) :
                    IsPlacement(x, d, i)' /\ IsPlacement(x, d, j)' => i = j
    BY <1>0, <2>1 DEF OnItsWay, IsPlacement, LegInv
  <2>4. ASSUME NEW x \in Actions, NEW d \in Bookmakers
        PROVE  \A i \in 1..Len(out'[d]) : out'[d][i].action = x => Fits(x, d, out'[d][i].result)
    BY <2>1, ResponseTaken
  <2>5. ASSUME NEW x \in Actions, NEW d \in Bookmakers PROVE Fits(x, d, answer'[x][d])
    <3>1. Fits(x, d, answer[x][d]) /\ Fits(x, d, "failed")
      BY <1>0 DEF LegInv, Fits
    <3>2. r.action = x => Fits(x, b, r.result)
      BY <2>0, <2>1, ResponseTaken
    <3>3. \/ answer'[x][d] = answer[x][d] \/ answer'[x][d] = "failed"
          \/ x = r.action /\ d = b /\ answer'[x][d] = r.result
      BY <1>0, <2>1, <2>2
    <3> QED BY <3>1, <3>2, <3>3
  <2> QED BY <1>6, <2>1, <2>3, <2>4, <2>5
<1>8. ASSUME NEW b \in Bookmakers, Reconnect(b) PROVE BettingInv'
  <2>1. /\ down' = [down EXCEPT ![b] = <<>>]
        /\ out' = out \/ (out[b] # <<>> /\ out' = [out EXCEPT ![b] = Tail(out[b])])
        /\ UNCHANGED <<pc, row, tickets, results, answer>>
    BY <1>8 DEF Reconnect, workflow
  <2>3. ASSUME NEW x \in Actions, NEW d \in Bookmakers
        PROVE  /\ OnItsWay(x, d)' => OnItsWay(x, d)
               /\ \A i, j \in 1..Len(down'[d]) :
                    IsPlacement(x, d, i)' /\ IsPlacement(x, d, j)' => i = j
    <3>1. CASE d = b
      <4>1. Len(down'[d]) = 0
        BY <1>0, <2>1, <3>1
      <4> QED BY <4>1 DEF OnItsWay
    <3>2. CASE d # b
      <4>1. down'[d] = down[d]
        BY <1>0, <2>1, <3>2
      <4> QED BY <1>0, <4>1 DEF OnItsWay, IsPlacement, LegInv
    <3> QED BY <3>1, <3>2
  <2>4. ASSUME NEW x \in Actions, NEW d \in Bookmakers
        PROVE  \A i \in 1..Len(out'[d]) : out'[d][i].action = x => Fits(x, d, out'[d][i].result)
    <3>1. CASE out' = out
      BY <1>0, <3>1 DEF LegInv
    <3>2. CASE out[b] # <<>> /\ out' = [out EXCEPT ![b] = Tail(out[b])]
      BY <3>2, ResponseTaken
    <3> QED BY <2>1, <3>1, <3>2
  <2>5. ASSUME NEW x \in Actions, NEW d \in Bookmakers PROVE Fits(x, d, answer'[x][d])
    BY <1>0, <2>1 DEF LegInv
  <2> QED BY <1>6, <2>1, <2>3, <2>4, <2>5
<1> QED BY <1>2, <1>3, <1>4, <1>5, <1>7, <1>8, SelectOddsKeeps, PlaceBetKeeps DEF Collector

-----------------------------------------------------------------------------
(* The theorems.                                                            *)

(* IInv is inductive.                                                       *)
LEMMA StepInv ==
  ASSUME SimulationBounds, IInv, [Next]_vars
  PROVE  IInv'
<1>0. Types /\ BettingInv
  BY DEF IInv
<1>1. ASSUME NEW a \in Actions, Workflow(a) PROVE IInv'
  BY <1>0, <1>1, WorkflowTyped, WorkflowKeeps DEF IInv
<1>2. CASE \/ \E a \in Actions : \/ DeadlinePasses(a) \/ Dies(a)
                                 \/ \E b \in Bookmakers : TimesOut(a, b)
           \/ \E b \in Bookmakers : Collector(b) \/ Reconnect(b) \/ QuoteMoves(b)
  BY <1>0, <1>2, RestTyped, RestKeeps DEF IInv
<1>3. CASE UNCHANGED vars
  <2>1. /\ UNCHANGED <<row, pc, odds, pending, expired, answer, down, out>>
        /\ UNCHANGED <<session, quote, prepared, results, tickets>>
    BY <1>3 DEF vars, workflow, collector
  <2>2. Types'
    BY <1>0, <2>1 DEF Types, TypeOK
  <2>3. ASSUME NEW x \in Actions, NEW d \in Bookmakers
        PROVE  LegInv(x, d)' /\ (OnItsWay(x, d)' <=> OnItsWay(x, d))
    BY <1>0, <2>1, LegSeesNothing DEF BettingInv
  <2>4. ASSUME NEW x \in Actions PROVE OrderInv(x)' /\ VerdictInv(x)'
    BY <1>0, <2>1, <2>3, ActionKept DEF BettingInv
  <2> QED BY <2>2, <2>3, <2>4 DEF IInv, BettingInv
<1> QED BY <1>1, <1>2, <1>3 DEF Next

(* In every behaviour of the simulation the placements, answers, tickets    *)
(* and verdicts fit together as IInv says.                                  *)
THEOREM SimulationHolds ==
  ASSUME SimulationBounds
  PROVE  Spec => []IInv
<1>1. Init => IInv
  BY InitInv
<1>2. IInv /\ [Next]_vars => IInv'
  BY StepInv
<1> QED BY <1>1, <1>2, PTL DEF Spec

(* The verdict of a simulated action agrees with the tickets the collectors *)
(* handed out, whatever responses were lost, late or of another session.    *)
THEOREM VerdictsMatchTickets ==
  ASSUME SimulationBounds
  PROVE  Spec => []VerdictMatchesTickets
<1>1. IInv => VerdictMatchesTickets
  <2>1. IInv => DOMAIN row = Actions
    BY DEF IInv, Types, TypeOK
  <2> SUFFICES ASSUME IInv, NEW a \in Actions
               PROVE  /\ row[a].status = "completed" => \A b \in Bookmakers : Ticketed(a, b)
                      /\ row[a].status \in Terminal \ {"completed"} /\ ~row[a].exposure =>
                           \A b \in Bookmakers : ~Ticketed(a, b)
                      /\ Ticketed(a, "8xbet") => Ticketed(a, "jun88")
    BY <2>1 DEF VerdictMatchesTickets
  <2> QED BY DEF IInv, BettingInv, VerdictInv, OrderInv, NeverTicketed
<1> QED BY <1>1, SimulationHolds, PTL

(* A ticket comes of a placement alone.                                     *)
LEMMA TicketsComeOfPlacements ==
  ASSUME [Next]_vars, tickets' # tickets
  PROVE  \E b \in Bookmakers : PlaceBet(b)
<1>1. ASSUME NEW a \in Actions, Workflow(a) PROVE UNCHANGED tickets
  <2>1. Workflow(a) => Quiet
    BY DEF Workflow, Start, SelectionFails, Selected, ReadyToPlace, PlaceJun88, Jun88Answered,
           ReadyForEightXBet, PlaceEightXBet, EightXBetAnswered
  <2> QED BY <1>1, <2>1 DEF Quiet, collector
<1>2. ASSUME NEW a \in Actions, NEW b \in Bookmakers,
             \/ DeadlinePasses(a) \/ Dies(a) \/ TimesOut(a, b)
             \/ SelectOdds(b) \/ Delivered(b) \/ Reconnect(b) \/ QuoteMoves(b)
      PROVE  UNCHANGED tickets
  BY <1>2 DEF DeadlinePasses, Dies, TimesOut, SelectOdds, Delivered, Reconnect, QuoteMoves,
              collector
<1>3. ASSUME NEW b \in Bookmakers, SelectOdds(b) \/ Delivered(b) \/ Reconnect(b) \/ QuoteMoves(b)
      PROVE  UNCHANGED tickets
  BY <1>3 DEF SelectOdds, Delivered, Reconnect, QuoteMoves, collector
<1>4. ASSUME NEW a \in Actions, DeadlinePasses(a) \/ Dies(a) PROVE UNCHANGED tickets
  BY <1>4 DEF DeadlinePasses, Dies, collector
<1>5. UNCHANGED vars => UNCHANGED tickets
  BY DEF vars, collector
<1> QED BY <1>1, <1>2, <1>3, <1>4, <1>5 DEF Next, Collector

(* A ticket is handed out once per action and bookmaker, only for a fresh   *)
(* price that is the submitted one and the one previewed in this session.   *)
THEOREM PreviewsAreHonoured ==
  ASSUME SimulationBounds
  PROVE  Spec => TicketsHonourPreviews
<1>1. IInv /\ [Next]_vars => HonoursPreview
  <2>0. IInv => DOMAIN row = Actions
    BY DEF IInv, Types, TypeOK
  <2> SUFFICES ASSUME IInv, [Next]_vars, NEW b \in Bookmakers, NEW a \in Actions, NEW o \in Odds,
                      <<a, b, o>> \in tickets' \ tickets
               PROVE  /\ ~Ticketed(a, b)
                      /\ prepared[b][a] = o /\ quote[b] = [odds |-> o, fresh |-> TRUE]
    BY <2>0 DEF HonoursPreview
  <2>1. PICK d \in Bookmakers : PlaceBet(d)
    BY TicketsComeOfPlacements
  <2>2. PICK c : c = Head(down[d])
    OBVIOUS
  <2>3. c \in Commands
    <3>1. down[d] \in Seq(Commands) /\ down[d] # <<>>
      BY <2>1 DEF IInv, Types, PlaceBet
    <3> QED BY <2>2, <3>1, Taken
  <2>4. /\ PlacementResult(d, c) = "ticket_accepted" /\ results[d][c.action] = "none"
        /\ tickets' = tickets \cup {<<c.action, d, c.odds>>}
    BY <2>1, <2>2 DEF PlaceBet, Ticket
  <2>5. a = c.action /\ b = d /\ o = c.odds
    BY <2>4
  <2>6. ~Ticketed(a, b)
    BY <2>4, <2>5 DEF IInv, BettingInv, LegInv
  <2>7. Types
    BY DEF IInv
  <2> QED BY <2>3, <2>4, <2>5, <2>6, <2>7, PlacementAnswer
<1>2. UNCHANGED vars => UNCHANGED tickets
  BY DEF vars, collector
<1> QED BY <1>1, <1>2, SimulationHolds, PTL DEF Spec, TicketsHonourPreviews

-----------------------------------------------------------------------------
(* The refinement of TwoLegBet.                                             *)

(* A verdict other than open tells the tickets of its action.               *)
VerdictFitsTickets ==
  \A a \in Actions :
    /\ verdictOf[a] \in {"open", "aborted", "unhedged", "completed"}
    /\ verdictOf[a] = "aborted" => heldBy[a] = {}
    /\ verdictOf[a] = "unhedged" => heldBy[a] = {"jun88"}
    /\ verdictOf[a] = "completed" => heldBy[a] = {"jun88", "8xbet"}

(* What the mapping says of one action.                                     *)
LEMMA MappedAction ==
  ASSUME IInv, NEW a \in Actions
  PROVE  /\ verdictOf[a] \in {"open", "aborted", "unhedged", "completed"}
         /\ verdictOf[a] = "aborted" => heldBy[a] = {}
         /\ verdictOf[a] = "unhedged" => heldBy[a] = {"jun88"}
         /\ verdictOf[a] = "completed" => heldBy[a] = {"jun88", "8xbet"}
         /\ verdictOf[a] # "open" => row[a].status \in Terminal /\ pc[a] = "returned"
<1>1. VerdictInv(a)
  BY DEF IInv, BettingInv
<1>2. verdictOf[a] = IF row[a].status = "completed" THEN "completed"
                     ELSE IF row[a].status = "exposure_open" THEN "unhedged"
                     ELSE IF row[a].status \in Terminal /\ ~row[a].exposure THEN "aborted"
                     ELSE "open"
  BY DEF verdictOf
<1>3. heldBy[a] = {b \in {"jun88", "8xbet"} : Ticketed(a, b)}
  BY DEF heldBy, Bookmakers
<1>4. /\ verdictOf[a] = "aborted" => row[a].status \in Terminal \ {"completed"} /\ ~row[a].exposure
      /\ verdictOf[a] = "unhedged" => row[a].status = "exposure_open"
      /\ verdictOf[a] = "completed" => row[a].status = "completed"
      /\ verdictOf[a] \in {"open", "aborted", "unhedged", "completed"}
  BY <1>2
<1>5. verdictOf[a] = "aborted" => ~Ticketed(a, "jun88") /\ ~Ticketed(a, "8xbet")
  BY <1>1, <1>4 DEF VerdictInv, NeverTicketed, Bookmakers
<1>6. verdictOf[a] = "unhedged" => Ticketed(a, "jun88") /\ ~Ticketed(a, "8xbet")
  BY <1>1, <1>4 DEF VerdictInv, NeverTicketed
<1>7. verdictOf[a] = "completed" => Ticketed(a, "jun88") /\ Ticketed(a, "8xbet")
  BY <1>1, <1>4 DEF VerdictInv, Bookmakers
<1>8. verdictOf[a] # "open" => row[a].status \in Terminal /\ pc[a] = "returned"
  BY <1>1, <1>4 DEF VerdictInv, Terminal
<1> QED BY <1>3, <1>4, <1>5, <1>6, <1>7, <1>8

(* A workflow that records a verdict records one that its tickets allow.    *)
LEMMA WorkflowIsTwoLeg ==
  ASSUME IInv, VerdictFitsTickets', NEW a \in Actions, Workflow(a)
  PROVE  [TwoLeg!Next]_<<heldBy, verdictOf>>
<1>1. /\ Quiet /\ pc[a] # "returned"
      /\ \A x \in Actions \ {a} : row'[x] = row[x]
  <2>1. row \in [Actions -> [status : Terminal \cup Open, exposure : BOOLEAN]]
    BY DEF IInv, Types, TypeOK
  <2> QED BY <2>1 DEF Workflow, Start, SelectionFails, Selected, ReadyToPlace, PlaceJun88,
             Jun88Answered, ReadyForEightXBet, PlaceEightXBet, EightXBetAnswered, At, Finish,
             Returns, Place, Save
<1>2. heldBy' = heldBy
  BY <1>1 DEF Quiet, collector, heldBy, Ticketed
<1>3. /\ verdictOf = [x \in Actions |-> verdictOf[x]]
      /\ verdictOf' = [x \in Actions |-> verdictOf'[x]]
      /\ \A x \in Actions \ {a} : verdictOf'[x] = verdictOf[x]
  BY <1>1 DEF verdictOf
<1>4. verdictOf[a] = "open"
  BY <1>1, MappedAction
<1>5. /\ verdictOf'[a] \in {"open", "aborted", "unhedged", "completed"}
      /\ verdictOf'[a] = "aborted" => heldBy[a] = {}
      /\ verdictOf'[a] = "unhedged" => heldBy[a] = {"jun88"}
      /\ verdictOf'[a] = "completed" => heldBy[a] = {"jun88", "8xbet"}
  <2>1. \A x \in Actions :
          /\ verdictOf'[x] \in {"open", "aborted", "unhedged", "completed"}
          /\ verdictOf'[x] = "aborted" => heldBy'[x] = {}
          /\ verdictOf'[x] = "unhedged" => heldBy'[x] = {"jun88"}
          /\ verdictOf'[x] = "completed" => heldBy'[x] = {"jun88", "8xbet"}
    BY DEF VerdictFitsTickets
  <2> QED BY <1>2, <2>1
<1>6. CASE verdictOf'[a] = "open"
  <2>1. verdictOf' = verdictOf
    BY <1>3, <1>4, <1>6
  <2> QED BY <1>2, <2>1
<1>7. CASE verdictOf'[a] # "open"
  <2>1. verdictOf' = [verdictOf EXCEPT ![a] = verdictOf'[a]]
    BY <1>3
  <2>2. TwoLeg!Abort(a) \/ TwoLeg!CloseUnhedged(a) \/ TwoLeg!Complete(a)
    BY <1>2, <1>4, <1>5, <1>7, <2>1 DEF TwoLeg!Abort, TwoLeg!CloseUnhedged, TwoLeg!Complete
  <2> QED BY <2>2 DEF TwoLeg!Next
<1> QED BY <1>6, <1>7

(* A ticket is Jun88's first or the hedge of one, of an action still open.  *)
LEMMA PlaceBetIsTwoLeg ==
  ASSUME IInv, NEW b \in Bookmakers, PlaceBet(b)
  PROVE  [TwoLeg!Next]_<<heldBy, verdictOf>>
<1>1. PICK c, a, result :
        c = Head(down[b]) /\ a = c.action /\ result = PlacementResult(b, c)
  OBVIOUS
<1>2. /\ a \in Actions /\ OnItsWay(a, b) /\ (Ticketed(a, b) => Ticketed(a, b)')
      /\ row' = row
  BY <1>1, PlaceBetFinds
<1>3. \A x \in Actions, d \in Bookmakers : x # a \/ d # b => (Ticketed(x, d)' <=> Ticketed(x, d))
  BY <1>1, PlaceBetElsewhere
<1>4. verdictOf' = verdictOf
  BY <1>2 DEF verdictOf
<1>5. CASE Ticketed(a, b)' <=> Ticketed(a, b)
  <2>1. \A x \in Actions, d \in Bookmakers : Ticketed(x, d)' <=> Ticketed(x, d)
    BY <1>3, <1>5
  <2>2. heldBy' = heldBy
    BY <2>1 DEF heldBy
  <2> QED BY <1>4, <2>2
<1>6. CASE Ticketed(a, b)' /\ ~Ticketed(a, b)
  <2>1. /\ "jun88" \in Bookmakers /\ "8xbet" \in Bookmakers /\ Bookmakers = {"jun88", "8xbet"}
        /\ OrderInv(a) /\ VerdictInv(a)
    BY <1>2 DEF IInv, BettingInv, Bookmakers
  <2>2. verdictOf[a] = "open"
    <3>1. /\ row[a].status # "completed" /\ row[a].status # "exposure_open"
          /\ ~(row[a].status \in Terminal /\ ~row[a].exposure)
      BY <1>2, <1>6, <2>1 DEF VerdictInv, NeverTicketed
    <3> QED BY <1>2, <3>1 DEF verdictOf
  <2>3. /\ heldBy = [x \in Actions |-> heldBy[x]] /\ heldBy' = [x \in Actions |-> heldBy'[x]]
        /\ \A x \in Actions : heldBy[x] = {d \in Bookmakers : Ticketed(x, d)}
        /\ \A x \in Actions : heldBy'[x] = {d \in Bookmakers : Ticketed(x, d)'}
    BY DEF heldBy
  <2>4. \A x \in Actions \ {a} : heldBy'[x] = heldBy[x]
    BY <1>3, <2>3
  <2>5. heldBy' = [heldBy EXCEPT ![a] = heldBy'[a]]
    BY <2>3, <2>4
  <2>6. CASE b = "jun88"
    <3>1. ~Ticketed(a, "8xbet") /\ ~Ticketed(a, "8xbet")' /\ Ticketed(a, "jun88")'
      BY <1>2, <1>3, <1>6, <2>1, <2>6 DEF OrderInv
    <3>2. heldBy[a] = {} /\ heldBy'[a] = {"jun88"}
      BY <1>2, <1>6, <2>1, <2>3, <2>6, <3>1
    <3>3. TwoLeg!BetFirstLeg(a)
      BY <1>4, <2>2, <2>5, <3>2 DEF TwoLeg!BetFirstLeg
    <3> QED BY <1>2, <3>3 DEF TwoLeg!Next
  <2>7. CASE b = "8xbet"
    <3>1. Ticketed(a, "jun88") /\ Ticketed(a, "jun88")' /\ Ticketed(a, "8xbet")'
      BY <1>2, <1>3, <1>6, <2>1, <2>7 DEF OrderInv
    <3>2. heldBy[a] = {"jun88"} /\ heldBy'[a] = {"jun88", "8xbet"}
      BY <1>2, <1>6, <2>1, <2>3, <2>7, <3>1
    <3>3. TwoLeg!BetHedge(a)
      BY <1>4, <2>2, <2>5, <3>2 DEF TwoLeg!BetHedge
    <3> QED BY <1>2, <3>3 DEF TwoLeg!Next
  <2> QED BY <2>1, <2>6, <2>7
<1> QED BY <1>2, <1>5, <1>6

(* Beyond a workflow and a placement nobody writes rows or hands out tickets.*)
LEMMA RestIsTwoLeg ==
  ASSUME [Next]_vars,
         ~\E a \in Actions : Workflow(a), ~\E b \in Bookmakers : PlaceBet(b)
  PROVE  UNCHANGED <<heldBy, verdictOf>>
<1>1. tickets' = tickets
  BY TicketsComeOfPlacements
<1>2. ASSUME NEW a \in Actions, DeadlinePasses(a) \/ Dies(a) PROVE row' = row
  BY <1>2 DEF DeadlinePasses, Dies
<1>3. ASSUME NEW a \in Actions, NEW b \in Bookmakers, TimesOut(a, b) PROVE row' = row
  BY <1>3 DEF TimesOut, workflow
<1>4. ASSUME NEW b \in Bookmakers, SelectOdds(b) \/ Delivered(b) \/ Reconnect(b) \/ QuoteMoves(b)
      PROVE  row' = row
  BY <1>4 DEF SelectOdds, Delivered, Reconnect, QuoteMoves, workflow
<1>5. UNCHANGED vars => row' = row
  BY DEF vars, workflow
<1>6. row' = row
  BY <1>2, <1>3, <1>4, <1>5 DEF Next, Collector
<1>7. verdictOf' = verdictOf
  BY <1>6 DEF verdictOf
<1>8. heldBy' = heldBy
  BY <1>1 DEF heldBy, Ticketed
<1> QED BY <1>7, <1>8

(* The simulation implements the two-leg bet: Jun88 is bet first and once,  *)
(* 8xbet only against its ticket and once, a verdict agrees with the        *)
(* tickets and is final - for lost responses, crashes of the backend and    *)
(* connections opened anew at any point.                                    *)
THEOREM SimulationIsTwoLegBet ==
  ASSUME SimulationBounds
  PROVE  Spec => TwoLegSpec
<1>1. Init => TwoLeg!Init
  <2> SUFFICES ASSUME Init PROVE TwoLeg!Init
    OBVIOUS
  <2>1. heldBy = [a \in Actions |-> {}]
    BY DEF Init, heldBy, Ticketed
  <2>2. verdictOf = [a \in Actions |-> "open"]
    BY DEF Init, verdictOf, Terminal
  <2> QED BY <2>1, <2>2 DEF TwoLeg!Init
<1>2. IInv /\ VerdictFitsTickets' /\ [Next]_vars => [TwoLeg!Next]_<<heldBy, verdictOf>>
  <2> SUFFICES ASSUME IInv, VerdictFitsTickets', [Next]_vars
               PROVE  [TwoLeg!Next]_<<heldBy, verdictOf>>
    OBVIOUS
  <2>1. CASE \E a \in Actions : Workflow(a)
    BY <2>1, WorkflowIsTwoLeg
  <2>2. CASE \E b \in Bookmakers : PlaceBet(b)
    BY <2>2, PlaceBetIsTwoLeg
  <2>3. CASE (~\E a \in Actions : Workflow(a)) /\ (~\E b \in Bookmakers : PlaceBet(b))
    BY <2>3, RestIsTwoLeg
  <2> QED BY <2>1, <2>2, <2>3
<1>3. Spec => []IInv
  BY SimulationHolds
<1>4. TwoLegSpec <=> TwoLeg!Spec
  BY DEF TwoLegSpec
<1>5. IInv => VerdictFitsTickets
  BY MappedAction DEF VerdictFitsTickets
<1> QED BY <1>1, <1>2, <1>3, <1>4, <1>5, PTL DEF Spec, TwoLeg!Spec
=============================================================================
