----------------------------- MODULE SimulatedBet -----------------------------
(***************************************************************************)
(* The simulation workflow: Service.Simulate asks both collectors to select *)
(* the confirmed odds, then places at Jun88 and, with its ticket in hand,   *)
(* at 8xbet.  Each collector answers from its cache of the market and hands *)
(* out synthetic tickets; it binds a placement to the preview of the same   *)
(* action and leg.                                                          *)
(*                                                                          *)
(* Odds are "good" when the pair is profitable at them, else "bad".  Time   *)
(* is a flag: the deadline of the confirmation has passed or not, a cached  *)
(* quote is fresh or not.                                                   *)
(***************************************************************************)
EXTENDS SimulatedTickets, Integers, Sequences, SequencesExt

CONSTANTS Actions,        \* confirmed opportunities
          MaxSessions,    \* sessions a collector may open
          MaxMoves,       \* changes of the quotes
          MaxFaults       \* failed writes and crashes of the backend

SimulationBounds ==
  MaxSessions \in Nat \ {0} /\ MaxMoves \in Nat /\ MaxFaults \in Nat

VARIABLES
  pc,        \* where the workflow of an action is
  odds,      \* selectedOrConfirmedOdds of each leg
  answer,    \* per action and bookmaker: "idle", "waiting" or the response
  pending,   \* per action and bookmaker: session the request was sent to
  expired,   \* actions whose deadline has passed
  down, out, \* commands to a collector, responses in its send queue
  session,   \* session of each collector
  results,   \* simulatedPlacementResults: response by action
  moves, faults

workflow == <<row, pc, odds, pending, expired>>
collector == <<session, quote, prepared, results, tickets>>
vars == <<workflow, answer, down, out, collector, moves, faults>>

Init ==
  /\ row = [a \in Actions |-> [status |-> "none", exposure |-> FALSE]]
  /\ pc = [a \in Actions |-> "start"]
  /\ odds = [a \in Actions |-> [b \in Bookmakers |-> "good"]]
  /\ answer = [a \in Actions |-> [b \in Bookmakers |-> "idle"]]
  /\ pending = [a \in Actions |-> [b \in Bookmakers |-> 0]]
  /\ expired = {}
  /\ down = [b \in Bookmakers |-> <<>>]
  /\ out = [b \in Bookmakers |-> <<>>]
  /\ session = [b \in Bookmakers |-> 1]
  /\ quote = [b \in Bookmakers |-> [odds |-> "good", fresh |-> TRUE]]
  /\ prepared = [b \in Bookmakers |-> [a \in Actions |-> "none"]]
  /\ results = [b \in Bookmakers |-> [a \in Actions |-> "none"]]
  /\ tickets = {}
  /\ moves = 0
  /\ faults = 0

-----------------------------------------------------------------------------
(* The workflow.                                                            *)

(* SimulateBet registers the request and writes the command.                *)
Command(a, kind, b) ==
  [action |-> a, kind |-> kind, session |-> session[b], odds |-> odds[a][b]]

Ask(a, kind, bs) ==
  /\ down' = [b \in Bookmakers |-> IF b \in bs THEN Append(down[b], Command(a, kind, b)) ELSE down[b]]
  /\ answer' = [answer EXCEPT ![a] = [b \in Bookmakers |-> IF b \in bs THEN "waiting" ELSE @[b]]]
  /\ pending' = [pending EXCEPT ![a] = [b \in Bookmakers |-> IF b \in bs THEN session[b] ELSE @[b]]]

At(a, where) == pc[a] = where

Goto(a, where) == pc' = [pc EXCEPT ![a] = where]

Save(a, status, exposure) ==
  row' = [row EXCEPT ![a] = [status |-> status, exposure |-> exposure]]

(* The context of the workflow ends at the deadline, and a write under it   *)
(* fails: the call returns and leaves the row as it is.                     *)
Returns(a) == Goto(a, "returned") /\ UNCHANGED <<row, odds, answer, pending, down>>

(* finish, under a context without the deadline.                            *)
Finish(a, status, exposure) ==
  /\ Save(a, status, exposure)
  /\ Goto(a, "returned")
  /\ UNCHANGED <<odds, answer, pending, down>>

Quiet == UNCHANGED <<expired, out, collector, moves, faults>>

(* Create with the idempotency key of the pair, then selectBoth.            *)
Start(a) ==
  /\ At(a, "start")
  /\ row[a].status = "none" /\ a \notin expired
  /\ Save(a, "selecting", FALSE)
  /\ Goto(a, "selecting")
  /\ Ask(a, "select", Bookmakers)
  /\ UNCHANGED odds
  /\ Quiet

(* selectBoth returns at the first leg that is not selected.                *)
SelectionFails(a) ==
  /\ At(a, "selecting")
  /\ \E b \in Bookmakers : answer[a][b] \notin {"waiting", "good", "bad"}
  /\ Finish(a, "selection_rejected", FALSE)
  /\ Quiet

(* validateSelectionTiming, the two-negative rule, stakes and liquidity.    *)
Selected(a) ==
  /\ At(a, "selecting")
  /\ \A b \in Bookmakers : answer[a][b] \in Odds
  /\ \/ Finish(a, "selection_rejected", FALSE)
     \/ /\ \A b \in Bookmakers : answer[a][b] = "good"
        /\ IF a \in expired THEN Returns(a)
           ELSE /\ Save(a, "ready", FALSE)
                /\ odds' = [odds EXCEPT ![a] = answer[a]]
                /\ Goto(a, "ready")
                /\ UNCHANGED <<answer, pending, down>>
  /\ Quiet

(* requireWorkflowActive before the Jun88 leg.                              *)
ReadyToPlace(a) ==
  /\ At(a, "ready")
  /\ IF a \in expired THEN Finish(a, "failed", FALSE)
     ELSE Goto(a, "place_jun88") /\ UNCHANGED <<row, odds, answer, pending, down>>
  /\ Quiet

(* place: the row first, then the command.                                  *)
Place(a, b, status) ==
  IF a \in expired THEN Returns(a)
  ELSE /\ Save(a, status, FALSE)
       /\ Ask(a, "place", {b})
       /\ Goto(a, status)
       /\ UNCHANGED odds

PlaceJun88(a) == At(a, "place_jun88") /\ Place(a, "jun88", "placing_jun88") /\ Quiet

(* Only a ticket that confirms the submitted odds lets the workflow go on;  *)
(* a lost, failed or malformed response may hide a ticket.                  *)
Jun88Answered(a) ==
  LET response == answer[a]["jun88"] IN
  /\ At(a, "placing_jun88")
  /\ response # "waiting"
  /\ CASE response = "odds_changed" -> Finish(a, "awaiting_odds_confirmation", FALSE)
       [] response = "rejected" -> Finish(a, "failed", FALSE)
       [] response = "ticket_accepted" ->
            IF a \in expired THEN Returns(a)
            ELSE /\ Save(a, "jun88_ticket_received", FALSE)
                 /\ Goto(a, "jun88_ticket_received")
                 /\ UNCHANGED <<odds, answer, pending, down>>
       [] OTHER -> Finish(a, "submission_unknown", TRUE)
  /\ Quiet

(* requireWorkflowActive before the 8xbet leg.                              *)
ReadyForEightXBet(a) ==
  /\ At(a, "jun88_ticket_received")
  /\ IF a \in expired THEN Finish(a, "exposure_open", TRUE)
     ELSE Goto(a, "place_8xbet") /\ UNCHANGED <<row, odds, answer, pending, down>>
  /\ Quiet

PlaceEightXBet(a) == At(a, "place_8xbet") /\ Place(a, "8xbet", "placing_eightxbet") /\ Quiet

(* Wrong: an 8xbet price change ends like one of Jun88.                     *)
EightXBetAnsweredAlike(a) ==
  /\ At(a, "placing_eightxbet")
  /\ answer[a]["8xbet"] # "waiting"
  /\ CASE answer[a]["8xbet"] = "odds_changed" -> Finish(a, "awaiting_odds_confirmation", FALSE)
       [] answer[a]["8xbet"] = "rejected" -> Finish(a, "exposure_open", TRUE)
       [] answer[a]["8xbet"] = "ticket_accepted" -> Finish(a, "completed", FALSE)
       [] OTHER -> Finish(a, "submission_unknown", TRUE)
  /\ Quiet

EightXBetAnswered(a) ==
  LET response == answer[a]["8xbet"] IN
  /\ At(a, "placing_eightxbet")
  /\ response # "waiting"
  /\ CASE response \in {"odds_changed", "rejected"} -> Finish(a, "exposure_open", TRUE)
       [] response = "ticket_accepted" -> Finish(a, "completed", FALSE)
       [] OTHER -> Finish(a, "submission_unknown", TRUE)
  /\ Quiet

(* The request's context ends before a response, at the command's timeout   *)
(* or the deadline.                                                         *)
TimesOut(a, b) ==
  /\ answer[a][b] = "waiting"
  /\ answer' = [answer EXCEPT ![a][b] = "timeout"]
  /\ UNCHANGED <<workflow, down, out, collector, moves, faults>>

DeadlinePasses(a) ==
  /\ a \notin expired /\ pc[a] \notin {"start", "returned"}
  /\ expired' = expired \cup {a}
  /\ UNCHANGED <<row, pc, odds, pending, answer, down, out, collector, moves, faults>>

(* The backend dies, or a write fails: the workflow is not resumed.         *)
Dies(a) ==
  /\ faults < MaxFaults /\ pc[a] \notin {"start", "returned"}
  /\ faults' = faults + 1
  /\ Goto(a, "returned")
  /\ answer' = [answer EXCEPT ![a] = [b \in Bookmakers |-> "idle"]]
  /\ UNCHANGED <<row, odds, pending, expired, down, out, collector, moves>>

(* deliverSimulatedBetResponse: a response of another session fails the     *)
(* request it names.                                                        *)
Delivered(b) ==
  LET r == Head(out[b]) IN
  /\ out[b] # <<>>
  /\ out' = [out EXCEPT ![b] = Tail(@)]
  /\ answer' = IF answer[r.action][b] = "waiting"
                 THEN [answer EXCEPT ![r.action][b] =
                         IF pending[r.action][b] = session[b] THEN r.result ELSE "failed"]
                 ELSE answer
  /\ UNCHANGED <<workflow, down, collector, moves, faults>>

-----------------------------------------------------------------------------
(* The collector.                                                           *)

(* The connection is opened anew: previews are forgotten, placements kept.  *)
(* Responses still queued go out in the new session, or fail.               *)
Reconnect(b) ==
  /\ session[b] < MaxSessions
  /\ session' = [session EXCEPT ![b] = @ + 1]
  /\ prepared' = [prepared EXCEPT ![b] = [a \in Actions |-> "none"]]
  /\ down' = [down EXCEPT ![b] = <<>>]
  /\ \/ UNCHANGED out
     \/ out[b] # <<>> /\ out' = [out EXCEPT ![b] = Tail(@)]
  /\ UNCHANGED <<workflow, answer, quote, results, tickets, moves, faults>>

(* The cache moves on: other odds, a suspended line, or just age.           *)
QuoteMoves(b) ==
  /\ moves < MaxMoves
  /\ moves' = moves + 1
  /\ \E q \in [odds : Odds \cup {"none"}, fresh : BOOLEAN] :
       quote' = [quote EXCEPT ![b] = q]
  /\ UNCHANGED <<workflow, answer, down, out, session, prepared, results, tickets, faults>>

(* freshSimulationSelection on a quote that is there and not suspended.     *)
Available(b) == quote[b].odds # "none" /\ quote[b].fresh

Respond(b, a, result) ==
  /\ out' = [out EXCEPT ![b] = Append(@, [action |-> a, result |-> result])]
  /\ down' = [down EXCEPT ![b] = Tail(@)]

(* handleSimulatedSelectOdds.  An expired command fails.                    *)
SelectOdds(b) ==
  LET c == Head(down[b]) IN
  /\ down[b] # <<>> /\ c.kind = "select"
  /\ \/ c.action \in expired /\ Respond(b, c.action, "failed") /\ UNCHANGED prepared
     \/ c.action \notin expired /\ ~Available(b)
          /\ Respond(b, c.action, "unavailable") /\ UNCHANGED prepared
     \/ c.action \notin expired /\ Available(b)
          /\ Respond(b, c.action, quote[b].odds)
          /\ prepared' = [prepared EXCEPT ![b][c.action] = quote[b].odds]
  /\ UNCHANGED <<workflow, answer, session, quote, results, tickets, moves, faults>>

(* simulatedPlaceBetHandler: a new key is given a ticket at the odds asked  *)
(* for, a known one the ticket it has.                                      *)
Ticket(b, c) == tickets' = tickets \cup {<<c.action, b, c.odds>>}

(* Wrong: the placement is not compared with the cache again.               *)
PlacementResultUnchecked(b, c) ==
  IF results[b][c.action] # "none" THEN results[b][c.action]
  ELSE IF c.action \in expired THEN "failed"
  ELSE IF prepared[b][c.action] # c.odds THEN "rejected"
  ELSE "ticket_accepted"

(* What handleSimulatedPlaceBet answers: the cached result first, then the  *)
(* preview, the cache, and the odds.                                        *)
PlacementResult(b, c) ==
  IF results[b][c.action] # "none" THEN results[b][c.action]
  ELSE IF c.action \in expired THEN "failed"
  ELSE IF prepared[b][c.action] # c.odds \/ ~Available(b) THEN "rejected"
  ELSE IF quote[b].odds # c.odds THEN "odds_changed"
  ELSE "ticket_accepted"

(* handleSimulatedPlaceBet: answers about odds and tickets are remembered   *)
(* and use up the preview.                                                  *)
PlaceBet(b) ==
  LET c == Head(down[b])
      result == PlacementResult(b, c)
      final == result \in {"odds_changed", "ticket_accepted"} IN
  /\ down[b] # <<>> /\ c.kind = "place"
  /\ Respond(b, c.action, result)
  /\ IF result = "ticket_accepted" /\ results[b][c.action] = "none"
       THEN Ticket(b, c) ELSE UNCHANGED tickets
  /\ results' = IF final THEN [results EXCEPT ![b][c.action] = result] ELSE results
  /\ prepared' = IF final THEN [prepared EXCEPT ![b][c.action] = "none"] ELSE prepared
  /\ UNCHANGED <<workflow, answer, session, quote, moves, faults>>

-----------------------------------------------------------------------------
Workflow(a) ==
  \/ Start(a) \/ SelectionFails(a) \/ Selected(a) \/ ReadyToPlace(a)
  \/ PlaceJun88(a) \/ Jun88Answered(a) \/ ReadyForEightXBet(a)
  \/ PlaceEightXBet(a) \/ EightXBetAnswered(a)

Collector(b) == SelectOdds(b) \/ PlaceBet(b) \/ Delivered(b)

Next ==
  \/ \E a \in Actions : Workflow(a) \/ DeadlinePasses(a) \/ Dies(a)
                        \/ \E b \in Bookmakers : TimesOut(a, b)
  \/ \E b \in Bookmakers : Collector(b) \/ Reconnect(b) \/ QuoteMoves(b)

Spec == Init /\ [][Next]_vars

-----------------------------------------------------------------------------
Open == {"none", "selecting", "ready", "placing_jun88", "jun88_ticket_received",
         "placing_eightxbet"}

Answers == {"idle", "waiting", "timeout", "failed", "unavailable", "rejected",
            "odds_changed", "ticket_accepted"} \cup Odds

TypeOK ==
  /\ row \in [Actions -> [status : Terminal \cup Open, exposure : BOOLEAN]]
  /\ odds \in [Actions -> [Bookmakers -> Odds]]
  /\ answer \in [Actions -> [Bookmakers -> Answers]]
  /\ expired \subseteq Actions
  /\ session \in [Bookmakers -> 1..MaxSessions]
  /\ prepared \in [Bookmakers -> [Actions -> Odds \cup {"none"}]]
  /\ tickets \subseteq Actions \X Bookmakers \X Odds
  /\ \A a \in Actions : pc[a] = "start" => row[a].status = "none"
=============================================================================
