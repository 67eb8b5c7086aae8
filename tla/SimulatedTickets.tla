--------------------------- MODULE SimulatedTickets ---------------------------
(***************************************************************************)
(* What a simulated bet is to its readers: the row of the action and the   *)
(* synthetic tickets of the collectors, with what a collector knew when it *)
(* handed one out.  SimulatedBet says how they come about.                 *)
(***************************************************************************)

(* Odds are "good" when the pair is profitable at them, else "bad".        *)
Bookmakers == {"jun88", "8xbet"}
Odds == {"good", "bad"}

VARIABLES
  row,       \* bet_actions: [status, exposure]; status "none" before Create
  quote,     \* cached selection: [odds, fresh], odds "none" when suspended
  prepared,  \* preparedSimulatedSelections: odds by action
  tickets    \* <<action, bookmaker, odds>> handed out

Terminal == {"completed", "selection_rejected", "failed", "submission_unknown",
             "awaiting_odds_confirmation", "exposure_open"}

Ticketed(a, b) == \E o \in Odds : <<a, b, o>> \in tickets

(* The verdict agrees with the tickets the collectors handed out: completed *)
(* means both, a verdict without exposure means none, and 8xbet has one     *)
(* only after Jun88 - for every response lost, late or of another session.  *)
(* (Simulate, docs/bet-actions.md, "Outcomes")                              *)
VerdictMatchesTickets ==
  \A a \in DOMAIN row :
    /\ row[a].status = "completed" => \A b \in Bookmakers : Ticketed(a, b)
    /\ row[a].status \in Terminal \ {"completed"} /\ ~row[a].exposure =>
         \A b \in Bookmakers : ~Ticketed(a, b)
    /\ Ticketed(a, "8xbet") => Ticketed(a, "jun88")

(* A ticket is only handed out for a fresh price that is the submitted one  *)
(* and the one previewed in this session, and once per action and bookmaker.*)
(* (handleSimulatedPlaceBet, createSimulatedPlaceBetHandler)                *)
HonoursPreview ==
  \A b \in Bookmakers, a \in DOMAIN row, o \in Odds :
    <<a, b, o>> \in tickets' \ tickets =>
      /\ ~Ticketed(a, b)
      /\ prepared[b][a] = o /\ quote[b] = [odds |-> o, fresh |-> TRUE]

TicketsHonourPreviews == [][HonoursPreview]_tickets
=============================================================================
