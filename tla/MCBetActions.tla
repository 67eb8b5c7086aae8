----------------------------- MODULE MCBetActions -----------------------------
(***************************************************************************)
(* Two parts of the betaction package that share no state, checked in one  *)
(* run: the arithmetic of the hedge (HedgeStake, amounts in thousands of   *)
(* VND) and the simulation workflow with its collectors (SimulatedBet,     *)
(* whose promise is that of SimulatedTickets).                             *)
(* A behaviour belongs to one scenario and the other part rests.           *)
(***************************************************************************)
EXTENDS HedgeStake, SimulatedTickets, TLC
CONSTANTS r1, r2, a1, a2
VARIABLES
  scenario,
  pc, legOdds, answer, pending, expired, down, out, session, results, moves, faults

simulation ==
  <<row, pc, legOdds, answer, pending, expired, down, out, session, quote, prepared,
    results, tickets, moves, faults>>

TwoRevisions == {r1, r2}
Tickets == {1, 20, 37}
TicketOdds == {-100, -81, -45, 95}
QuoteOdds == {-100, -93, -60, -12, 30, 88, 100}
Steps == {1, 4, 10}
Floors == {0, 3, 25}
Ceilings == {0, 20, 60}
Budgets == {45, 64}
Purses == {12, 64}
Symmetry == Permutations({a1, a2})

-----------------------------------------------------------------------------
(* One action among reconnecting collectors, moving quotes and a fault; or *)
(* two actions that share the collectors.                                  *)
One == INSTANCE SimulatedBet WITH odds <- legOdds,
  Actions <- {a1}, MaxSessions <- 2, MaxMoves <- 2, MaxFaults <- 1
Two == INSTANCE SimulatedBet WITH odds <- legOdds,
  Actions <- {a1, a2}, MaxSessions <- 1, MaxMoves <- 0, MaxFaults <- 0

ASSUME OneBounds == One!SimulationBounds
ASSUME TwoBounds == Two!SimulationBounds

SomeTerms ==
  [jun |-> 20, odds |-> -81, minimum |-> 0, maximum |-> 60, increment |-> 1, total |-> 64]

(* No exposure is evaluated.                                               *)
NoHedge ==
  /\ terms = SomeTerms
  /\ revision = NoRevision /\ odds = 0 /\ balance = 0
  /\ stake = 0 /\ profits = <<0, 0>>

ScenarioInit ==
  \/ scenario = "hedge" /\ Init /\ One!Init
  \/ scenario = "one action" /\ NoHedge /\ One!Init
  \/ scenario = "two actions" /\ NoHedge /\ Two!Init

ScenarioNext ==
  /\ UNCHANGED scenario
  /\ \/ scenario = "hedge" /\ Next /\ UNCHANGED simulation
     \/ scenario = "one action" /\ One!Next /\ UNCHANGED vars
     \/ scenario = "two actions" /\ Two!Next /\ UNCHANGED vars

ScenarioSpec == ScenarioInit /\ [][ScenarioNext]_<<vars, simulation, scenario>>
=============================================================================
