------------------------------ MODULE TwoLegBet ------------------------------
(***************************************************************************)
(* What live betting and its simulation promise for one action, whoever    *)
(* works on it and however often: Jun88 is bet first and at most once,     *)
(* 8xbet only against an existing Jun88 ticket and at most once, and the   *)
(* verdict recorded for the action agrees with the tickets for good.       *)
(***************************************************************************)
CONSTANT Actions

VARIABLES
  held,     \* the bookmakers that hold a ticket of each action
  verdict   \* what the program has concluded about each action

Init ==
  /\ held = [a \in Actions |-> {}]
  /\ verdict = [a \in Actions |-> "open"]

BetFirstLeg(a) ==
  /\ verdict[a] = "open" /\ held[a] = {}
  /\ held' = [held EXCEPT ![a] = {"jun88"}]
  /\ UNCHANGED verdict

BetHedge(a) ==
  /\ verdict[a] = "open" /\ held[a] = {"jun88"}
  /\ held' = [held EXCEPT ![a] = {"jun88", "8xbet"}]
  /\ UNCHANGED verdict

Abort(a) ==
  /\ verdict[a] = "open" /\ held[a] = {}
  /\ verdict' = [verdict EXCEPT ![a] = "aborted"]
  /\ UNCHANGED held

CloseUnhedged(a) ==
  /\ verdict[a] = "open" /\ held[a] = {"jun88"}
  /\ verdict' = [verdict EXCEPT ![a] = "unhedged"]
  /\ UNCHANGED held

Complete(a) ==
  /\ verdict[a] = "open" /\ held[a] = {"jun88", "8xbet"}
  /\ verdict' = [verdict EXCEPT ![a] = "completed"]
  /\ UNCHANGED held

Next ==
  \E a \in Actions :
    BetFirstLeg(a) \/ BetHedge(a) \/ Abort(a) \/ CloseUnhedged(a) \/ Complete(a)

Spec == Init /\ [][Next]_<<held, verdict>>
=============================================================================
