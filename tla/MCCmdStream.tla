------------------------------ MODULE MCCmdStream ------------------------------
(* Instances of CmdStream for TLC.  A behaviour belongs to one scenario, which  *)
(* fixes rows and bounds.                                                       *)
EXTENDS Integers, TLC

CONSTANTS r1, r2, o1, o2, Gone
VARIABLES
  scenario,
  dom, tick, changes, reloads, obs, sent, call, observing, map, sink, cache, loop

vars == <<dom, tick, changes, reloads, obs, sent, call, observing, map, sink, cache, loop>>

(* Two prices of one outcome, and a row that also shows a second outcome.       *)
MCContents == {o1 :> 1, o1 :> 2, (o1 :> 1) @@ (o2 :> 1)}

-----------------------------------------------------------------------------
(* The observer alone, two rows.                                                *)
Two == INSTANCE CmdStream WITH
  Rows <- {r1, r2}, Contents <- MCContents, MaxChanges <- 2, MaxReloads <- 0,
  GapChanges <- FALSE, Reconciles <- FALSE, Returns <- TRUE, Overtakes <- TRUE, Deadlines <- FALSE

(* The observer alone, one row that changes more often.                         *)
One == INSTANCE CmdStream WITH
  Rows <- {r1}, Contents <- MCContents, MaxChanges <- 4, MaxReloads <- 0,
  GapChanges <- FALSE, Reconciles <- FALSE, Returns <- TRUE, Overtakes <- TRUE, Deadlines <- FALSE

(* The reconcile repairs what changed before the install or was missed, when no *)
(* row returns to a remembered price and no delta overtakes a read.             *)
Repair == INSTANCE CmdStream WITH
  Rows <- {r1}, Contents <- MCContents, MaxChanges <- 3, MaxReloads <- 0,
  GapChanges <- TRUE, Reconciles <- TRUE, Returns <- FALSE, Overtakes <- FALSE, Deadlines <- FALSE

(* Everything at once: reloads, deadlines and every race.                       *)
All == INSTANCE CmdStream WITH
  Rows <- {r1}, Contents <- MCContents, MaxChanges <- 1, MaxReloads <- 1,
  GapChanges <- TRUE, Reconciles <- TRUE, Returns <- TRUE, Overtakes <- TRUE, Deadlines <- TRUE

ASSUME Assumptions ==
  /\ Two!CmdStreamAssumption /\ One!CmdStreamAssumption
  /\ Repair!CmdStreamAssumption /\ All!CmdStreamAssumption

Init ==
  \/ scenario = "two" /\ Two!Init
  \/ scenario \in {"one", "repair", "all"} /\ One!Init

Next ==
  /\ UNCHANGED scenario
  /\ \/ scenario = "two" /\ Two!Next
     \/ scenario = "one" /\ One!Next
     \/ scenario = "repair" /\ Repair!Next
     \/ scenario = "all" /\ All!Next

(* Timers and calls of the page run, and so does the loop of the node; the     *)
(* page need not change.                                                       *)
OneRuns ==
  /\ WF_vars(scenario = "one" /\ One!FirstRead(r1))
  /\ SF_vars(scenario = "one" /\ One!SecondRead(r1))
  /\ WF_vars(scenario = "one" /\ One!Scan)
  /\ WF_vars(scenario = "one" /\ One!Deliver)
  /\ WF_vars(scenario = "one" /\ One!Resolve)
  /\ WF_vars(scenario = "one" /\ One!ObservationArrives)
  /\ WF_vars(scenario = "one" /\ One!Node)

RepairRuns ==
  /\ WF_vars(scenario = "repair" /\ Repair!FirstRead(r1))
  /\ SF_vars(scenario = "repair" /\ Repair!SecondRead(r1))
  /\ WF_vars(scenario = "repair" /\ Repair!Scan)
  /\ WF_vars(scenario = "repair" /\ Repair!Deliver)
  /\ WF_vars(scenario = "repair" /\ Repair!Resolve)
  /\ WF_vars(scenario = "repair" /\ Repair!ObservationArrives)
  /\ SF_vars(scenario = "repair" /\ Repair!Node)

Spec == Init /\ [][Next]_<<vars, scenario>> /\ OneRuns /\ RepairRuns

-----------------------------------------------------------------------------
(* A consumer never sees one new leg of a fixture with an older sibling, and a *)
(* quote confirmation and the stream tell one price (CmdStream).               *)
RowsAreAtomic ==
  CASE scenario = "two" -> Two!RowsAreAtomic /\ Two!ConfirmationAgrees /\ Two!TypeOK
    [] scenario = "one" -> One!RowsAreAtomic /\ One!ConfirmationAgrees /\ One!TypeOK
    [] OTHER -> All!TypeOK

(* An observation renews the age of the fixtures it names; when it arrives, the*)
(* sink holds what those rows showed, never an older price.                    *)
ObservationIsTrue ==
  [][(scenario \in {"one", "two"} /\ observing # Gone /\ observing' = Gone) =>
       \A r \in DOMAIN observing : sink[r] = observing[r]]_vars

(* Once the page rests, every fixture with selections reaches the sink as the  *)
(* page shows it, whatever the observer missed before the install or after it. *)
(* (jun88-cmd-runtime.ts:1550: "This repairs a price which the DOM observer    *)
(* missed")                                                                    *)
Converges ==
  <>[](scenario = "repair" => sink[r1] = dom[r1] \/ dom[r1] \in {Gone, <<>>})

(* A fixture the observer knows and that leaves the page leaves the sink, also *)
(* when the mutation was missed.                                               *)
VanishedRowsLeave ==
  (scenario = "one" /\ obs.byRow[r1] # Gone /\ dom[r1] = Gone)
    ~> (sink[r1] = <<>> \/ dom[r1] # Gone)
================================================================================
