----------------------------- MODULE MCStreamSink -----------------------------
(***************************************************************************)
(* Instances of StreamSink for TLC.  A behaviour belongs to one scenario,  *)
(* which fixes the bounds; the constants of the cfg are the largest.       *)
(***************************************************************************)
EXTENDS StreamSink
CONSTANTS f1, f2
VARIABLE scenario

-----------------------------------------------------------------------------
(* Two connections, two queued operations, frames under way and one fault. *)
Faults == INSTANCE StreamSink WITH MaxTime <- 2

(* Two fixtures: snapshots that name one and not the other, replays that   *)
(* renew the batches of both.                                              *)
Pair == INSTANCE StreamSink WITH MaxTime <- 3, MaxQueue <- 1, MaxWire <- 0

(* Two prices, changes and observations queued on one connection.          *)
Queued == INSTANCE StreamSink WITH MaxConnections <- 1, MaxFaults <- 0, MaxWire <- 0

(* Refused credentials.                                                    *)
Refused == INSTANCE StreamSink WITH
  RefuseHello <- TRUE, MaxTime <- 3, MaxQueue <- 1, MaxWire <- 0

(* Frames under way when an operation starts, fair scheduling.             *)
Live == INSTANCE StreamSink WITH MaxTime <- 2, MaxQueue <- 1

ASSUME Bounds ==
  /\ Faults!StreamBounds /\ Faults!SinkBounds
  /\ Pair!StreamBounds /\ Pair!SinkBounds
  /\ Queued!StreamBounds /\ Queued!SinkBounds
  /\ Refused!StreamBounds /\ Refused!SinkBounds
  /\ Live!StreamBounds /\ Live!SinkBounds

-----------------------------------------------------------------------------
ScenarioInit ==
  \/ scenario = "faults" /\ Faults!Init
  \/ scenario = "pair" /\ Pair!Init
  \/ scenario = "queued" /\ Queued!Init
  \/ scenario = "refused" /\ Refused!Init
  \/ scenario = "live" /\ Live!Init

(* Bound: the bookmaker offers only fixtures in fs, at prices up to top.   *)
Offering(fs, top) ==
  \A f \in Fixtures : truth'[Len(truth')][f] <= (IF f \in fs THEN top ELSE 0)

ScenarioNext ==
  /\ UNCHANGED scenario
  /\ \/ scenario = "faults" /\ Faults!Next /\ Offering({f1}, 1)
     \/ scenario = "pair" /\ Pair!Next /\ Offering({f1, f2}, 1)
     \/ scenario = "queued" /\ Queued!Next /\ Offering({f1}, 2)
     \/ scenario = "refused" /\ Refused!Next /\ Offering({f1}, 1)
     \/ scenario = "live" /\ Live!Next /\ Offering({f1}, 1)

(* The event loop of the collector and the goroutines of the backend run;  *)
(* callers, faults and losses owe nothing.                                 *)
ScenarioFairness ==
  /\ WF_vars(scenario = "live" /\ Live!Work)
  /\ \A g \in 1..2 :
       /\ WF_vars(scenario = "live" /\ Live!Event(g))
       /\ WF_vars(scenario = "live" /\ Live!Serve(g))

ScenarioSpec ==
  ScenarioInit /\ [][ScenarioNext]_<<vars, scenario>> /\ ScenarioFairness

-----------------------------------------------------------------------------
(* Every operation ends, sent or failed: the serial queue is never blocked *)
(* for ever by one of them, so balances, heartbeats and bet responses get  *)
(* through behind it. (enqueue, ensureConnected)                           *)
QueueDrains == [](scenario = "live" /\ ready => <>(~ready))
=============================================================================
