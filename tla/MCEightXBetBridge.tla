--------------------------- MODULE MCEightXBetBridge ---------------------------
(* Instances of EightXBetBridge for TLC.  A behaviour belongs to one scenario. *)
EXTENDS EightXBetBridge, TLC
CONSTANTS f1, f2, f3, s1, s2
VARIABLE scenario

TwoFixtures == {f1, f2}
TwoSockets == {s1, s2}

-----------------------------------------------------------------------------
(* The constants of the configuration: overlapping calls, and any two of       *)
(* closed sockets, refused and unanswered frames, failed calls, reloads and    *)
(* restarts of the page.                                                       *)
Troubles(closes, refused, lost, missed, reloads, restarts) == INSTANCE EightXBetBridge WITH
  MaxCloses <- closes, MaxRefused <- refused, MaxLost <- lost,
  MaxMissed <- missed, MaxReloads <- reloads, MaxRestarts <- restarts

TroublesInit ==
  \E c, r, l, m, d, t \in 0..1 :
    c + r + l + m + d + t <= 2 /\ Troubles(c, r, l, m, d, t)!Init

(* Three fixtures in batches of two, one of them refused.                      *)
Batches == INSTANCE EightXBetBridge WITH
  Fixtures <- {f1, f2, f3}, BatchSize <- 2, Swaps <- FALSE, Straggles <- FALSE,
  MaxChanges <- 1, MaxCloses <- 0, MaxRefused <- 1, MaxLost <- 1, MaxMissed <- 0,
  MaxReloads <- 0, MaxRestarts <- 0

(* Fixtures that change while they are being subscribed, a closed socket and   *)
(* a restart; calls do not fail, and what is under way is not taken back.      *)
Follows(changes, closes, restarts) == INSTANCE EightXBetBridge WITH
  Swaps <- FALSE, Straggles <- FALSE,
  MaxChanges <- changes, MaxCloses <- closes, MaxRefused <- 0, MaxLost <- 0, MaxMissed <- 0,
  MaxReloads <- 0, MaxRestarts <- restarts

FollowsInit == Follows(2, 0, 1)!Init \/ Follows(1, 1, 1)!Init

(* A closed socket and a lost answer, under fair scheduling.                   *)
Fair == INSTANCE EightXBetBridge WITH
  BatchSize <- 1, Swaps <- FALSE, Straggles <- FALSE,
  MaxChanges <- 1, MaxCloses <- 1, MaxRefused <- 0, MaxLost <- 1, MaxMissed <- 0,
  MaxReloads <- 0, MaxRestarts <- 0

MCInit ==
  \/ scenario = "troubles" /\ TroublesInit
  \/ scenario = "batches" /\ Batches!Init
  \/ scenario = "follows" /\ FollowsInit
  \/ scenario = "fair" /\ Fair!Init

MCNext ==
  /\ UNCHANGED scenario
  /\ \/ scenario = "troubles" /\ Next
     \/ scenario = "batches" /\ Batches!Next
     \/ scenario = "follows" /\ Follows(2, 1, 1)!Next
     \/ scenario = "fair" /\ Fair!Next

RuntimeGoesOn ==
  \/ Fair!Refresh \/ Fair!Start \/ Fair!OpenPage
  \/ (stage = "fail" \/ Fair!Stuck) /\ Fair!ResetPage

(* The page connects again, timers fire, calls are evaluated and return, and   *)
(* the runtime goes on.  The bookmaker answers within the 10 s and more that   *)
(* lie between two reconciliations, so that not every answer is overtaken by   *)
(* a retry (SF of Decode).                                                     *)
FairRuns ==
  /\ WF_vars(scenario = "fair" /\ \E s \in Sockets :
                \/ Fair!OpenSocket(s) \/ Fair!TrackSocket(s) \/ Fair!ConnectedFrame(s)
                \/ Fair!SocketClosed(s) \/ Fair!DrainClosing(s))
  /\ \A s \in TwoSockets :
       /\ WF_vars(scenario = "fair" /\ Fair!Drain(s))
       /\ \A f \in TwoFixtures : SF_vars(scenario = "fair" /\ Fair!Decode(s, f))
  /\ WF_vars(scenario = "fair" /\ \E i \in DOMAIN calls : Fair!EvaluateCall(i))
  /\ WF_vars(scenario = "fair" /\ Fair!ReturnCall)
  /\ WF_vars(scenario = "fair" /\ inPlay = Null /\ \E ids \in SUBSET TwoFixtures : Fair!ChangeFixtures(ids))
  /\ WF_vars(scenario = "fair" /\ Fair!Reconcile)
  /\ WF_vars(scenario = "fair" /\ RuntimeGoesOn)

MCSpec == MCInit /\ [][MCNext]_<<vars, scenario>> /\ FairRuns

-----------------------------------------------------------------------------
(* A lost answer is made up for: in the end every fixture in play is decoded,  *)
(* in a live stream, if there is any fixture.                                  *)
EveryFixtureDecoded ==
  <>[](scenario = "fair" /\ InPlay # {} => stage = "live" /\ InPlay \subseteq decoded)
================================================================================
