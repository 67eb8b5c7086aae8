---------------------------- MODULE MCVerification ----------------------------
(* The verified opportunities and the hub that tells the frontends of them,    *)
(* for TLC.  A behaviour belongs to one scenario: the hub rests at Null in     *)
(* those of the verification, the verification as it begins in the hub's.      *)
(* Both have a queue and members.  A scenario about one opportunity names it.  *)
EXTENDS SurebetVerification, Sequences, TLC

CONSTANTS f1, f2, f3, o1, o2, c1, c2

VARIABLES
  scenario,
  accepted, bus, event, todo, closed, crashed, handler, open, writer, reader, received

verificationVars == <<quotes, requests, trigger, worker, refs, seen, call, registry, confirms,
                      clockwork, told>>
hubVars == <<accepted, bus, event, todo, closed, crashed, handler, open, writer, reader, received>>

-----------------------------------------------------------------------------
(* Two opportunities that share a leg.                                         *)
SharedLeg == (o1 :> {f1, f2}) @@ (o2 :> {f2, f3})

(* Three batches of quotes, the middle version of which ends the surebet.      *)
Alone == INSTANCE SurebetVerification WITH
  MaxVersion <- 2, Good <- {0, 2}, MaxBatches <- 3, MaxRequests <- 0, MaxFailures <- 0

(* Both opportunities are verified; the quote that changes is of both.         *)
Two == INSTANCE SurebetVerification WITH
  MaxVersion <- 1, Good <- {0, 1}, MaxBatches <- 2, MaxRequests <- 0, MaxFailures <- 0

(* The registry may fail to invalidate ...                                     *)
Failing == INSTANCE SurebetVerification WITH
  MaxVersion <- 2, Good <- {0, 2}, MaxBatches <- 2, MaxRequests <- 0, MaxFailures <- 2

(* ... and an operator asks as well.                                           *)
Asked == INSTANCE SurebetVerification WITH
  MaxVersion <- 1, Good <- {0, 1}, MaxBatches <- 1, MaxRequests <- 1, MaxFailures <- 1

(* Two frontends that come and go; twice as many events as a buffer holds.     *)
Hub == INSTANCE RealtimeHub WITH
  Clients <- {c1, c2}, SendBuffer <- 2, HubBuffer <- 2, MaxEvents <- 4

(* Clients, and the two opportunities with the legs that they do not share.    *)
Symmetric ==
  Permutations({c1, c2}) \cup {(f1 :> f3) @@ (f3 :> f1) @@ (o1 :> o2) @@ (o2 :> o1)}

ASSUME Assumptions ==
  /\ Alone!SurebetVerificationAssumption /\ Two!SurebetVerificationAssumption
  /\ Failing!SurebetVerificationAssumption /\ Asked!SurebetVerificationAssumption
  /\ Hub!RealtimeHubAssumption

(* The scenarios about one opportunity: the quotes of its legs change, and of  *)
(* the candidates the worker picks only it.                                    *)
Only(o) ==
  /\ queue' \subseteq {o} /\ untold' \subseteq Legs[o]
  /\ \A f \in Fixtures \ Legs[o] : source'[f] = source[f]
  /\ call'[Operator].opp \in {o, Null}

-----------------------------------------------------------------------------
NoHub ==
  /\ accepted = Null /\ bus = Null /\ event = Null /\ todo = Null /\ closed = Null
  /\ crashed = Null /\ handler = Null /\ open = Null /\ writer = Null /\ reader = Null
  /\ received = Null

VerificationRests ==
  /\ source = [f \in Fixtures |-> 0] /\ stored = source /\ untold = {}
  /\ batches = 0 /\ requests = 0 /\ pending = {} /\ generations = source
  /\ worker = "idle" /\ refs = {} /\ seen = source
  /\ call = [c \in Callers |-> Idle]
  /\ verified = [o \in Opportunities |-> Null] /\ index = [f \in Fixtures |-> {}]
  /\ failures = 0 /\ confirms = 0 /\ elapsed = 0 /\ timers = {}
  /\ told = [o \in Opportunities |-> Null]

ScenarioInit ==
  \/ Init /\ NoHub /\
       \/ \E o \in Opportunities : scenario \in {<<"alone", o>>, <<"failing", o>>, <<"asked", o>>}
       \/ scenario = <<"two", Null>>
  \/ scenario = <<"hub", Null>> /\ Hub!Init /\ VerificationRests

VerificationNext ==
  /\ \/ scenario = <<"two", Null>> /\ Two!Next /\ source'[f1] = 0 /\ source'[f3] = 0
     \/ \E o \in Opportunities :
          /\ \/ scenario = <<"alone", o>> /\ Alone!Next
             \/ scenario = <<"failing", o>> /\ Failing!Next
             \/ scenario = <<"asked", o>> /\ Asked!Next
          /\ Only(o)
  /\ UNCHANGED hubVars

HubNext == scenario = <<"hub", Null>> /\ Hub!Next /\ UNCHANGED verificationVars

ScenarioNext == UNCHANGED scenario /\ (VerificationNext \/ HubNext)

ScenarioSpec == ScenarioInit /\ [][ScenarioNext]_<<vars, hubVars, scenario>>

-----------------------------------------------------------------------------
(* A frontend gets a run of the accepted events without a gap, or loses its    *)
(* connection; the hub's goroutine survives every order of drop and departure; *)
(* and once nothing of the hub can step, no client that is gone is left in it  *)
(* and no client it dropped is left with a connection.                         *)
GapFree ==
  scenario = <<"hub", Null>> =>
    /\ Hub!TypeOK /\ Hub!HubSurvives /\ Hub!GapFree
    /\ Hub!LostIsForgotten /\ Hub!DroppedIsClosed
=============================================================================
