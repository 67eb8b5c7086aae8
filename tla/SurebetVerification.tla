-------------------------- MODULE SurebetVerification --------------------------
(* VerificationService and ConfirmationService: every batch of quotes        *)
(* invalidates the verified opportunities of its fixtures, and the current   *)
(* surebets of those fixtures are confirmed anew by asking the collectors.   *)
(* An operator may ask for a confirmation as well.  Quotes change while the  *)
(* collectors are asked, confirmations lapse, and what the frontend is told  *)
(* is to agree with the registry of verified opportunities.                  *)
(*                                                                           *)
(* A quote is a version: a change never brings an older one back.  Which of  *)
(* the candidates are verified (the cooldowns, the mode, the health of the   *)
(* collectors) is left open.                                                 *)
EXTENDS Naturals, FiniteSets

CONSTANTS
  Fixtures,
  Opportunities,
  Legs,           \* the fixtures of each opportunity
  MaxVersion,     \* bound: the last version of a quote
  Good,           \* the versions that make a surebet, with others of them
  MaxBatches,     \* bound: quotes that reach the store
  MaxRequests,    \* bound: confirmations asked for by an operator
  MaxFailures,    \* bound: invalidations that fail in the registry
  Null

(* The callers of ConfirmCurrentSurebet: a goroutine of the worker for each  *)
(* candidate, and the operator.                                              *)
Operator == "operator"
Callers == Opportunities \cup {Operator}

SurebetVerificationAssumption ==
  /\ Legs \in [Opportunities -> SUBSET Fixtures] /\ Operator \notin Opportunities
  /\ MaxVersion \in Nat /\ Good \subseteq 0..MaxVersion
  /\ MaxBatches \in Nat /\ MaxRequests \in Nat /\ MaxFailures \in Nat
  /\ Null \notin {"confirmed", "rejected", "expired"}

VARIABLES
  source,       \* the quotes of the bookmakers
  stored,       \* ... as the odds store has them
  untold,       \* fixtures stored, whose Trigger is still to come
  batches, requests,   \* bounds
  pending, generations,
  worker,       \* where runPending is
  refs, seen, members, queue,
  call,         \* the callers' confirmations
  verified,     \* the registry: the confirmed opportunities
  index,        \* ... by fixture
  failures,     \* invalidations that failed
  confirms,     \* number of the last confirmation
  elapsed,      \* the confirmations up to this one have lapsed
  timers,       \* the expiry timers
  told          \* the last verification event of each opportunity

quotes == <<source, stored, untold, batches>>
trigger == <<pending, generations>>
batch == <<worker, refs, seen, members, queue>>
registry == <<verified, index, failures>>
clockwork == <<elapsed, timers>>
vars == <<quotes, requests, trigger, batch, call, registry, confirms, clockwork, told>>

Surebet(odds) == \A f \in DOMAIN odds : odds[f] \in Good

Current(o) == [f \in Legs[o] |-> stored[f]]

Idle == [stage |-> "idle", opp |-> Null, key |-> Null, answers |-> Null, item |-> Null]

Init ==
  /\ source = [f \in Fixtures |-> 0] /\ stored = source /\ untold = {}
  /\ batches = 0 /\ requests = 0
  /\ pending = {} /\ generations = [f \in Fixtures |-> 0]
  /\ worker = "idle" /\ refs = {} /\ seen = generations /\ members = {} /\ queue = {}
  /\ call = [c \in Callers |-> Idle]
  /\ verified = [o \in Opportunities |-> Null] /\ index = [f \in Fixtures |-> {}]
  /\ failures = 0
  /\ confirms = 0 /\ elapsed = 0 /\ timers = {}
  /\ told = [o \in Opportunities |-> Null]

(* VerifiedSurebetRepository.Get: an item past its validity is not found.    *)
Live(o) == verified[o] # Null /\ verified[o].at > elapsed

-----------------------------------------------------------------------------
(* The quotes.                                                               *)

ChangeQuote(f) ==
  /\ source[f] < MaxVersion
  /\ source' = [source EXCEPT ![f] = @ + 1]
  /\ UNCHANGED <<stored, untold, batches, requests, trigger, batch, call, registry, confirms,
                 clockwork, told>>

(* A snapshot of a fixture is stored, changed or not, ...                    *)
Ingest(f) ==
  /\ batches < MaxBatches /\ f \notin untold
  /\ batches' = batches + 1
  /\ stored' = [stored EXCEPT ![f] = source[f]]
  /\ untold' = untold \cup {f}
  /\ UNCHANGED <<source, requests, trigger, batch, call, registry, confirms, clockwork, told>>

(* ... and the service is triggered.                                         *)
Trigger(f) ==
  /\ f \in untold
  /\ untold' = untold \ {f}
  /\ pending' = pending \cup {f}
  /\ generations' = [generations EXCEPT ![f] = @ + 1]
  /\ UNCHANGED <<source, stored, batches, requests, batch, call, registry, confirms, clockwork,
                 told>>

-----------------------------------------------------------------------------
(* runPending: one batch at a time.                                          *)

TakePending ==
  /\ worker = "idle" /\ pending # {}
  /\ worker' = "invalidate"
  /\ refs' = pending /\ pending' = {} /\ seen' = generations
  /\ UNCHANGED <<quotes, requests, generations, members, queue, call, registry, confirms,
                 clockwork, told>>

(* InvalidateFixtures reads who is in the index, ...                         *)
ReadIndex ==
  /\ worker = "invalidate"
  /\ worker' = "drop"
  /\ members' = UNION {index[f] : f \in refs}
  /\ UNCHANGED <<quotes, requests, trigger, refs, seen, queue, call, registry, confirms, clockwork,
                 told>>

(* ... and deletes the items and the index in a transaction.                 *)
DropItems ==
  /\ worker = "drop"
  /\ worker' = "list"
  /\ \/ /\ verified' = [o \in Opportunities |-> IF o \in members THEN Null ELSE verified[o]]
        /\ index' = [f \in Fixtures |-> IF f \in refs THEN {} ELSE index[f]]
        /\ told' = [o \in Opportunities |-> IF o \in members THEN "expired" ELSE told[o]]
        /\ UNCHANGED failures
     \/ /\ failures < MaxFailures /\ failures' = failures + 1
        /\ UNCHANGED <<verified, index, told>>
  /\ members' = {}
  /\ UNCHANGED <<quotes, requests, trigger, refs, seen, queue, call, confirms, clockwork>>

(* process: some of the affected candidates are verified.                    *)
ListCandidates ==
  /\ worker = "list"
  /\ worker' = "verify"
  /\ queue' \in SUBSET {o \in Opportunities : Legs[o] \cap refs # {} /\ Surebet(Current(o))}
  /\ call' = [c \in Callers |->
                IF c \in queue' THEN [Idle EXCEPT !.stage = "begin", !.opp = c] ELSE call[c]]
  /\ UNCHANGED <<quotes, requests, trigger, refs, seen, members, registry, confirms, clockwork,
                 told>>

(* Wrong: what came in while the batch was on is taken for done.             *)
FinishForgetting ==
  /\ worker = "verify"
  /\ \A o \in Opportunities : call[o] = Idle
  /\ worker' = "idle"
  /\ refs' = {} /\ queue' = {} /\ pending' = {}
  /\ UNCHANGED <<quotes, requests, generations, seen, members, call, registry, confirms,
                 clockwork, told>>

FinishBatch ==
  /\ worker = "verify"
  /\ \A o \in Opportunities : call[o] = Idle
  /\ worker' = "idle"
  /\ refs' = {} /\ queue' = {}
  /\ UNCHANGED <<quotes, requests, trigger, seen, members, call, registry, confirms, clockwork,
                 told>>

-----------------------------------------------------------------------------
(* ConfirmCurrentSurebet.                                                    *)

(* handleConfirmSurebet.                                                     *)
Request(o) ==
  /\ requests < MaxRequests /\ call[Operator] = Idle
  /\ requests' = requests + 1
  /\ call' = [call EXCEPT ![Operator] = [Idle EXCEPT !.stage = "begin", !.opp = o]]
  /\ UNCHANGED <<quotes, trigger, batch, registry, confirms, clockwork, told>>

(* The event of a confirmation that failed is the worker's alone.            *)
Rejected(c) ==
  told' = IF c = Operator THEN told ELSE [told EXCEPT ![c] = "rejected"]

(* The opportunity is looked up; a confirmation of the same quotes that is   *)
(* under way is shared.                                                      *)
Begin(c) ==
  /\ call[c].stage = "begin"
  /\ LET o == call[c].opp
         key == <<o, Current(o)>>
         shared == \E d \in Callers \ {c} : call[d].key = key /\ call[d].stage = "ask"
     IN IF Surebet(Current(o))
          THEN /\ call' = [call EXCEPT ![c].stage = IF shared THEN "share" ELSE "ask",
                                       ![c].key = key,
                                       ![c].answers = [f \in {} |-> 0]]
               /\ UNCHANGED told
          ELSE call' = [call EXCEPT ![c] = Idle] /\ Rejected(c)
  /\ UNCHANGED <<quotes, requests, trigger, batch, registry, confirms, clockwork>>

(* A collector answers with the quote of its page.                           *)
Answer(c, f) ==
  /\ call[c].stage = "ask"
  /\ f \in Legs[call[c].opp] \ DOMAIN call[c].answers
  /\ call' = [call EXCEPT ![c].answers =
                [g \in DOMAIN @ \cup {f} |-> IF g = f THEN source[f] ELSE @[g]]]
  /\ UNCHANGED <<quotes, requests, trigger, batch, registry, confirms, clockwork, told>>

Sharers(c) == {d \in Callers : call[d].stage = "share" /\ call[d].key = call[c].key}

(* Every leg has answered, and the detector finds a surebet in the answers.  *)
Confirm(c) ==
  /\ call[c].stage = "ask"
  /\ DOMAIN call[c].answers = Legs[call[c].opp] /\ Surebet(call[c].answers)
  /\ confirms' = confirms + 1
  /\ call' = [d \in Callers |->
                IF d \in Sharers(c) \cup {c}
                  THEN [call[d] EXCEPT !.stage = "put",
                                       !.item = [odds |-> call[c].answers, at |-> confirms']]
                  ELSE call[d]]
  /\ UNCHANGED <<quotes, requests, trigger, batch, registry, clockwork, told>>

(* No surebet, a leg that is missing or too old, an error, a timeout.        *)
Refuse(c) ==
  /\ call[c].stage = "ask"
  /\ LET failed == Sharers(c) \cup {c}
     IN /\ call' = [d \in Callers |-> IF d \in failed THEN Idle ELSE call[d]]
        /\ told' = [o \in Opportunities |-> IF o \in failed THEN "rejected" ELSE told[o]]
  /\ UNCHANGED <<quotes, requests, trigger, batch, registry, confirms, clockwork>>

(* A caller that shares, or is about to store, runs out of time, or the      *)
(* registry fails.                                                           *)
GiveUp(c) ==
  /\ call[c].stage \in {"share", "put"}
  /\ call' = [call EXCEPT ![c] = Idle]
  /\ Rejected(c)
  /\ UNCHANGED <<quotes, requests, trigger, batch, registry, confirms, clockwork>>

(* The registry has it from here on, before the worker has checked.          *)
Put(c) ==
  /\ call[c].stage = "put"
  /\ LET o == call[c].opp
     IN /\ verified' = [verified EXCEPT ![o] = call[c].item]
        /\ index' = [f \in Fixtures |-> IF f \in Legs[o] THEN index[f] \cup {o} ELSE index[f]]
  /\ call' = IF c = Operator THEN [call EXCEPT ![c] = Idle] ELSE [call EXCEPT ![c].stage = "check"]
  /\ UNCHANGED <<quotes, requests, trigger, batch, failures, confirms, clockwork, told>>

-----------------------------------------------------------------------------
(* verifyCandidate, after the confirmation.                                  *)

ChangedSince(o) == \E f \in Legs[o] : generations[f] # seen[f]

Publish(o) ==
  /\ told' = [told EXCEPT ![o] = "confirmed"]
  /\ timers' = timers \cup {[opp |-> o, at |-> call[o].item.at, stage |-> "set"]}
  /\ UNCHANGED verified

Withdraw(o) ==
  /\ verified' = [verified EXCEPT ![o] = Null]
  /\ told' = [told EXCEPT ![o] = "rejected"]
  /\ UNCHANGED timers

Check(o) ==
  /\ call[o].stage = "check"
  /\ IF ChangedSince(o) /\ call[o].item.odds # Current(o) THEN Withdraw(o) ELSE Publish(o)
  /\ call' = [call EXCEPT ![o] = Idle]
  /\ UNCHANGED <<quotes, requests, trigger, batch, index, failures, confirms, elapsed>>

-----------------------------------------------------------------------------
(* scheduleExpiry.                                                           *)

(* The validity of the next confirmation ends.                               *)
Elapse ==
  /\ elapsed < confirms
  /\ elapsed' = elapsed + 1
  /\ UNCHANGED <<quotes, requests, trigger, batch, call, registry, confirms, timers, told>>

(* The timer fires and looks the opportunity up: if it is there it was       *)
(* confirmed anew, and the timer of that confirmation is to tell.            *)
TimerLooks(t) ==
  /\ t \in timers /\ t.stage = "set" /\ t.at <= elapsed
  /\ timers' = (timers \ {t}) \cup IF Live(t.opp) THEN {} ELSE {[t EXCEPT !.stage = "tell"]}
  /\ UNCHANGED <<quotes, requests, trigger, batch, call, registry, confirms, elapsed, told>>

(* Wrong: a timer that finds nothing says nothing.                           *)
TimerSilent(t) ==
  /\ t \in timers /\ t.stage = "tell"
  /\ timers' = timers \ {t}
  /\ UNCHANGED <<quotes, requests, trigger, batch, call, registry, confirms, elapsed, told>>

TimerTells(t) ==
  /\ t \in timers /\ t.stage = "tell"
  /\ timers' = timers \ {t}
  /\ told' = [told EXCEPT ![t.opp] = "expired"]
  /\ UNCHANGED <<quotes, requests, trigger, batch, call, registry, confirms, elapsed>>

-----------------------------------------------------------------------------
Next ==
  \/ \E f \in Fixtures : ChangeQuote(f) \/ Ingest(f) \/ Trigger(f)
  \/ TakePending \/ ReadIndex \/ DropItems \/ ListCandidates \/ FinishBatch
  \/ \E o \in Opportunities : Request(o) \/ Check(o)
  \/ \E c \in Callers : Begin(c) \/ Confirm(c) \/ Refuse(c) \/ GiveUp(c) \/ Put(c)
  \/ \E c \in Callers, f \in Fixtures : Answer(c, f)
  \/ Elapse
  \/ \E t \in timers : TimerLooks(t) \/ TimerTells(t)

Spec == Init /\ [][Next]_vars

-----------------------------------------------------------------------------
(* Properties.                                                               *)

(* The fixtures, the callers and the registry have their types.              *)
TypeOK ==
  /\ source \in [Fixtures -> 0..MaxVersion] /\ stored \in [Fixtures -> 0..MaxVersion]
  /\ untold \subseteq Fixtures /\ pending \subseteq Fixtures /\ refs \subseteq Fixtures
  /\ worker \in {"idle", "invalidate", "drop", "list", "verify"}
  /\ \A c \in Callers : call[c].stage \in {"idle", "begin", "share", "ask", "put", "check"}
  /\ \A o \in Opportunities : verified[o] # Null => verified[o].at \in 1..confirms
  /\ index \in [Fixtures -> SUBSET Opportunities]
  /\ told \in [Opportunities -> {Null, "confirmed", "rejected", "expired"}]
  /\ elapsed <= confirms

(* Nothing is under way but time.                                            *)
AtRest ==
  /\ worker = "idle" /\ pending = {} /\ untold = {} /\ call[Operator] = Idle
  /\ stored = source

(* "Verified results [...] are invalidated as soon as a leg changes": while  *)
(* no invalidation fails and no operator asks, the registry at rest holds    *)
(* only opportunities confirmed at the quotes of the odds store, whatever    *)
(* changed while they were being confirmed.                                  *)
StaleIsRemoved ==
  AtRest /\ requests = 0 /\ failures = 0 =>
    \A o \in DOMAIN verified : Live(o) => verified[o].odds = Current(o)

(* An opportunity the frontend was told is confirmed is in the registry, or  *)
(* a timer is about to tell that it expired, also when invalidations fail;   *)
(* and what it was told is rejected is not in the registry while none does.  *)
ConfirmedIsTrue ==
  AtRest /\ requests = 0 =>
    \A o \in DOMAIN told :
      /\ told[o] = "confirmed" => Live(o) \/ \E t \in timers : t.opp = o
      /\ told[o] = "rejected" /\ failures = 0 => ~Live(o)

(* The collectors are asked once for the same quotes of an opportunity,      *)
(* whoever asks: requests that meet share one confirmation.                  *)
AskedOnce ==
  \A c, d \in Callers :
    call[c].stage = "ask" /\ call[d].stage = "ask" /\ call[c].key = call[d].key => c = d
================================================================================
