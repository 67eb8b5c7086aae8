----------------------- MODULE SurebetVerificationProofs -----------------------
(* For all opportunities, legs and bounds: requests that meet share one      *)
(* confirmation; while no operator asks, what the frontend was told is       *)
(* confirmed is in the registry, or its timer is still to tell, also when    *)
(* the registry fails; and while it does not fail either, the registry at    *)
(* rest holds nothing confirmed at other quotes than the current ones, and   *)
(* nothing that was rejected.                                                *)
EXTENDS SurebetVerification, TLAPS

-----------------------------------------------------------------------------
(* The inductive invariants.                                                 *)

Versions == 0..MaxVersion
Odds == UNION {[S -> Versions] : S \in SUBSET Fixtures}
Items == [odds : Odds, at : Nat]
Stages == {"idle", "begin", "share", "ask", "put", "check"}
Calls == [stage : Stages, opp : Opportunities \cup {Null},
          key : (Opportunities \X Odds) \cup {Null}, answers : Odds \cup {Null},
          item : Items \cup {Null}]
Timers == [opp : Opportunities, at : Nat, stage : {"set", "tell"}]

(* A confirmed item of an opportunity.                                       *)
ItemOf(o, item) ==
  /\ item \in Items /\ DOMAIN item.odds = Legs[o] /\ item.at \in 1..confirms

(* What a caller has in hand at its stage.                                   *)
CallInv(c) ==
  /\ call[c].stage # "idle" => call[c].opp \in Opportunities /\ (c # Operator => call[c].opp = c)
  /\ call[c].stage \in {"ask", "share"} =>
       call[c].key \in Opportunities \X Odds /\ call[c].key[1] = call[c].opp
  /\ call[c].stage = "ask" => call[c].answers \in Odds /\ DOMAIN call[c].answers \subseteq Legs[call[c].opp]
  /\ call[c].stage \in {"put", "check"} => ItemOf(call[c].opp, call[c].item)

Types ==
  /\ TypeOK
  /\ generations \in [Fixtures -> Nat] /\ seen \in [Fixtures -> Nat]
  /\ members \subseteq Opportunities /\ queue \subseteq Opportunities
  /\ call \in [Callers -> Calls] /\ requests \in Nat
  /\ verified \in [Opportunities -> Items \cup {Null}]
  /\ confirms \in Nat /\ elapsed \in Nat /\ timers \subseteq Timers
  /\ \A o \in Opportunities : verified[o] # Null => ItemOf(o, verified[o])
  /\ \A c \in Callers : CallInv(c)

(* Nobody but the worker asks, and it asks while it verifies a batch.        *)
WorkerAlone ==
  /\ call[Operator] = Idle
  /\ worker # "verify" => \A o \in Opportunities : call[o] = Idle

(* A confirmation that holds has its timer, or is about to be told.          *)
TimerInv(o) ==
  /\ Live(o) => \/ [opp |-> o, at |-> verified[o].at, stage |-> "set"] \in timers
                \/ call[o].stage = "check" /\ call[o].item = verified[o]
  /\ told[o] = "confirmed" =>
       Live(o) \/ (\E t \in timers : t.opp = o) \/ call[o].stage = "check"

ToldInv == WorkerAlone /\ \A o \in Opportunities : TimerInv(o)

(* A quote of a leg is the stored one, or the change is on its way to the    *)
(* worker, which then drops what rests on it.                                *)
Covered(f, version) ==
  \/ version = stored[f] \/ source[f] # stored[f]
  \/ f \in untold \/ f \in pending \/ (f \in refs /\ worker \in {"invalidate", "drop"})

(* The registry and its index, and what the worker is about to put there.    *)
RegistryInv(o) ==
  /\ verified[o] # Null =>
       \A f \in Legs[o] : o \in index[f] /\ Covered(f, verified[o].odds[f])
  /\ call[o].stage = "ask" => \A f \in DOMAIN call[o].answers : Covered(f, call[o].answers[f])
  /\ call[o].stage \in {"put", "check"} => \A f \in Legs[o] : Covered(f, call[o].item.odds[f])
  /\ worker = "drop" => \A f \in refs : index[f] \subseteq members
  /\ worker = "list" /\ Legs[o] \cap refs # {} => verified[o] = Null
  /\ call[o].stage \in {"begin", "share", "ask", "put"} => verified[o] = Null
  /\ told[o] = "rejected" => verified[o] = Null \/ call[o].stage = "check"

KeptInv ==
  /\ \A f \in Fixtures : stored[f] <= source[f]
  /\ \A o \in Opportunities : RegistryInv(o)
-----------------------------------------------------------------------------
(* Types.                                                                    *)

(* The quotes that are stored are odds of an opportunity.                    *)
LEMMA CurrentTyped ==
  ASSUME SurebetVerificationAssumption, TypeOK, NEW o \in Opportunities
  PROVE  Legs[o] \in SUBSET Fixtures /\ Current(o) \in Odds /\ DOMAIN Current(o) = Legs[o]
<1>1. Legs[o] \in SUBSET Fixtures
  BY DEF SurebetVerificationAssumption
<1>2. Current(o) \in [Legs[o] -> Versions]
  BY <1>1 DEF TypeOK, Current, Versions
<1> QED BY <1>1, <1>2 DEF Odds

(* The types hold initially.                                                 *)
LEMMA InitTyped ==
  ASSUME SurebetVerificationAssumption, Init
  PROVE  Types
<1>1. TypeOK
  BY DEF Init, TypeOK, SurebetVerificationAssumption, Idle
<1>2. call \in [Callers -> Calls] /\ \A c \in Callers : call[c] = Idle
  BY DEF Init, Calls, Idle, Stages
<1>3. \A c \in Callers : CallInv(c)
  BY <1>2 DEF CallInv, Idle
<1> QED BY <1>1, <1>2, <1>3 DEF Types, Init

(* A caller that goes on as it was, or has ended, has what it needs.         *)
LEMMA CallKept ==
  ASSUME NEW c \in Callers, CallInv(c), call'[c] = call[c] \/ call'[c].stage = "idle",
         confirms \in Nat, confirms' \in Nat, confirms <= confirms'
  PROVE  CallInv(c)'
<1>1. \A o, item : ItemOf(o, item) => ItemOf(o, item)'
  BY DEF ItemOf
<1>2. CASE call'[c].stage = "idle"
  BY <1>2 DEF CallInv
<1>3. CASE call'[c] = call[c]
  BY <1>1, <1>3 DEF CallInv
<1> QED BY <1>2, <1>3

(* The quotes and the worker keep the types.                                 *)
LEMMA WorkerTyped ==
  ASSUME SurebetVerificationAssumption, Types,
         \/ \E f \in Fixtures : ChangeQuote(f) \/ Ingest(f) \/ Trigger(f)
         \/ TakePending \/ ReadIndex \/ DropItems \/ FinishBatch \/ Elapse
         \/ \E t \in timers : TimerLooks(t) \/ TimerTells(t)
  PROVE  Types'
<1>0. call' = call /\ confirms' = confirms
  BY DEF ChangeQuote, Ingest, Trigger, TakePending, ReadIndex, DropItems, FinishBatch, Elapse,
         TimerLooks, TimerTells, quotes, trigger, batch, registry, clockwork
<1>1. \A c \in Callers : CallInv(c)'
  BY <1>0, CallKept DEF Types
<1>2. ASSUME UNCHANGED verified PROVE \A o \in Opportunities : verified'[o] # Null => ItemOf(o, verified[o])'
  BY <1>0, <1>2 DEF Types, ItemOf
<1> USE DEF Types, TypeOK
<1>3. CASE \E f \in Fixtures : ChangeQuote(f) \/ Ingest(f) \/ Trigger(f)
  <2>1. UNCHANGED <<requests, batch, call, verified, index, confirms, elapsed, timers, told>>
    BY <1>3 DEF ChangeQuote, Ingest, Trigger, registry, clockwork
  <2>2. /\ source' \in [Fixtures -> 0..MaxVersion] /\ stored' \in [Fixtures -> 0..MaxVersion]
        /\ untold' \subseteq Fixtures /\ pending' \subseteq Fixtures
        /\ generations' \in [Fixtures -> Nat]
    BY <1>3 DEF ChangeQuote, Ingest, Trigger, trigger, SurebetVerificationAssumption
  <2> QED BY <1>1, <1>2, <2>1, <2>2 DEF batch
<1>4. CASE TakePending \/ ReadIndex \/ FinishBatch
  <2>1. UNCHANGED <<source, stored, untold, batches, requests, generations, call, verified, index,
                    confirms, elapsed, timers, told>>
    BY <1>4 DEF TakePending, ReadIndex, FinishBatch, quotes, trigger, registry, clockwork
  <2>2. /\ worker' \in {"idle", "invalidate", "drop", "list", "verify"}
        /\ refs' \subseteq Fixtures /\ pending' \subseteq Fixtures /\ seen' \in [Fixtures -> Nat]
        /\ members' \subseteq Opportunities /\ queue' \subseteq Opportunities
    BY <1>4 DEF TakePending, ReadIndex, FinishBatch, trigger
  <2> QED BY <1>1, <1>2, <2>1, <2>2
<1>5. CASE DropItems
  <2>1. UNCHANGED <<source, stored, untold, batches, requests, pending, generations, refs, seen,
                    queue, call, confirms, elapsed, timers>>
    BY <1>5 DEF DropItems, quotes, trigger, clockwork
  <2>2. /\ worker' = "list" /\ members' = {}
        /\ verified' \in [Opportunities -> Items \cup {Null}]
        /\ index' \in [Fixtures -> SUBSET Opportunities]
        /\ told' \in [Opportunities -> {Null, "confirmed", "rejected", "expired"}]
        /\ \A o \in Opportunities : verified'[o] = verified[o] \/ verified'[o] = Null
    BY <1>5 DEF DropItems
  <2>3. \A o \in Opportunities :
          verified'[o] # Null => ItemOf(o, verified[o])' /\ verified'[o].at \in 1..confirms'
    BY <2>1, <2>2 DEF ItemOf
  <2> QED BY <1>1, <2>1, <2>2, <2>3
<1>6. CASE Elapse
  <2>1. UNCHANGED <<source, stored, untold, batches, requests, pending, generations, worker, refs,
                    seen, members, queue, call, verified, index, confirms, timers, told>>
    BY <1>6 DEF Elapse, quotes, trigger, batch, registry
  <2>2. elapsed' \in Nat /\ elapsed' <= confirms
    BY <1>6 DEF Elapse
  <2> QED BY <1>1, <1>2, <2>1, <2>2
<1>7. CASE \E t \in timers : TimerLooks(t) \/ TimerTells(t)
  <2>1. UNCHANGED <<source, stored, untold, batches, requests, pending, generations, worker, refs,
                    seen, members, queue, call, verified, index, confirms, elapsed>>
    BY <1>7 DEF TimerLooks, TimerTells, quotes, trigger, batch, registry
  <2>2. timers' \subseteq Timers
    BY <1>7 DEF TimerLooks, TimerTells, Timers
  <2>3. told' \in [Opportunities -> {Null, "confirmed", "rejected", "expired"}]
    BY <1>7 DEF TimerLooks, TimerTells, Timers
  <2> QED BY <1>1, <1>2, <2>1, <2>2, <2>3
<1> QED BY <1>3, <1>4, <1>5, <1>6, <1>7

(* The callers keep the types.                                               *)
LEMMA CallersTyped ==
  ASSUME SurebetVerificationAssumption, Types,
         \/ ListCandidates
         \/ \E o \in Opportunities : Request(o) \/ Check(o)
         \/ \E c \in Callers : \/ Begin(c) \/ Confirm(c) \/ Refuse(c) \/ GiveUp(c) \/ Put(c)
                               \/ \E f \in Fixtures : Answer(c, f)
  PROVE  Types'
<1>t. /\ call \in [Callers -> Calls] /\ requests \in Nat /\ confirms \in Nat
      /\ \A c \in Callers : CallInv(c)
      /\ source \in [Fixtures -> 0..MaxVersion] /\ TypeOK
      /\ told \in [Opportunities -> {Null, "confirmed", "rejected", "expired"}]
      /\ timers \subseteq Timers /\ index \in [Fixtures -> SUBSET Opportunities]
      /\ verified \in [Opportunities -> Items \cup {Null}]
      /\ \A o \in Opportunities : verified[o] # Null => ItemOf(o, verified[o])
  BY DEF Types, TypeOK
<1>0. /\ Idle \in Calls /\ Idle.stage = "idle" /\ Operator \in Callers
      /\ \A o \in Opportunities : o \in Callers
  BY DEF Idle, Calls, Stages, Callers
<1>b. \A o \in Opportunities :
        LET begun == [Idle EXCEPT !.stage = "begin", !.opp = o]
        IN begun \in Calls /\ begun.stage = "begin" /\ begun.opp = o
  BY DEF Idle, Calls, Stages
<1>1. UNCHANGED <<source, stored, untold, batches, pending, generations, refs, seen, members,
                  elapsed>>
  BY DEF ListCandidates, Request, Check, Begin, Confirm, Refuse, GiveUp, Put, Answer, quotes,
         trigger, batch, clockwork
<1>2. ASSUME call' \in [Callers -> Calls], \A c \in Callers : CallInv(c)',
             UNCHANGED <<worker, queue>>, requests' \in Nat, UNCHANGED <<verified, index, timers>>,
             confirms' \in Nat, confirms <= confirms',
             told' \in [Opportunities -> {Null, "confirmed", "rejected", "expired"}]
      PROVE  Types'
  <2>1. \A o \in Opportunities :
          verified'[o] # Null => ItemOf(o, verified[o])' /\ verified'[o].at \in 1..confirms'
    BY <1>2 DEF ItemOf, Types, TypeOK
  <2>2. \A c \in Callers :
          call'[c].stage \in {"idle", "begin", "share", "ask", "put", "check"}
    BY <1>2 DEF Calls, Stages
  <2>3. elapsed' <= confirms' /\ confirms' \in Nat /\ elapsed' \in Nat
    BY <1>1, <1>2 DEF Types, TypeOK
  <2> QED BY <1>1, <1>2, <2>1, <2>2, <2>3 DEF Types, TypeOK
<1>3. CASE ListCandidates
  <2>1. /\ worker' = "verify" /\ queue' \subseteq Opportunities
        /\ UNCHANGED <<requests, verified, index, confirms, timers, told>>
    BY <1>3 DEF ListCandidates, registry, clockwork
  <2>2. /\ call' \in [Callers -> Calls]
        /\ \A c \in Callers :
             \/ call'[c] = call[c]
             \/ c \in Opportunities /\ call'[c] = [Idle EXCEPT !.stage = "begin", !.opp = c]
    BY <1>t, <1>0, <1>b, <1>3, <2>1 DEF ListCandidates
  <2>3. \A c \in Opportunities : call'[c] = [Idle EXCEPT !.stage = "begin", !.opp = c] => CallInv(c)'
    BY DEF CallInv, Idle
  <2>4. \A c \in Callers : CallInv(c)'
    <3>1. confirms' \in Nat /\ confirms <= confirms'
      BY <1>t, <2>1
    <3> QED BY <1>t, <2>2, <2>3, <3>1, CallKept
  <2>5. \A o \in Opportunities :
          verified'[o] # Null => ItemOf(o, verified[o])' /\ verified'[o].at \in 1..confirms'
    BY <1>t, <2>1 DEF ItemOf
  <2>6. \A c \in Callers :
          call'[c].stage \in {"idle", "begin", "share", "ask", "put", "check"}
    BY <2>2 DEF Calls, Stages
  <2> QED BY <1>1, <2>1, <2>2, <2>4, <2>5, <2>6 DEF Types, TypeOK
<1>4. ASSUME NEW o \in Opportunities, Request(o) PROVE Types'
  <2>0. PICK begun : begun = [Idle EXCEPT !.stage = "begin", !.opp = o]
    OBVIOUS
  <2>1. /\ UNCHANGED <<worker, queue, verified, index, timers, confirms, told>>
        /\ requests' = requests + 1
    BY <1>4 DEF Request, batch, registry, clockwork
  <2>2. call' = [call EXCEPT ![Operator] = begun]
    BY <1>4, <2>0 DEF Request
  <2>3. begun \in Calls /\ begun.stage = "begin" /\ begun.opp = o
    BY <1>b, <2>0
  <2>4. /\ call' \in [Callers -> Calls] /\ call'[Operator] = begun
        /\ \A c \in Callers \ {Operator} : call'[c] = call[c]
    BY <1>t, <1>0, <2>2, <2>3
  <2>5. CallInv(Operator)'
    BY <2>3, <2>4 DEF CallInv
  <2>6. requests' \in Nat /\ confirms' \in Nat /\ confirms <= confirms'
    BY <1>t, <2>1
  <2>7. \A c \in Callers : CallInv(c)'
    BY <1>t, <2>4, <2>5, <2>6, CallKept
  <2> QED BY <1>t, <1>2, <2>1, <2>4, <2>6, <2>7
<1>r. ASSUME NEW c \in Callers, Rejected(c)
      PROVE  told' \in [Opportunities -> {Null, "confirmed", "rejected", "expired"}]
  BY <1>t, <1>r DEF Rejected, Callers
<1>5. ASSUME NEW c \in Callers, Begin(c) PROVE Types'
  <2>1. /\ UNCHANGED <<worker, queue, requests, verified, index, timers, confirms>>
        /\ told' \in [Opportunities -> {Null, "confirmed", "rejected", "expired"}]
    BY <1>t, <1>5, <1>r DEF Begin, batch, registry, clockwork
  <2>2. PICK o : o = call[c].opp
    OBVIOUS
  <2>3. o \in Opportunities /\ call[c] \in Calls /\ CallInv(c)
    BY <1>t, <1>5, <2>2 DEF Begin, CallInv
  <2>4. PICK key : key = <<o, Current(o)>>
    OBVIOUS
  <2>5. key \in Opportunities \X Odds /\ key[1] = o
    BY <1>t, <2>3, <2>4, CurrentTyped
  <2>6. PICK none : none = [f \in {} |-> 0]
    OBVIOUS
  <2>7. none \in Odds /\ DOMAIN none = {}
    <3>1. none \in [{} -> Versions] /\ {} \in SUBSET Fixtures
      BY <2>6
    <3> QED BY <2>6, <3>1 DEF Odds
  <2>8. CASE call' = [call EXCEPT ![c] = Idle]
    <3>1. /\ call' \in [Callers -> Calls]
          /\ \A d \in Callers : call'[d] = call[d] \/ call'[d].stage = "idle"
          /\ confirms' \in Nat /\ confirms <= confirms'
      BY <1>t, <1>0, <2>1, <2>8
    <3>2. \A d \in Callers : CallInv(d)'
      BY <1>t, <3>1, CallKept
    <3> QED BY <1>t, <1>2, <2>1, <3>1, <3>2
  <2>9. ASSUME NEW where \in {"ask", "share"},
               call' = [call EXCEPT ![c].stage = where, ![c].key = key, ![c].answers = none]
        PROVE  Types'
    <3>1. /\ call'[c].stage = where /\ call'[c].key = key /\ call'[c].answers = none
          /\ call'[c].opp = o
          /\ call' \in [Callers -> Calls] /\ \A d \in Callers \ {c} : call'[d] = call[d]
      BY <1>t, <2>2, <2>3, <2>5, <2>7, <2>9 DEF Calls, Stages
    <3>2. CallInv(c)'
      <4>1. c # Operator => o = c
        BY <1>5, <2>2, <2>3 DEF CallInv, Begin
      <4> QED BY <2>3, <2>5, <2>7, <2>9, <3>1, <4>1 DEF CallInv
    <3>3. confirms' \in Nat /\ confirms <= confirms'
      BY <1>t, <2>1
    <3>4. \A d \in Callers : CallInv(d)'
      BY <1>t, <3>1, <3>2, <3>3, CallKept
    <3> QED BY <1>t, <1>2, <2>1, <3>1, <3>3, <3>4
  <2> QED BY <1>5, <2>2, <2>4, <2>6, <2>8, <2>9 DEF Begin
<1>6. ASSUME NEW c \in Callers, NEW f \in Fixtures, Answer(c, f) PROVE Types'
  <2>1. UNCHANGED <<worker, queue, requests, verified, index, timers, confirms, told>>
    BY <1>6 DEF Answer, batch, registry, clockwork
  <2>2. PICK ans : ans = [g \in DOMAIN call[c].answers \cup {f} |->
                            IF g = f THEN source[f] ELSE call[c].answers[g]]
    OBVIOUS
  <2>3. /\ call[c].answers \in Odds /\ DOMAIN call[c].answers \subseteq Legs[call[c].opp]
        /\ f \in Legs[call[c].opp] /\ call[c] \in Calls /\ call[c].stage = "ask"
        /\ call' = [call EXCEPT ![c].answers = ans]
    BY <1>t, <1>6, <2>2 DEF Answer, CallInv
  <2>4. ans \in Odds /\ DOMAIN ans \subseteq Legs[call[c].opp]
    <3>1. PICK S \in SUBSET Fixtures : call[c].answers \in [S -> Versions]
      BY <2>3 DEF Odds
    <3>2. ans \in [S \cup {f} -> Versions] /\ DOMAIN ans = S \cup {f}
      BY <1>t, <2>2, <3>1 DEF Versions
    <3>3. S \cup {f} \in SUBSET Fixtures
      OBVIOUS
    <3> QED BY <2>3, <3>1, <3>2, <3>3 DEF Odds
  <2>5. /\ call' \in [Callers -> Calls] /\ call'[c].answers = ans
        /\ call'[c].stage = "ask" /\ call'[c].opp = call[c].opp /\ call'[c].key = call[c].key
        /\ \A d \in Callers \ {c} : call'[d] = call[d]
    BY <1>t, <2>3, <2>4 DEF Calls
  <2>6. CallInv(c) /\ CallInv(c)'
    BY <1>t, <2>3, <2>4, <2>5 DEF CallInv
  <2>7. confirms' \in Nat /\ confirms <= confirms'
    BY <1>t, <2>1
  <2>8. \A d \in Callers : CallInv(d)'
    BY <1>t, <2>5, <2>6, <2>7, CallKept
  <2> QED BY <1>t, <1>2, <2>1, <2>5, <2>7, <2>8
<1>7. ASSUME NEW c \in Callers, Confirm(c) PROVE Types'
  <2>1. /\ UNCHANGED <<worker, queue, requests, verified, index, timers, told>>
        /\ confirms' = confirms + 1
    BY <1>7 DEF Confirm, batch, registry, clockwork
  <2>2. PICK item : item = [odds |-> call[c].answers, at |-> confirms']
    OBVIOUS
  <2>3. PICK o : o = call[c].opp
    OBVIOUS
  <2>4. /\ CallInv(c) /\ call[c].stage = "ask" /\ DOMAIN call[c].answers = Legs[o]
        /\ call' = [d \in Callers |-> IF d \in Sharers(c) \cup {c}
                                        THEN [call[d] EXCEPT !.stage = "put", !.item = item]
                                        ELSE call[d]]
    BY <1>t, <1>7, <2>2, <2>3 DEF Confirm
  <2>5. item \in Items /\ ItemOf(o, item)'
    <3>1. /\ item.odds = call[c].answers /\ item.at = confirms + 1
      BY <2>1, <2>2
    <3>a. call[c].answers \in Odds
      BY <2>4 DEF CallInv
    <3>b. confirms + 1 \in Nat /\ confirms + 1 \in 1..confirms'
      BY <1>t, <2>1
    <3>2. item \in Items
      BY <2>1, <2>2, <3>1, <3>a, <3>b DEF Items
    <3> QED BY <2>4, <3>1, <3>2, <3>b DEF ItemOf
  <2>6. ASSUME NEW d \in Callers
        PROVE  /\ call'[d] \in Calls
               /\ \/ call'[d] = call[d]
                  \/ /\ d \in Sharers(c) \cup {c} /\ call'[d].stage = "put"
                     /\ call'[d].item = item /\ call'[d].opp = call[d].opp
    <3>1. CASE d \in Sharers(c) \cup {c}
      <4>1. call'[d] = [call[d] EXCEPT !.stage = "put", !.item = item]
        BY <2>4, <3>1
      <4>2. call[d] \in Calls
        BY <1>t
      <4> QED BY <2>5, <3>1, <4>1, <4>2 DEF Calls, Stages
    <3>2. CASE d \notin Sharers(c) \cup {c}
      BY <1>t, <2>4, <3>2
    <3> QED BY <3>1, <3>2
  <2>7. call' \in [Callers -> Calls]
    BY <2>4, <2>6
  <2>8. ASSUME NEW d \in Sharers(c) \cup {c}
        PROVE  d \in Callers /\ call[d].opp = o /\ CallInv(d) /\ call[d].stage # "idle"
    BY <1>t, <2>3, <2>4, <2>8 DEF CallInv, Sharers
  <2>9. ASSUME NEW d \in Callers PROVE CallInv(d)'
    <3>1. CASE call'[d] = call[d]
      BY <1>t, <2>1, <3>1, CallKept
    <3>2. CASE /\ d \in Sharers(c) \cup {c} /\ call'[d].stage = "put"
               /\ call'[d].item = item /\ call'[d].opp = call[d].opp
      BY <2>5, <2>8, <3>2 DEF CallInv
    <3> QED BY <2>6, <3>1, <3>2
  <2> QED BY <1>t, <1>2, <2>1, <2>7, <2>9
<1>8. ASSUME NEW c \in Callers, Refuse(c) \/ GiveUp(c) PROVE Types'
  <2>1. UNCHANGED <<worker, queue, requests, verified, index, timers, confirms>>
    BY <1>8 DEF Refuse, GiveUp, batch, registry, clockwork
  <2>2. told' \in [Opportunities -> {Null, "confirmed", "rejected", "expired"}]
    BY <1>t, <1>8, <1>r DEF Refuse, GiveUp
  <2>3. /\ call' \in [Callers -> Calls]
        /\ \A d \in Callers : call'[d] = call[d] \/ call'[d].stage = "idle"
    BY <1>t, <1>0, <1>8 DEF Refuse, GiveUp
  <2>4. \A d \in Callers : CallInv(d)'
    BY <1>t, <2>1, <2>3, CallKept
  <2> QED BY <1>t, <1>2, <2>1, <2>2, <2>3, <2>4
<1>9. ASSUME NEW c \in Callers, Put(c) PROVE Types'
  <2>1. UNCHANGED <<worker, queue, requests, timers, confirms, told>>
    BY <1>9 DEF Put, batch, clockwork
  <2>2. PICK o : o = call[c].opp
    OBVIOUS
  <2>3. /\ o \in Opportunities /\ ItemOf(o, call[c].item) /\ CallInv(c)
        /\ verified' = [verified EXCEPT ![o] = call[c].item]
        /\ index' = [f \in Fixtures |-> IF f \in Legs[o] THEN index[f] \cup {o} ELSE index[f]]
        /\ call' = [call EXCEPT ![c] = Idle] \/ call' = [call EXCEPT ![c].stage = "check"]
    BY <1>t, <1>9, <2>2 DEF Put, CallInv
  <2>4. /\ call' \in [Callers -> Calls] /\ \A d \in Callers \ {c} : call'[d] = call[d]
        /\ \/ call'[c].stage = "idle"
           \/ call'[c].stage = "check" /\ call'[c].item = call[c].item /\ call'[c].opp = call[c].opp
    <3>1. CASE call' = [call EXCEPT ![c] = Idle]
      BY <1>t, <1>0, <3>1
    <3>2. CASE call' = [call EXCEPT ![c].stage = "check"]
      BY <1>t, <3>2 DEF Calls, Stages
    <3> QED BY <2>3, <3>1, <3>2
  <2>5. CallInv(c)'
    <3>1. ItemOf(o, call[c].item) => o \in Opportunities /\ (c # Operator => o = c)
      BY <1>9, <2>2, <2>3 DEF CallInv, Put
    <3>2. PICK item : item = call[c].item
      OBVIOUS
    <3>3. ItemOf(o, item)'
      BY <2>1, <2>3, <3>2 DEF ItemOf
    <3> QED BY <2>2, <2>3, <2>4, <3>1, <3>2, <3>3 DEF CallInv
  <2>6. \A d \in Callers : CallInv(d)'
    BY <1>t, <2>1, <2>4, <2>5, CallKept
  <2>7. /\ verified' \in [Opportunities -> Items \cup {Null}]
        /\ index' \in [Fixtures -> SUBSET Opportunities]
        /\ \A p \in Opportunities :
             verified'[p] # Null => ItemOf(p, verified[p])' /\ verified'[p].at \in 1..confirms'
    BY <1>t, <2>1, <2>3 DEF ItemOf
  <2>8. \A d \in Callers :
          call'[d].stage \in {"idle", "begin", "share", "ask", "put", "check"}
    BY <2>4 DEF Calls, Stages
  <2> QED BY <1>1, <2>1, <2>4, <2>6, <2>7, <2>8 DEF Types, TypeOK
<1>10. ASSUME NEW o \in Opportunities, Check(o) PROVE Types'
  <2>1. UNCHANGED <<worker, queue, requests, index, confirms>>
    BY <1>10 DEF Check, batch
  <2>2. /\ call' = [call EXCEPT ![o] = Idle] /\ o \in Callers
        /\ \/ verified' = verified
           \/ verified' = [verified EXCEPT ![o] = Null]
        /\ told' \in [Opportunities -> {Null, "confirmed", "rejected", "expired"}]
        /\ timers' = timers \/ timers' = timers \cup {[opp |-> o, at |-> call[o].item.at, stage |-> "set"]}
    BY <1>t, <1>0, <1>10 DEF Check, Publish, Withdraw
  <2>3. call[o].item.at \in Nat
    BY <1>t, <1>10, <2>2 DEF Check, CallInv, ItemOf, Items
  <2>4. /\ call' \in [Callers -> Calls]
        /\ \A d \in Callers : call'[d] = call[d] \/ call'[d].stage = "idle"
    BY <1>t, <1>0, <2>2
  <2>5. \A d \in Callers : CallInv(d)'
    BY <1>t, <2>1, <2>4, CallKept
  <2>6. timers' \subseteq Timers
    BY <1>t, <2>2, <2>3 DEF Timers
  <2>7. /\ verified' \in [Opportunities -> Items \cup {Null}]
        /\ \A p \in Opportunities :
             verified'[p] # Null => ItemOf(p, verified[p])' /\ verified'[p].at \in 1..confirms'
    BY <1>t, <2>1, <2>2 DEF ItemOf
  <2>8. \A d \in Callers :
          call'[d].stage \in {"idle", "begin", "share", "ask", "put", "check"}
    BY <2>4 DEF Calls, Stages
  <2> QED BY <1>1, <2>1, <2>2, <2>4, <2>5, <2>6, <2>7, <2>8 DEF Types, TypeOK
<1> QED BY <1>3, <1>4, <1>5, <1>6, <1>7, <1>8, <1>9, <1>10

(* The types are an invariant.                                               *)
LEMMA TypesKept ==
  ASSUME SurebetVerificationAssumption, Types, [Next]_vars
  PROVE  Types'
<1>1. CASE UNCHANGED vars
  <2>1. UNCHANGED <<source, stored, untold, batches, requests, pending, generations, worker, refs,
                    seen, members, queue, call, verified, index, confirms, elapsed, timers, told>>
    BY <1>1 DEF vars, quotes, trigger, batch, registry, clockwork
  <2>2. \A c \in Callers : CallInv(c)'
    BY <2>1, CallKept DEF Types
  <2> QED BY <2>1, <2>2 DEF Types, TypeOK, ItemOf
<1> QED BY <1>1, WorkerTyped, CallersTyped DEF Next

(* Types of every behaviour.                                                 *)
LEMMA TypesHold ==
  ASSUME SurebetVerificationAssumption
  PROVE  Spec => []Types
<1>1. Init => Types
  BY InitTyped
<1>2. Types /\ [Next]_vars => Types'
  BY TypesKept
<1> QED BY <1>1, <1>2, PTL DEF Spec

-----------------------------------------------------------------------------
(* Requests that meet share a confirmation.                                  *)

(* A call that asks was asking the same before, or begins to where nobody    *)
(* else does.                                                                *)
LEMMA AskedOnceKept ==
  ASSUME SurebetVerificationAssumption, Types, AskedOnce, [Next]_vars
  PROVE  AskedOnce'
<1>t. call \in [Callers -> Calls] /\ \A o \in Opportunities : o \in Callers
  BY DEF Types, Callers
<1>i. Idle.stage = "idle" /\ \A o : [Idle EXCEPT !.stage = "begin", !.opp = o].stage = "begin"
  BY DEF Idle
<1>1. ASSUME \A c \in Callers : call'[c].stage = "ask" =>
               call[c].stage = "ask" /\ call'[c].key = call[c].key
      PROVE  AskedOnce'
  BY <1>1 DEF AskedOnce
<1>2. ASSUME call' = call PROVE AskedOnce'
  BY <1>1, <1>2
<1>3. ASSUME \/ \E f \in Fixtures : ChangeQuote(f) \/ Ingest(f) \/ Trigger(f)
             \/ TakePending \/ ReadIndex \/ DropItems \/ FinishBatch \/ Elapse
             \/ \E t \in timers : TimerLooks(t) \/ TimerTells(t)
             \/ UNCHANGED vars
      PROVE  AskedOnce'
  BY <1>2, <1>3 DEF ChangeQuote, Ingest, Trigger, TakePending, ReadIndex, DropItems, FinishBatch,
                    Elapse, TimerLooks, TimerTells, vars
<1>4. CASE ListCandidates
  <2>1. \A c \in Callers : call'[c] = call[c] \/ call'[c] = [Idle EXCEPT !.stage = "begin", !.opp = c]
    BY <1>4 DEF ListCandidates
  <2> QED BY <1>1, <1>i, <2>1
<1>5. ASSUME NEW o \in Opportunities, Request(o) PROVE AskedOnce'
  <2>0. PICK begun : begun = [Idle EXCEPT !.stage = "begin", !.opp = o]
    OBVIOUS
  <2>1. call' = [call EXCEPT ![Operator] = begun] /\ begun.stage = "begin"
    BY <1>5, <1>i, <2>0 DEF Request
  <2> QED BY <1>t, <1>1, <2>1
<1>6. ASSUME NEW o \in Opportunities, Check(o) PROVE AskedOnce'
  <2>1. call' = [call EXCEPT ![o] = Idle]
    BY <1>6 DEF Check
  <2> QED BY <1>t, <1>i, <1>1, <2>1
<1>7. ASSUME NEW c \in Callers, Refuse(c) \/ GiveUp(c) PROVE AskedOnce'
  <2>1. \A d \in Callers : call'[d] = call[d] \/ call'[d] = Idle
    BY <1>t, <1>7 DEF Refuse, GiveUp
  <2> QED BY <1>i, <1>1, <2>1
<1>8. ASSUME NEW c \in Callers, Put(c) PROVE AskedOnce'
  <2>1. call' = [call EXCEPT ![c] = Idle] \/ call' = [call EXCEPT ![c].stage = "check"]
    BY <1>8 DEF Put
  <2>2. \A d \in Callers : call'[d] = call[d] \/ call'[d].stage \in {"idle", "check"}
    BY <1>t, <1>i, <2>1 DEF Calls
  <2> QED BY <1>1, <2>2
<1>9. ASSUME NEW c \in Callers, Confirm(c) PROVE AskedOnce'
  <2>1. PICK item : \A d \in Callers :
          call'[d] = call[d] \/ call'[d] = [call[d] EXCEPT !.stage = "put", !.item = item]
    BY <1>9 DEF Confirm
  <2>2. \A d \in Callers : call'[d] = call[d] \/ call'[d].stage = "put"
    BY <1>t, <2>1 DEF Calls
  <2> QED BY <1>1, <2>2
<1>10. ASSUME NEW c \in Callers, NEW f \in Fixtures, Answer(c, f) PROVE AskedOnce'
  <2>1. PICK ans : call' = [call EXCEPT ![c].answers = ans]
    BY <1>10 DEF Answer
  <2>2. \A d \in Callers : call'[d].stage = call[d].stage /\ call'[d].key = call[d].key
    BY <1>t, <2>1 DEF Calls
  <2> QED BY <1>1, <2>2
<1>11. ASSUME NEW c \in Callers, Begin(c) PROVE AskedOnce'
  <2>0. PICK key, none : key = <<call[c].opp, Current(call[c].opp)>> /\ none = [f \in {} |-> 0]
    OBVIOUS
  <2>1. \/ call' = [call EXCEPT ![c] = Idle]
        \/ call' = [call EXCEPT ![c].stage = "share", ![c].key = key, ![c].answers = none]
        \/ /\ call' = [call EXCEPT ![c].stage = "ask", ![c].key = key, ![c].answers = none]
           /\ ~\E d \in Callers \ {c} : call[d].key = key /\ call[d].stage = "ask"
    <3>1. CASE \E d \in Callers \ {c} : call[d].key = key /\ call[d].stage = "ask"
      BY <1>11, <2>0, <3>1 DEF Begin
    <3>2. CASE ~\E d \in Callers \ {c} : call[d].key = key /\ call[d].stage = "ask"
      BY <1>11, <2>0, <3>2 DEF Begin
    <3> QED BY <3>1, <3>2
  <2>2. CASE call' = [call EXCEPT ![c] = Idle]
    BY <1>t, <1>i, <1>1, <2>2
  <2>3. ASSUME NEW stage \in {"share", "ask"},
               call' = [call EXCEPT ![c].stage = stage, ![c].key = key, ![c].answers = none],
               stage = "ask" => ~\E d \in Callers \ {c} : call[d].key = key /\ call[d].stage = "ask"
        PROVE  AskedOnce'
    <3>1. /\ call'[c].stage = stage /\ call'[c].key = key
          /\ \A d \in Callers \ {c} : call'[d] = call[d]
      BY <1>t, <2>3 DEF Calls
    <3>2. SUFFICES ASSUME NEW x \in Callers, NEW y \in Callers, x # y,
                          call'[x].stage = "ask", call'[y].stage = "ask",
                          call'[x].key = call'[y].key
                   PROVE  FALSE
      BY DEF AskedOnce
    <3>3. CASE x = c
      BY <2>3, <3>1, <3>2, <3>3
    <3>4. CASE y = c
      BY <2>3, <3>1, <3>2, <3>4
    <3>5. CASE x # c /\ y # c
      BY <3>1, <3>2, <3>5 DEF AskedOnce
    <3> QED BY <3>3, <3>4, <3>5
  <2> QED BY <2>1, <2>2, <2>3
<1> QED BY <1>3, <1>4, <1>5, <1>6, <1>7, <1>8, <1>9, <1>10, <1>11 DEF Next

(* The collectors are asked once for the same quotes of an opportunity,      *)
(* however the worker and an operator meet in ConfirmCurrentSurebet.         *)
THEOREM RequestsShareConfirmations ==
  ASSUME SurebetVerificationAssumption
  PROVE  Spec => [](TypeOK /\ AskedOnce)
<1>1. Init => AskedOnce
  BY DEF Init, AskedOnce, Idle
<1>2. Types /\ AskedOnce /\ [Next]_vars => AskedOnce'
  BY AskedOnceKept
<1>3. Types => TypeOK
  BY DEF Types
<1> QED BY <1>1, <1>2, <1>3, TypesHold, PTL DEF Spec

-----------------------------------------------------------------------------
(* The worker alone.                                                         *)

(* What is under way is the worker's, in a batch it verifies, and not shared.*)
LEMMA OnlyTheWorker ==
  ASSUME SurebetVerificationAssumption, Types, WorkerAlone, NEW c \in Callers,
         call[c].stage # "idle"
  PROVE  /\ c \in Opportunities /\ c # Operator /\ worker = "verify" /\ call[c].opp = c
         /\ call[c].stage = "ask" => Sharers(c) = {}
<1>1. c \in Opportunities /\ c # Operator /\ worker = "verify" /\ call[c].opp = c
  BY DEF WorkerAlone, Idle, Callers, Types, CallInv
<1>2. ASSUME call[c].stage = "ask", NEW d \in Sharers(c) PROVE FALSE
  <2>1. d \in Callers /\ call[d].stage = "share" /\ call[d].key = call[c].key
    BY <1>2 DEF Sharers
  <2>2. d # Operator /\ d \in Opportunities
    BY <2>1 DEF WorkerAlone, Idle, Callers
  <2>3. call[d].opp = d /\ call[d].key[1] = call[d].opp /\ call[c].key[1] = call[c].opp
    BY <1>1, <1>2, <2>1, <2>2 DEF Types, CallInv
  <2> QED BY <1>1, <1>2, <2>1, <2>3
<1> QED BY <1>1, <1>2

(* How a step changes the calls, when nobody but the worker asks.            *)
LEMMA CallSteps ==
  ASSUME SurebetVerificationAssumption, requests' = 0, Types, WorkerAlone
  PROVE  /\ \A o \in Opportunities : ~Request(o)
         /\ \A c \in Callers, f \in Fixtures : Answer(c, f) =>
              /\ c \in Opportunities /\ worker = "verify" /\ call[c].opp = c /\ call[c].stage = "ask"
              /\ call'[c].stage = "ask"
              /\ call'[c].answers = [g \in DOMAIN call[c].answers \cup {f} |->
                                       IF g = f THEN source[f] ELSE call[c].answers[g]]
              /\ \A d \in Callers \ {c} : call'[d] = call[d]
         /\ \A c \in Callers : Begin(c) =>
              /\ c \in Opportunities /\ worker = "verify" /\ call[c].stage = "begin"
              /\ \/ call'[c] = Idle /\ told' = [told EXCEPT ![c] = "rejected"]
                 \/ /\ call'[c].stage \in {"ask", "share"} /\ DOMAIN call'[c].answers = {}
                    /\ told' = told
              /\ \A d \in Callers \ {c} : call'[d] = call[d]
         /\ \A c \in Callers : Confirm(c) =>
              /\ c \in Opportunities /\ worker = "verify" /\ call[c].stage = "ask"
              /\ DOMAIN call[c].answers = Legs[c]
              /\ call'[c].stage = "put" /\ call'[c].item.odds = call[c].answers
              /\ \A d \in Callers \ {c} : call'[d] = call[d]
         /\ \A c \in Callers : Refuse(c) \/ GiveUp(c) =>
              /\ c \in Opportunities /\ worker = "verify"
              /\ call[c].stage \in {"ask", "share", "put"} /\ call'[c] = Idle
              /\ told' = [told EXCEPT ![c] = "rejected"]
              /\ \A d \in Callers \ {c} : call'[d] = call[d]
         /\ \A c \in Callers : Put(c) =>
              /\ c \in Opportunities /\ worker = "verify" /\ call[c].stage = "put"
              /\ call'[c].stage = "check" /\ call'[c].item = call[c].item
              /\ verified' = [verified EXCEPT ![c] = call[c].item]
              /\ index' = [f \in Fixtures |-> IF f \in Legs[c] THEN index[f] \cup {c} ELSE index[f]]
              /\ \A d \in Callers \ {c} : call'[d] = call[d]
<1>t. /\ call \in [Callers -> Calls] /\ requests \in Nat
      /\ told \in [Opportunities -> {Null, "confirmed", "rejected", "expired"}]
      /\ Callers = Opportunities \cup {Operator} /\ Operator \notin Opportunities
  BY DEF Types, TypeOK, Callers, SurebetVerificationAssumption
<1>1. \A o \in Opportunities : ~Request(o)
  BY <1>t DEF Request
<1>2. ASSUME NEW c \in Callers, NEW f \in Fixtures, Answer(c, f)
      PROVE  /\ c \in Opportunities /\ worker = "verify" /\ call[c].opp = c /\ call[c].stage = "ask"
             /\ call'[c].stage = "ask"
             /\ call'[c].answers = [g \in DOMAIN call[c].answers \cup {f} |->
                                      IF g = f THEN source[f] ELSE call[c].answers[g]]
             /\ \A d \in Callers \ {c} : call'[d] = call[d]
  <2>1. call[c].stage = "ask"
    BY <1>2 DEF Answer
  <2>2. PICK ans : ans = [g \in DOMAIN call[c].answers \cup {f} |->
                            IF g = f THEN source[f] ELSE call[c].answers[g]]
    OBVIOUS
  <2>3. call' = [call EXCEPT ![c].answers = ans]
    BY <1>2, <2>2 DEF Answer
  <2>4. /\ call'[c].stage = call[c].stage /\ call'[c].answers = ans
        /\ \A d \in Callers \ {c} : call'[d] = call[d]
    BY <1>t, <2>3 DEF Calls
  <2> QED BY <2>1, <2>2, <2>4, OnlyTheWorker
<1>3. ASSUME NEW c \in Callers, Begin(c)
      PROVE  /\ c \in Opportunities /\ worker = "verify" /\ call[c].stage = "begin"
             /\ \/ call'[c] = Idle /\ told' = [told EXCEPT ![c] = "rejected"]
                \/ /\ call'[c].stage \in {"ask", "share"} /\ DOMAIN call'[c].answers = {}
                   /\ told' = told
             /\ \A d \in Callers \ {c} : call'[d] = call[d]
  <2>1. call[c].stage = "begin"
    BY <1>3 DEF Begin
  <2>2. c \in Opportunities /\ worker = "verify" /\ c # Operator
    BY <2>1, OnlyTheWorker
  <2>3. PICK key, none : key = <<call[c].opp, Current(call[c].opp)>> /\ none = [f \in {} |-> 0]
    OBVIOUS
  <2>4. \/ call' = [call EXCEPT ![c] = Idle] /\ Rejected(c)
        \/ told' = told
             /\ call' = [call EXCEPT ![c].stage = "share", ![c].key = key, ![c].answers = none]
        \/ told' = told
             /\ call' = [call EXCEPT ![c].stage = "ask", ![c].key = key, ![c].answers = none]
    <3>1. CASE \E d \in Callers \ {c} : call[d].key = key /\ call[d].stage = "ask"
      BY <1>3, <2>3, <3>1 DEF Begin
    <3>2. CASE ~\E d \in Callers \ {c} : call[d].key = key /\ call[d].stage = "ask"
      BY <1>3, <2>3, <3>2 DEF Begin
    <3> QED BY <3>1, <3>2
  <2>5. CASE call' = [call EXCEPT ![c] = Idle] /\ Rejected(c)
    BY <1>t, <2>1, <2>2, <2>5 DEF Rejected
  <2>6. ASSUME NEW where \in {"ask", "share"},
               call' = [call EXCEPT ![c].stage = where, ![c].key = key, ![c].answers = none]
        PROVE  /\ call'[c].stage \in {"ask", "share"} /\ DOMAIN call'[c].answers = {}
               /\ \A d \in Callers \ {c} : call'[d] = call[d]
    <3>1. /\ call'[c].stage = where /\ call'[c].answers = none
          /\ \A d \in Callers \ {c} : call'[d] = call[d]
      BY <1>t, <2>6 DEF Calls
    <3> QED BY <2>3, <3>1
  <2> QED BY <2>1, <2>2, <2>4, <2>5, <2>6
<1>4. ASSUME NEW c \in Callers, Confirm(c)
      PROVE  /\ c \in Opportunities /\ worker = "verify" /\ call[c].stage = "ask"
             /\ DOMAIN call[c].answers = Legs[c]
             /\ call'[c].stage = "put" /\ call'[c].item.odds = call[c].answers
             /\ \A d \in Callers \ {c} : call'[d] = call[d]
  <2>1. call[c].stage = "ask" /\ DOMAIN call[c].answers = Legs[call[c].opp]
    BY <1>4 DEF Confirm
  <2>2. c \in Opportunities /\ worker = "verify" /\ call[c].opp = c /\ Sharers(c) = {}
    BY <2>1, OnlyTheWorker
  <2>3. PICK item : item = [odds |-> call[c].answers, at |-> confirms']
    OBVIOUS
  <2>4. call' = [d \in Callers |-> IF d \in Sharers(c) \cup {c}
                                     THEN [call[d] EXCEPT !.stage = "put", !.item = item]
                                     ELSE call[d]]
    BY <1>4, <2>3 DEF Confirm
  <2>5. call'[c] = [call[c] EXCEPT !.stage = "put", !.item = item]
        /\ \A d \in Callers \ {c} : call'[d] = call[d]
    BY <2>2, <2>4
  <2>6. call'[c].stage = "put" /\ call'[c].item = item
    BY <1>t, <2>5 DEF Calls
  <2>7. item.odds = call[c].answers
    BY <2>3
  <2> QED BY <2>1, <2>2, <2>5, <2>6, <2>7
<1>5. ASSUME NEW c \in Callers, Refuse(c) \/ GiveUp(c)
      PROVE  /\ c \in Opportunities /\ worker = "verify"
             /\ call[c].stage \in {"ask", "share", "put"} /\ call'[c] = Idle
             /\ told' = [told EXCEPT ![c] = "rejected"]
             /\ \A d \in Callers \ {c} : call'[d] = call[d]
  <2>1. call[c].stage \in {"ask", "share", "put"}
    BY <1>5 DEF Refuse, GiveUp
  <2>2. c \in Opportunities /\ worker = "verify" /\ c # Operator
    BY <2>1, OnlyTheWorker
  <2>3. CASE Refuse(c)
    <3>1. Sharers(c) = {}
      BY <2>3, OnlyTheWorker DEF Refuse
    <3>2. /\ call' = [d \in Callers |-> IF d \in {c} THEN Idle ELSE call[d]]
          /\ told' = [o \in Opportunities |-> IF o \in {c} THEN "rejected" ELSE told[o]]
      BY <2>3, <3>1 DEF Refuse
    <3> QED BY <1>t, <2>1, <2>2, <3>2
  <2>4. CASE GiveUp(c)
    BY <1>t, <2>1, <2>2, <2>4 DEF GiveUp, Rejected
  <2> QED BY <1>5, <2>3, <2>4
<1>6. ASSUME NEW c \in Callers, Put(c)
      PROVE  /\ c \in Opportunities /\ worker = "verify" /\ call[c].stage = "put"
             /\ call'[c].stage = "check" /\ call'[c].item = call[c].item
             /\ verified' = [verified EXCEPT ![c] = call[c].item]
             /\ index' = [f \in Fixtures |-> IF f \in Legs[c] THEN index[f] \cup {c} ELSE index[f]]
             /\ \A d \in Callers \ {c} : call'[d] = call[d]
  <2>1. call[c].stage = "put"
    BY <1>6 DEF Put
  <2>2. c \in Opportunities /\ worker = "verify" /\ c # Operator /\ call[c].opp = c
    BY <2>1, OnlyTheWorker
  <2>3. /\ call' = [call EXCEPT ![c].stage = "check"]
        /\ verified' = [verified EXCEPT ![c] = call[c].item]
        /\ index' = [f \in Fixtures |-> IF f \in Legs[c] THEN index[f] \cup {c} ELSE index[f]]
    BY <1>6, <2>2 DEF Put
  <2>4. /\ call'[c].stage = "check" /\ call'[c].item = call[c].item
        /\ \A d \in Callers \ {c} : call'[d] = call[d]
    BY <1>t, <2>3 DEF Calls
  <2> QED BY <2>1, <2>2, <2>3, <2>4
<1> QED BY <1>1, <1>2, <1>3, <1>4, <1>5, <1>6

(* The worker stays the only one that asks.                                  *)
LEMMA WorkerStaysAlone ==
  ASSUME SurebetVerificationAssumption, requests' = 0, Types, WorkerAlone, [Next]_vars
  PROVE  WorkerAlone'
<1>t. /\ call \in [Callers -> Calls] /\ Callers = Opportunities \cup {Operator}
      /\ Operator \notin Opportunities /\ queue \subseteq Opportunities
  BY DEF Types, Callers, SurebetVerificationAssumption
<1>0. /\ call[Operator] = Idle
      /\ worker # "verify" => \A o \in Opportunities : call[o] = Idle
  BY DEF WorkerAlone
<1>1. ASSUME call' = call, worker' = worker \/ worker \in {"idle", "invalidate", "drop"}
      PROVE  WorkerAlone'
  BY <1>0, <1>1 DEF WorkerAlone
<1>2. CASE \/ \E f \in Fixtures : ChangeQuote(f) \/ Ingest(f) \/ Trigger(f)
           \/ Elapse \/ UNCHANGED vars \/ \E t \in timers : TimerLooks(t) \/ TimerTells(t)
  BY <1>1, <1>2 DEF ChangeQuote, Ingest, Trigger, Elapse, TimerLooks, TimerTells, vars, batch
<1>3. CASE TakePending \/ ReadIndex \/ DropItems
  BY <1>1, <1>3 DEF TakePending, ReadIndex, DropItems
<1>4. CASE FinishBatch
  BY <1>0, <1>4 DEF FinishBatch, WorkerAlone
<1>5. CASE ListCandidates
  <2>1. worker' = "verify" /\ queue' \subseteq Opportunities
    BY <1>5 DEF ListCandidates
  <2>2. call'[Operator] = call[Operator]
    BY <1>t, <1>5, <2>1 DEF ListCandidates
  <2> QED BY <1>0, <2>1, <2>2 DEF WorkerAlone
<1>6. ASSUME NEW c \in Opportunities, worker = "verify", worker' = worker,
             \A d \in Callers \ {c} : call'[d] = call[d]
      PROVE  WorkerAlone'
  BY <1>t, <1>0, <1>6 DEF WorkerAlone
<1>7. ASSUME NEW o \in Opportunities, Check(o) PROVE WorkerAlone'
  <2>1. o \in Callers /\ worker = "verify"
    BY <1>t, <1>7, OnlyTheWorker DEF Check
  <2>2. worker' = worker /\ \A d \in Callers \ {o} : call'[d] = call[d]
    BY <1>t, <1>7 DEF Check, batch
  <2> QED BY <1>6, <2>1, <2>2
<1>8. ASSUME NEW c \in Callers,
             \/ Begin(c) \/ Confirm(c) \/ Refuse(c) \/ GiveUp(c) \/ Put(c)
             \/ \E f \in Fixtures : Answer(c, f)
      PROVE  WorkerAlone'
  <2>1. worker' = worker
    BY <1>8 DEF Begin, Confirm, Refuse, GiveUp, Put, Answer, batch
  <2>2. c \in Opportunities /\ worker = "verify" /\ \A d \in Callers \ {c} : call'[d] = call[d]
    BY <1>8, CallSteps
  <2> QED BY <1>6, <2>1, <2>2
<1> QED BY <1>2, <1>3, <1>4, <1>5, <1>7, <1>8, CallSteps DEF Next

-----------------------------------------------------------------------------
(* What the frontend was told is confirmed.                                  *)

(* A step that leaves the timer, the item and a check of an opportunity, and *)
(* tells nothing but a rejection.                                            *)
LEMMA TimerKept ==
  ASSUME NEW o \in Opportunities, TimerInv(o), verified'[o] = verified[o],
         elapsed' = elapsed, timers' = timers,
         told'[o] = told[o] \/ told'[o] \in {"rejected", "expired"},
         call'[o] = call[o] \/ call[o].stage # "check"
  PROVE  TimerInv(o)'
<1>1. Live(o)' <=> Live(o)
  BY DEF Live
<1>2. Live(o) => \/ [opp |-> o, at |-> verified[o].at, stage |-> "set"] \in timers
                 \/ call'[o].stage = "check" /\ call'[o].item = verified[o]
  BY DEF TimerInv
<1>3. told'[o] = "confirmed" =>
        Live(o) \/ (\E t \in timers : t.opp = o) \/ call'[o].stage = "check"
  BY DEF TimerInv
<1> QED BY <1>1, <1>2, <1>3 DEF TimerInv

(* Nothing of this is broken by a step of anybody.                           *)
LEMMA ToldKept ==
  ASSUME SurebetVerificationAssumption, requests' = 0, Types, ToldInv, [Next]_vars
  PROVE  ToldInv'
<1>t. /\ call \in [Callers -> Calls] /\ Callers = Opportunities \cup {Operator}
      /\ verified \in [Opportunities -> Items \cup {Null}] /\ timers \subseteq Timers
      /\ told \in [Opportunities -> {Null, "confirmed", "rejected", "expired"}]
      /\ confirms \in Nat /\ elapsed \in Nat
      /\ \A o \in Opportunities : verified[o] # Null => ItemOf(o, verified[o])
  BY DEF Types, TypeOK, Callers
<1>0. WorkerAlone /\ WorkerAlone' /\ \A o \in Opportunities : TimerInv(o)
  BY WorkerStaysAlone DEF ToldInv
<1> SUFFICES ASSUME NEW o \in Opportunities PROVE TimerInv(o)'
  BY <1>0 DEF ToldInv
<1>o. o \in Callers
  BY <1>t
<1>1. CASE \/ \E f \in Fixtures : ChangeQuote(f) \/ Ingest(f) \/ Trigger(f)
           \/ TakePending \/ ReadIndex \/ FinishBatch \/ UNCHANGED vars
  <2>1. UNCHANGED <<call, verified, elapsed, timers, told>>
    BY <1>1 DEF ChangeQuote, Ingest, Trigger, TakePending, ReadIndex, FinishBatch, vars, registry,
                clockwork
  <2> QED BY <1>0, <2>1, TimerKept
<1>2. CASE DropItems
  <2>1. UNCHANGED <<call, elapsed, timers>>
    BY <1>2 DEF DropItems, clockwork
  <2>2. \/ verified'[o] = verified[o] /\ told'[o] = told[o]
        \/ verified'[o] = Null /\ told'[o] = "expired"
    BY <1>2 DEF DropItems
  <2>3. CASE verified'[o] = Null /\ told'[o] = "expired"
    BY <2>3 DEF TimerInv, Live
  <2> QED BY <1>0, <2>1, <2>2, <2>3, TimerKept
<1>3. CASE ListCandidates
  <2>1. UNCHANGED <<verified, elapsed, timers, told>> /\ worker = "list"
    BY <1>3 DEF ListCandidates, registry, clockwork
  <2>2. call[o].stage # "check"
    BY <1>0, <2>1 DEF WorkerAlone, Idle
  <2> QED BY <1>0, <2>1, <2>2, TimerKept
<1>4. ASSUME NEW c \in Callers, NEW f \in Fixtures, Answer(c, f) PROVE TimerInv(o)'
  <2>1. UNCHANGED <<verified, elapsed, timers, told>>
    BY <1>4 DEF Answer, registry, clockwork
  <2>2. call'[o] = call[o] \/ call[o].stage # "check"
    BY <1>0, <1>4, <1>o, CallSteps
  <2> QED BY <1>0, <2>1, <2>2, TimerKept
<1>5. ASSUME NEW c \in Callers, Begin(c) \/ Confirm(c) \/ Refuse(c) \/ GiveUp(c)
      PROVE  TimerInv(o)'
  <2>1. UNCHANGED <<verified, elapsed, timers>> /\ (Confirm(c) => told' = told)
    BY <1>5 DEF Begin, Confirm, Refuse, GiveUp, registry, clockwork
  <2>2. call'[o] = call[o] \/ call[o].stage # "check"
    BY <1>0, <1>5, <1>o, CallSteps
  <2>3. told'[o] = told[o] \/ told'[o] = "rejected"
    BY <1>t, <1>0, <1>5, <2>1, CallSteps
  <2> QED BY <1>0, <2>1, <2>2, <2>3, TimerKept
<1>6. ASSUME NEW c \in Callers, Put(c) PROVE TimerInv(o)'
  <2>1. UNCHANGED <<elapsed, timers, told>>
    BY <1>6 DEF Put, clockwork
  <2>2. /\ c \in Opportunities /\ call[c].stage = "put"
        /\ call'[c].stage = "check" /\ call'[c].item = call[c].item
        /\ verified' = [verified EXCEPT ![c] = call[c].item]
        /\ \A d \in Callers \ {c} : call'[d] = call[d]
    BY <1>0, <1>6, CallSteps
  <2>3. CASE o = c
    BY <1>t, <2>2, <2>3 DEF TimerInv
  <2>4. CASE o # c
    BY <1>t, <1>0, <1>o, <2>1, <2>2, <2>4, TimerKept
  <2> QED BY <2>3, <2>4
<1>7. ASSUME NEW p \in Opportunities, Check(p) PROVE TimerInv(o)'
  <2>1. /\ call[p].stage = "check" /\ elapsed' = elapsed
        /\ \A d \in Callers \ {p} : call'[d] = call[d]
        /\ \/ /\ told' = [told EXCEPT ![p] = "confirmed"] /\ verified' = verified
              /\ timers' = timers \cup {[opp |-> p, at |-> call[p].item.at, stage |-> "set"]}
           \/ /\ told' = [told EXCEPT ![p] = "rejected"] /\ timers' = timers
              /\ verified' = [verified EXCEPT ![p] = Null]
    BY <1>t, <1>7 DEF Check, Publish, Withdraw
  <2>2. CASE o = p
    <3>1. CASE verified'[p] = Null /\ told'[p] = "rejected"
      BY <2>2, <3>1 DEF TimerInv, Live
    <3>2. CASE /\ verified' = verified
               /\ timers' = timers \cup {[opp |-> p, at |-> call[p].item.at, stage |-> "set"]}
      <4>1. Live(o)' <=> Live(o)
        BY <2>1, <3>2 DEF Live
      <4>2. Live(o) => [opp |-> o, at |-> verified[o].at, stage |-> "set"] \in timers'
        BY <1>0, <2>2, <3>2 DEF TimerInv
      <4>3. \E t \in timers' : t.opp = o
        <5>1. PICK t : t = [opp |-> p, at |-> call[p].item.at, stage |-> "set"]
          OBVIOUS
        <5>2. t.opp = o
          BY <2>2, <5>1
        <5> QED BY <3>2, <5>1, <5>2
      <4> QED BY <3>2, <4>1, <4>2, <4>3 DEF TimerInv
    <3> QED BY <1>t, <2>1, <3>1, <3>2
  <2>3. CASE o # p
    <3>1. /\ verified'[o] = verified[o] /\ told'[o] = told[o] /\ call'[o] = call[o]
          /\ timers \subseteq timers'
      BY <1>t, <1>o, <2>1, <2>3
    <3>2. Live(o)' <=> Live(o)
      BY <2>1, <3>1 DEF Live
    <3> QED BY <1>0, <3>1, <3>2 DEF TimerInv
  <2> QED BY <2>2, <2>3
<1>8. CASE Elapse
  <2>1. UNCHANGED <<call, verified, timers, told>> /\ elapsed' = elapsed + 1
    BY <1>8 DEF Elapse, registry
  <2>2. Live(o)' => Live(o)
    BY <1>t, <2>1 DEF Live, ItemOf, Items
  <2>3. Live(o) => (\E t \in timers : t.opp = o) \/ call[o].stage = "check"
    BY <1>0 DEF TimerInv
  <2> QED BY <1>0, <2>1, <2>2, <2>3 DEF TimerInv
<1>9. ASSUME NEW t \in timers, TimerLooks(t) PROVE TimerInv(o)'
  <2>1. /\ UNCHANGED <<call, verified, elapsed, told>> /\ t.stage = "set" /\ t.at <= elapsed
        /\ timers' = (timers \ {t}) \cup
             IF Live(t.opp) THEN {} ELSE {[t EXCEPT !.stage = "tell"]}
    BY <1>9 DEF TimerLooks, registry
  <2>2. Live(o)' <=> Live(o)
    BY <2>1 DEF Live
  <2>3. Live(o) => verified[o].at > elapsed /\ verified[o].at \in Nat
    BY <1>t DEF Live, ItemOf, Items
  <2>4. PICK timer : timer = [opp |-> o, at |-> verified[o].at, stage |-> "set"]
    OBVIOUS
  <2>5. Live(o) => timer # t
    <3>1. timer.at = verified[o].at
      BY <2>4
    <3> QED BY <1>t, <2>1, <2>3, <3>1
  <2>6. Live(o) => timer \in timers' \/ (call'[o].stage = "check" /\ call'[o].item = verified[o])
    BY <1>0, <2>1, <2>4, <2>5 DEF TimerInv
  <2>7. ~Live(o) /\ (\E u \in timers : u.opp = o) => \E u \in timers' : u.opp = o
    <3> SUFFICES ASSUME ~Live(o), NEW u \in timers, u.opp = o PROVE \E w \in timers' : w.opp = o
      OBVIOUS
    <3>1. CASE u # t
      BY <2>1, <3>1
    <3>2. CASE u = t
      <4>1. PICK w : w = [t EXCEPT !.stage = "tell"]
        OBVIOUS
      <4>2. w.opp = o
        BY <1>t, <3>2, <4>1 DEF Timers
      <4> QED BY <2>1, <3>2, <4>1, <4>2
    <3> QED BY <3>1, <3>2
  <2>8. told'[o] = "confirmed" =>
          Live(o) \/ (\E u \in timers' : u.opp = o) \/ call'[o].stage = "check"
    BY <1>0, <2>1, <2>7 DEF TimerInv
  <2> QED BY <2>1, <2>2, <2>4, <2>6, <2>8 DEF TimerInv
<1>10. ASSUME NEW t \in timers, TimerTells(t) PROVE TimerInv(o)'
  <2>1. /\ UNCHANGED <<call, verified, elapsed>> /\ t.stage = "tell"
        /\ timers' = timers \ {t} /\ told' = [told EXCEPT ![t.opp] = "expired"]
        /\ t.opp \in Opportunities
    BY <1>t, <1>10 DEF TimerTells, registry, Timers
  <2>2. Live(o)' <=> Live(o)
    BY <2>1 DEF Live
  <2>4. PICK timer : timer = [opp |-> o, at |-> verified[o].at, stage |-> "set"]
    OBVIOUS
  <2>5. timer # t
    BY <2>1, <2>4
  <2>6. Live(o) => timer \in timers' \/ (call'[o].stage = "check" /\ call'[o].item = verified[o])
    BY <1>0, <2>1, <2>4, <2>5 DEF TimerInv
  <2>7. told'[o] = "confirmed" =>
          Live(o) \/ (\E u \in timers' : u.opp = o) \/ call'[o].stage = "check"
    BY <1>t, <1>0, <2>1 DEF TimerInv
  <2> QED BY <2>1, <2>2, <2>4, <2>6, <2>7 DEF TimerInv
<1> QED BY <1>0, <1>1, <1>2, <1>3, <1>4, <1>5, <1>6, <1>7, <1>8, <1>9, <1>10, CallSteps DEF Next

(* The worker is alone, and its timers hold, in every behaviour in which     *)

(* Neither a request nor a failure is taken back.                            *)
LEMMA TroublesStay ==
  ASSUME Types, failures \in Nat, [Next]_vars
  PROVE  /\ requests' = 0 => requests = 0
         /\ failures' \in Nat /\ (failures' = 0 => failures = 0)
<1>t. requests \in Nat /\ failures \in Nat
  BY DEF Types
<1>1. ASSUME NEW o \in Opportunities, Request(o)
      PROVE  requests' = requests + 1 /\ failures' = failures
  BY <1>1 DEF Request, registry
<1>2. CASE DropItems
  BY <1>t, <1>2 DEF DropItems
<1>3. CASE ~DropItems /\ ~\E o \in Opportunities : Request(o)
  <2>1. UNCHANGED <<requests, failures>>
    BY <1>3 DEF Next, vars, registry, ChangeQuote, Ingest, Trigger, TakePending, ReadIndex,
       ListCandidates, FinishBatch, Check, Begin, Confirm, Refuse, GiveUp, Put, Answer, Elapse,
       TimerLooks, TimerTells
  <2> QED BY <2>1
<1> QED BY <1>t, <1>1, <1>2, <1>3

(* Failures are counted.                                                     *)
LEMMA FailuresCounted ==
  ASSUME SurebetVerificationAssumption
  PROVE  Spec => [](failures \in Nat)
<1>1. Init => failures \in Nat
  BY DEF Init
<1>2. Types /\ failures \in Nat /\ [Next]_vars => (failures \in Nat)'
  BY TroublesStay
<1> QED BY <1>1, <1>2, TypesHold, PTL DEF Spec

(* What the frontend was told holds while no operator asks.                  *)
LEMMA ToldHolds ==
  ASSUME SurebetVerificationAssumption
  PROVE  Spec => [](requests = 0 => ToldInv)
<1>1. Init => ToldInv
  BY DEF Init, ToldInv, WorkerAlone, TimerInv, Live, Callers, SurebetVerificationAssumption
<1>2. Types /\ failures \in Nat /\ (requests = 0 => ToldInv) /\ [Next]_vars =>
        (requests = 0 => ToldInv)'
  BY ToldKept, TroublesStay
<1> QED BY <1>1, <1>2, TypesHold, FailuresCounted, PTL DEF Spec

-----------------------------------------------------------------------------
(* What the registry keeps.                                                  *)

(* A leg stays covered until the worker has dropped what rests on it.        *)
LEMMA CoveredKept ==
  ASSUME SurebetVerificationAssumption, Types, [Next]_vars,
         \A f \in Fixtures : stored[f] <= source[f],
         NEW f \in Fixtures, NEW version, Covered(f, version), DropItems => f \notin refs
  PROVE  Covered(f, version)'
<1>t. /\ source \in [Fixtures -> Nat] /\ stored \in [Fixtures -> Nat]
      /\ worker \in {"idle", "invalidate", "drop", "list", "verify"}
  BY DEF Types, TypeOK, SurebetVerificationAssumption
<1>1. ASSUME UNCHANGED <<source, stored, untold>>,
             f \in pending => f \in pending' \/ (f \in refs' /\ worker' \in {"invalidate", "drop"}),
             f \in refs /\ worker \in {"invalidate", "drop"} =>
               f \in refs' /\ worker' \in {"invalidate", "drop"}
      PROVE  Covered(f, version)'
  BY <1>1 DEF Covered
<1>2. CASE \E g \in Fixtures : ChangeQuote(g)
  <2>1. PICK g \in Fixtures : source' = [source EXCEPT ![g] = source[g] + 1]
    BY <1>2 DEF ChangeQuote
  <2>2. UNCHANGED <<stored, untold, pending, refs, worker>>
    BY <1>2 DEF ChangeQuote, trigger, batch
  <2>3. source[f] # stored[f] => source'[f] # stored[f]
    BY <1>t, <2>1
  <2> QED BY <2>2, <2>3 DEF Covered
<1>3. CASE \E g \in Fixtures : Ingest(g)
  <2>1. PICK g \in Fixtures : stored' = [stored EXCEPT ![g] = source[g]] /\ untold' = untold \cup {g}
    BY <1>3 DEF Ingest
  <2>2. UNCHANGED <<source, pending, refs, worker>>
    BY <1>3 DEF Ingest, trigger, batch
  <2>3. f # g => stored'[f] = stored[f]
    BY <1>t, <2>1
  <2> QED BY <2>1, <2>2, <2>3 DEF Covered
<1>4. CASE \E g \in Fixtures : Trigger(g)
  <2>1. PICK g \in Fixtures : untold' = untold \ {g} /\ pending' = pending \cup {g}
    BY <1>4 DEF Trigger
  <2>2. UNCHANGED <<source, stored, refs, worker>>
    BY <1>4 DEF Trigger, batch
  <2> QED BY <2>1, <2>2 DEF Covered
<1>5. CASE TakePending
  BY <1>1, <1>5 DEF TakePending, quotes
<1>6. CASE ReadIndex
  BY <1>1, <1>6 DEF ReadIndex, quotes, trigger
<1>7. CASE DropItems
  BY <1>1, <1>7 DEF DropItems, quotes, trigger
<1>8. CASE ListCandidates
  BY <1>1, <1>8 DEF ListCandidates, quotes, trigger
<1>9. CASE FinishBatch
  BY <1>1, <1>9 DEF FinishBatch, quotes, trigger
<1>10. ASSUME \/ \E c \in Callers : \/ Begin(c) \/ Confirm(c) \/ Refuse(c) \/ GiveUp(c) \/ Put(c)
                                    \/ \E g \in Fixtures : Answer(c, g)
              \/ \E o \in Opportunities : Request(o) \/ Check(o)
       PROVE  Covered(f, version)'
  <2>1. UNCHANGED <<quotes, trigger, batch>>
    BY <1>10 DEF Begin, Confirm, Refuse, GiveUp, Put, Answer, Request, Check
  <2> QED BY <1>1, <2>1 DEF quotes, trigger, batch
<1>11. CASE Elapse \/ UNCHANGED vars \/ \E t \in timers : TimerLooks(t) \/ TimerTells(t)
  <2>1. UNCHANGED <<quotes, trigger, batch>>
    BY <1>11 DEF Elapse, vars, TimerLooks, TimerTells
  <2> QED BY <1>1, <2>1 DEF quotes, trigger, batch
<1> QED BY <1>2, <1>3, <1>4, <1>5, <1>6, <1>7, <1>8, <1>9, <1>10, <1>11 DEF Next

(* What is stored is never newer than the bookmaker's quote.                 *)
LEMMA StoredKept ==
  ASSUME SurebetVerificationAssumption, Types, [Next]_vars,
         \A f \in Fixtures : stored[f] <= source[f]
  PROVE  \A f \in Fixtures : stored'[f] <= source'[f]
<1>t. source \in [Fixtures -> Nat] /\ stored \in [Fixtures -> Nat]
  BY DEF Types, TypeOK, SurebetVerificationAssumption
<1>1. CASE \E g \in Fixtures : ChangeQuote(g)
  BY <1>t, <1>1 DEF ChangeQuote
<1>2. CASE \E g \in Fixtures : Ingest(g)
  BY <1>t, <1>2 DEF Ingest
<1>3. CASE UNCHANGED <<source, stored>>
  BY <1>3
<1>4. CASE \E g \in Fixtures : Trigger(g)
  BY <1>3, <1>4 DEF Trigger
<1>5. CASE \/ TakePending \/ ReadIndex \/ DropItems \/ FinishBatch \/ Elapse \/ ListCandidates
           \/ \E t \in timers : TimerLooks(t) \/ TimerTells(t)
  BY <1>3, <1>5 DEF TakePending, ReadIndex, DropItems, FinishBatch, Elapse, ListCandidates,
                    TimerLooks, TimerTells, quotes
<1>6. ASSUME \/ \E c \in Callers : \/ Begin(c) \/ Confirm(c) \/ Refuse(c) \/ GiveUp(c) \/ Put(c)
                                   \/ \E g \in Fixtures : Answer(c, g)
             \/ \E o \in Opportunities : Request(o) \/ Check(o)
      PROVE  UNCHANGED <<source, stored>>
  BY <1>6 DEF Begin, Confirm, Refuse, GiveUp, Put, Answer, Request, Check, quotes
<1>7. CASE UNCHANGED vars
  BY <1>3, <1>7 DEF vars, quotes
<1> QED BY <1>1, <1>2, <1>3, <1>4, <1>5, <1>6, <1>7 DEF Next

(* The batch: what rests on its fixtures leaves the registry.                *)
LEMMA BatchKeeps ==
  ASSUME SurebetVerificationAssumption, failures \in Nat, failures' = 0,
         Types, WorkerAlone, KeptInv,
         NEW o \in Opportunities,
         \A f \in Fixtures : \A version : Covered(f, version) /\ (DropItems => f \notin refs) =>
           Covered(f, version)',
         DropItems \/ ListCandidates
  PROVE  RegistryInv(o)'
<1>t. /\ call \in [Callers -> Calls] /\ o \in Callers /\ Legs[o] \subseteq Fixtures
      /\ refs \subseteq Fixtures /\ index \in [Fixtures -> SUBSET Opportunities]
      /\ call[o].stage = "ask" => DOMAIN call[o].answers \subseteq Legs[call[o].opp]
  BY DEF Types, TypeOK, Callers, SurebetVerificationAssumption, CallInv
<1>0. RegistryInv(o) /\ call[o] = Idle /\ call[o].stage = "idle"
  <2>1. worker # "verify"
    BY DEF DropItems, ListCandidates
  <2> QED BY <2>1 DEF KeptInv, WorkerAlone, Idle
<1>1. CASE DropItems
  <2>1. /\ call' = call /\ worker' = "list" /\ worker = "drop" /\ refs' = refs
        /\ verified' = [p \in Opportunities |-> IF p \in members THEN Null ELSE verified[p]]
        /\ index' = [f \in Fixtures |-> IF f \in refs THEN {} ELSE index[f]]
        /\ told' = [p \in Opportunities |-> IF p \in members THEN "expired" ELSE told[p]]
    BY <1>1 DEF DropItems
  <2>2. CASE o \in members
    <3>1. verified'[o] = Null /\ told'[o] = "expired"
      BY <2>1, <2>2
    <3> QED BY <1>0, <2>1, <3>1 DEF RegistryInv
  <2>3. CASE o \notin members
    <3>1. verified'[o] = verified[o] /\ told'[o] = told[o]
      BY <2>1, <2>3
    <3>2. verified[o] # Null => Legs[o] \cap refs = {}
      BY <1>t, <1>0, <2>1, <2>3 DEF RegistryInv
    <3>3. verified[o] # Null =>
            \A f \in Legs[o] : o \in index'[f] /\ Covered(f, verified[o].odds[f])'
      <4> SUFFICES ASSUME verified[o] # Null, NEW f \in Legs[o]
                   PROVE  o \in index'[f] /\ Covered(f, verified[o].odds[f])'
        OBVIOUS
      <4>1. f \in Fixtures /\ f \notin refs /\ o \in index[f]
        BY <1>t, <1>0, <3>2 DEF RegistryInv
      <4>2. PICK version : version = verified[o].odds[f]
        OBVIOUS
      <4>3. Covered(f, version)'
        BY <1>0, <4>1, <4>2 DEF RegistryInv
      <4>4. version = verified'[o].odds[f]
        BY <3>1, <4>2
      <4> QED BY <2>1, <4>1, <4>3, <4>4
    <3> QED BY <1>0, <2>1, <3>1, <3>2, <3>3 DEF RegistryInv
  <2> QED BY <2>2, <2>3
<1>2. CASE ListCandidates
  <2>1. /\ worker' = "verify" /\ worker = "list" /\ UNCHANGED <<refs, verified, index, told>>
        /\ queue' \in SUBSET {p \in Opportunities : Legs[p] \cap refs # {} /\ Surebet(Current(p))}
        /\ call'[o] = IF o \in queue' THEN [Idle EXCEPT !.stage = "begin", !.opp = o] ELSE call[o]
    BY <1>t, <1>2 DEF ListCandidates, registry
  <2>2. \/ call'[o].stage = "idle"
        \/ call'[o].stage = "begin" /\ verified[o] = Null
    <3>1. CASE o \in queue'
      <4>1. call'[o].stage = "begin"
        BY <2>1, <3>1 DEF Idle
      <4>2. Legs[o] \cap refs # {}
        BY <2>1, <3>1
      <4> QED BY <1>0, <2>1, <4>1, <4>2 DEF RegistryInv
    <3>2. CASE o \notin queue'
      BY <1>0, <2>1, <3>2
    <3> QED BY <3>1, <3>2
  <2>3. verified[o] # Null =>
          \A f \in Legs[o] : o \in index'[f] /\ Covered(f, verified[o].odds[f])'
    <3> SUFFICES ASSUME verified[o] # Null, NEW f \in Legs[o]
                 PROVE  o \in index'[f] /\ Covered(f, verified[o].odds[f])'
      OBVIOUS
    <3>1. PICK version : version = verified[o].odds[f]
      OBVIOUS
    <3>2. Covered(f, version)' /\ o \in index[f]
      <4>1. ~DropItems
        BY <2>1 DEF DropItems
      <4> QED BY <1>t, <1>0, <3>1, <4>1 DEF RegistryInv
    <3> QED BY <2>1, <3>1, <3>2
  <2>4. told'[o] = "rejected" => verified'[o] = Null
    BY <1>0, <2>1 DEF RegistryInv
  <2> QED BY <2>1, <2>2, <2>3, <2>4 DEF RegistryInv
<1> QED BY <1>1, <1>2

(* An opportunity whose item and call stay, beside a batch that goes on.     *)
LEMMA RegistryKept ==
  ASSUME SurebetVerificationAssumption, Types, NEW o \in Opportunities, RegistryInv(o),
         \A f \in Fixtures : \A version : Covered(f, version) => Covered(f, version)',
         verified'[o] = verified[o], call'[o] = call[o],
         told'[o] = told[o] \/ told'[o] # "rejected",
         \A f \in Fixtures : o \in index[f] => o \in index'[f],
         worker' \notin {"drop", "list"} \/ UNCHANGED <<worker, refs, members, index>>
  PROVE  RegistryInv(o)'
<1>t. /\ o \in Callers /\ Legs[o] \subseteq Fixtures /\ CallInv(o) /\ o # Operator
      /\ \A S \in SUBSET Fixtures : S \subseteq Fixtures
  BY DEF Types, TypeOK, Callers, SurebetVerificationAssumption
<1>1. ASSUME NEW f \in Fixtures, NEW version, Covered(f, version) PROVE Covered(f, version)'
  BY <1>1
<1>2. verified'[o] # Null => \A f \in Legs[o] : o \in index'[f] /\ Covered(f, verified[o].odds[f])'
  <2> SUFFICES ASSUME verified[o] # Null, NEW f \in Legs[o]
               PROVE  o \in index'[f] /\ Covered(f, verified[o].odds[f])'
    OBVIOUS
  <2>1. PICK version : version = verified[o].odds[f]
    OBVIOUS
  <2>2. f \in Fixtures /\ o \in index[f] /\ Covered(f, version)'
    BY <1>t, <1>1, <2>1 DEF RegistryInv
  <2>3. version = verified'[o].odds[f]
    BY <2>1
  <2> QED BY <2>2, <2>3
<1>3. call'[o].stage = "ask" =>
        \A f \in DOMAIN call'[o].answers : Covered(f, call[o].answers[f])'
  <2> SUFFICES ASSUME call[o].stage = "ask", NEW f \in DOMAIN call[o].answers
               PROVE  Covered(f, call[o].answers[f])'
    OBVIOUS
  <2>1. PICK version : version = call[o].answers[f]
    OBVIOUS
  <2>2. f \in Fixtures
    BY <1>t DEF CallInv
  <2>3. Covered(f, version)'
    BY <1>1, <2>1, <2>2 DEF RegistryInv
  <2>4. version = call'[o].answers[f]
    BY <2>1
  <2> QED BY <2>3, <2>4
<1>4. call'[o].stage \in {"put", "check"} => \A f \in Legs[o] : Covered(f, call[o].item.odds[f])'
  <2> SUFFICES ASSUME call[o].stage \in {"put", "check"}, NEW f \in Legs[o]
               PROVE  Covered(f, call[o].item.odds[f])'
    OBVIOUS
  <2>1. PICK version : version = call[o].item.odds[f]
    OBVIOUS
  <2>2. Covered(f, version)'
    BY <1>t, <1>1, <2>1 DEF RegistryInv
  <2>3. version = call'[o].item.odds[f]
    BY <2>1
  <2> QED BY <2>2, <2>3
<1>5. /\ worker' = "drop" => \A f \in refs' : index'[f] \subseteq members'
      /\ worker' = "list" /\ Legs[o] \cap refs' # {} => verified'[o] = Null
  BY DEF RegistryInv
<1>6. /\ call'[o].stage \in {"begin", "share", "ask", "put"} => verified'[o] = Null
      /\ told'[o] = "rejected" => verified'[o] = Null \/ call'[o].stage = "check"
  BY DEF RegistryInv
<1> QED BY <1>2, <1>3, <1>4, <1>5, <1>6 DEF RegistryInv

(* A call goes on: what it was answered is covered, and so is what it puts   *)
(* into the registry.                                                        *)
LEMMA CallerKeeps ==
  ASSUME SurebetVerificationAssumption, requests' = 0, Types, WorkerAlone, KeptInv,
         NEW c \in Callers,
         \A f \in Fixtures : \A version : Covered(f, version) => Covered(f, version)',
         \/ Begin(c) \/ Confirm(c) \/ Refuse(c) \/ GiveUp(c) \/ Put(c)
         \/ \E f \in Fixtures : Answer(c, f)
  PROVE  \A o \in Opportunities : RegistryInv(o)'
<1>t. /\ index \in [Fixtures -> SUBSET Opportunities] /\ CallInv(c)
      /\ told \in [Opportunities -> {Null, "confirmed", "rejected", "expired"}]
      /\ verified \in [Opportunities -> Items \cup {Null}]
      /\ \A o \in Opportunities : o \in Callers /\ Legs[o] \subseteq Fixtures
  BY DEF Types, TypeOK, Callers, SurebetVerificationAssumption
<1>0. /\ c \in Opportunities /\ worker = "verify" /\ worker' = "verify" /\ RegistryInv(c)
      /\ \A d \in Callers \ {c} : call'[d] = call[d]
  <2>1. worker' = worker
    BY DEF Begin, Confirm, Refuse, GiveUp, Put, Answer, batch
  <2>2. c \in Opportunities /\ worker = "verify" /\ \A d \in Callers \ {c} : call'[d] = call[d]
    BY CallSteps
  <2> QED BY <2>1, <2>2 DEF KeptInv
<1>1. ASSUME NEW o \in Opportunities \ {c} PROVE RegistryInv(o)'
  <2>1. call'[o] = call[o]
    BY <1>t, <1>0
  <2>2. told'[o] = told[o]
    <3>1. CASE Begin(c) \/ Refuse(c) \/ GiveUp(c)
      <4>1. told' = told \/ told' = [told EXCEPT ![c] = "rejected"]
        BY <3>1, CallSteps
      <4> QED BY <1>t, <4>1
    <3>2. CASE Confirm(c) \/ Put(c) \/ \E f \in Fixtures : Answer(c, f)
      BY <3>2 DEF Confirm, Put, Answer
    <3> QED BY <3>1, <3>2
  <2>3. verified'[o] = verified[o] /\ \A f \in Fixtures : o \in index[f] => o \in index'[f]
    <3>1. CASE Put(c)
      <4>1. /\ verified' = [verified EXCEPT ![c] = call[c].item]
            /\ index' = [f \in Fixtures |-> IF f \in Legs[c] THEN index[f] \cup {c} ELSE index[f]]
        BY <3>1, CallSteps
      <4> QED BY <1>t, <4>1
    <3>2. CASE \/ Begin(c) \/ Confirm(c) \/ Refuse(c) \/ GiveUp(c)
               \/ \E f \in Fixtures : Answer(c, f)
      BY <3>2 DEF Begin, Confirm, Refuse, GiveUp, Answer, registry
    <3> QED BY <3>1, <3>2
  <2>4. RegistryInv(o)
    BY DEF KeptInv
  <2> QED BY <1>0, <2>1, <2>2, <2>3, <2>4, RegistryKept
<1>2. CASE Begin(c) \/ Refuse(c) \/ GiveUp(c)
  <2>1. /\ call[c].stage \in {"begin", "ask", "share", "put"}
        /\ \/ call'[c] = Idle
           \/ call'[c].stage \in {"ask", "share"} /\ DOMAIN call'[c].answers = {}
    BY <1>2, CallSteps
  <2>2. call'[c].stage \notin {"put", "check"}
    BY <2>1 DEF Idle
  <2>3. call'[c].stage = "ask" => DOMAIN call'[c].answers = {}
    BY <2>1 DEF Idle
  <2>4. verified' = verified /\ verified[c] = Null
    <3>1. verified' = verified
      BY <1>2 DEF Begin, Refuse, GiveUp, registry
    <3> QED BY <1>0, <2>1, <3>1 DEF RegistryInv
  <2>5. RegistryInv(c)'
    BY <1>0, <2>2, <2>3, <2>4 DEF RegistryInv
  <2> QED BY <1>1, <2>5
<1>3. CASE Confirm(c)
  <2>1. /\ call[c].stage = "ask" /\ DOMAIN call[c].answers = Legs[c]
        /\ call'[c].stage = "put" /\ call'[c].item.odds = call[c].answers
    BY <1>3, CallSteps
  <2>2. UNCHANGED <<verified, index, told>> /\ verified[c] = Null
    BY <1>0, <1>3, <2>1 DEF Confirm, registry, RegistryInv
  <2>3. \A f \in Legs[c] : Covered(f, call[c].item.odds[f])'
    <3> SUFFICES ASSUME NEW f \in Legs[c] PROVE Covered(f, call[c].item.odds[f])'
      OBVIOUS
    <3>1. PICK version : version = call[c].answers[f]
      OBVIOUS
    <3>2. f \in Fixtures /\ Covered(f, version)
      BY <1>t, <1>0, <2>1, <3>1 DEF RegistryInv
    <3>3. Covered(f, version)'
      BY <3>2
    <3>4. version = call'[c].item.odds[f]
      BY <2>1, <3>1
    <3> QED BY <3>3, <3>4
  <2>4. RegistryInv(c)'
    BY <1>0, <2>1, <2>2, <2>3 DEF RegistryInv
  <2> QED BY <1>1, <2>4
<1>4. CASE Put(c)
  <2>1. /\ call[c].stage = "put" /\ call'[c].stage = "check" /\ call'[c].item = call[c].item
        /\ verified' = [verified EXCEPT ![c] = call[c].item]
        /\ index' = [f \in Fixtures |-> IF f \in Legs[c] THEN index[f] \cup {c} ELSE index[f]]
    BY <1>4, CallSteps
  <2>2. verified'[c] = call[c].item
    BY <1>t, <1>0, <2>1
  <2>3. ASSUME NEW f \in Legs[c]
        PROVE  /\ c \in index'[f] /\ Covered(f, call[c].item.odds[f])'
               /\ Covered(f, verified[c].odds[f])'
    <3>1. PICK version : version = call[c].item.odds[f]
      OBVIOUS
    <3>2. f \in Fixtures /\ Covered(f, version)
      BY <1>t, <1>0, <2>1, <2>3, <3>1 DEF RegistryInv
    <3>3. Covered(f, version)'
      BY <3>2
    <3>4. version = call'[c].item.odds[f] /\ version = verified'[c].odds[f]
      BY <2>1, <2>2, <3>1
    <3> QED BY <2>1, <3>2, <3>3, <3>4
  <2>4. RegistryInv(c)'
    BY <1>0, <2>1, <2>3 DEF RegistryInv
  <2> QED BY <1>1, <2>4
<1>5. ASSUME NEW f \in Fixtures, Answer(c, f) PROVE RegistryInv(c)'
  <2>1. /\ call[c].stage = "ask" /\ call'[c].stage = "ask"
        /\ call'[c].answers = [g \in DOMAIN call[c].answers \cup {f} |->
                                 IF g = f THEN source[f] ELSE call[c].answers[g]]
    BY <1>5, CallSteps
  <2>2. UNCHANGED <<verified, index, told, source>> /\ verified[c] = Null
    BY <1>0, <1>5, <2>1 DEF Answer, registry, quotes, RegistryInv
  <2>3. ASSUME NEW g \in DOMAIN call'[c].answers PROVE Covered(g, call[c].answers[g])'
    <3>1. CASE g = f
      <4>1. PICK version : version = source[f]
        OBVIOUS
      <4>2. Covered(f, version)
        BY <4>1 DEF Covered
      <4>3. Covered(f, version)'
        BY <4>2
      <4>4. version = call'[c].answers[g]
        BY <2>1, <2>3, <3>1, <4>1
      <4> QED BY <3>1, <4>3, <4>4
    <3>2. CASE g # f
      <4>1. PICK version : version = call[c].answers[g]
        OBVIOUS
      <4>2. g \in DOMAIN call[c].answers /\ version = call'[c].answers[g]
        BY <2>1, <2>3, <3>2, <4>1
      <4>3. g \in Fixtures /\ Covered(g, version)
        BY <1>t, <1>0, <2>1, <4>1, <4>2 DEF RegistryInv, CallInv, Callers
      <4>4. Covered(g, version)'
        BY <4>3
      <4> QED BY <4>2, <4>4
    <3> QED BY <3>1, <3>2
  <2> QED BY <1>0, <2>1, <2>2, <2>3 DEF RegistryInv
<1> QED BY <1>1, <1>2, <1>3, <1>4, <1>5

(* Nothing of this is broken by a step of anybody.                           *)
LEMMA KeptKept ==
  ASSUME SurebetVerificationAssumption, requests' = 0, failures \in Nat, failures' = 0,
         Types, WorkerAlone, KeptInv,
         [Next]_vars
  PROVE  KeptInv'
<1>1. \A f \in Fixtures : stored'[f] <= source'[f]
  BY StoredKept DEF KeptInv
<1>2. \A f \in Fixtures : \A version : Covered(f, version) /\ (DropItems => f \notin refs) =>
        Covered(f, version)'
  BY CoveredKept DEF KeptInv
<1>3. ASSUME ~DropItems
      PROVE  \A f \in Fixtures : \A version : Covered(f, version) => Covered(f, version)'
  BY <1>2, <1>3
<1>t. /\ told \in [Opportunities -> {Null, "confirmed", "rejected", "expired"}]
      /\ index \in [Fixtures -> SUBSET Opportunities] /\ timers \subseteq Timers
      /\ verified \in [Opportunities -> Items \cup {Null}] /\ call \in [Callers -> Calls]
      /\ \A o \in Opportunities : o \in Callers /\ RegistryInv(o)
      /\ refs \subseteq Fixtures
  BY DEF Types, TypeOK, KeptInv, Callers
<1>4. CASE \E c \in Callers : \/ Begin(c) \/ Confirm(c) \/ Refuse(c) \/ GiveUp(c) \/ Put(c)
                              \/ \E f \in Fixtures : Answer(c, f)
  <2>1. PICK c \in Callers : \/ Begin(c) \/ Confirm(c) \/ Refuse(c) \/ GiveUp(c) \/ Put(c)
                             \/ \E f \in Fixtures : Answer(c, f)
    BY <1>4
  <2>2. worker = "verify"
    BY <2>1, CallSteps
  <2>3. \A f \in Fixtures : \A version : Covered(f, version) => Covered(f, version)'
    BY <1>3, <2>2 DEF DropItems
  <2>4. \A o \in Opportunities : RegistryInv(o)'
    BY <2>1, <2>3, CallerKeeps
  <2> QED BY <1>1, <2>4 DEF KeptInv
<1>5. CASE DropItems \/ ListCandidates
  BY <1>1, <1>2, <1>5, BatchKeeps DEF KeptInv
<1>6. ASSUME NEW p \in Opportunities, Check(p) PROVE KeptInv'
  <2>1. /\ call[p].stage = "check" /\ call' = [call EXCEPT ![p] = Idle]
        /\ worker' = worker /\ index' = index
        /\ \/ verified' = verified /\ told' = [told EXCEPT ![p] = "confirmed"]
           \/ verified' = [verified EXCEPT ![p] = Null] /\ told' = [told EXCEPT ![p] = "rejected"]
    BY <1>6 DEF Check, Publish, Withdraw, batch
  <2>2. worker = "verify"
    BY <1>t, <2>1, OnlyTheWorker
  <2>3. \A f \in Fixtures : \A version : Covered(f, version) => Covered(f, version)'
    BY <1>3, <2>2 DEF DropItems
  <2>4. ASSUME NEW o \in Opportunities \ {p} PROVE RegistryInv(o)'
    <3>1. verified'[o] = verified[o] /\ call'[o] = call[o] /\ told'[o] = told[o]
      BY <1>t, <2>1
    <3> QED BY <1>t, <2>1, <2>2, <2>3, <3>1, RegistryKept
  <2>5. RegistryInv(p)'
    <3>1. /\ call'[p].stage = "idle"
          /\ \/ verified' = verified /\ told'[p] = "confirmed"
             \/ verified'[p] = Null
      BY <1>t, <2>1 DEF Idle
    <3>2. verified'[p] # Null =>
            \A f \in Legs[p] : p \in index'[f] /\ Covered(f, verified[p].odds[f])'
      <4> SUFFICES ASSUME verified'[p] # Null, NEW f \in Legs[p]
                   PROVE  p \in index'[f] /\ Covered(f, verified[p].odds[f])'
        OBVIOUS
      <4>1. PICK version : version = verified[p].odds[f]
        OBVIOUS
      <4>2. f \in Fixtures /\ p \in index[f] /\ Covered(f, version)
        BY <1>t, <3>1, <4>1 DEF RegistryInv, SurebetVerificationAssumption
      <4>3. Covered(f, version)'
        BY <2>3, <4>2
      <4>4. version = verified'[p].odds[f]
        BY <3>1, <4>1
      <4> QED BY <2>1, <4>2, <4>3, <4>4
    <3> QED BY <2>1, <2>2, <3>1, <3>2 DEF RegistryInv
  <2> QED BY <1>1, <2>4, <2>5 DEF KeptInv
<1>7. ASSUME UNCHANGED <<call, verified>>,
             \A o \in Opportunities : told'[o] = told[o] \/ told'[o] # "rejected",
             index' = index, ~DropItems,
             worker' \notin {"drop", "list"} \/ UNCHANGED <<worker, refs, members>>
      PROVE  KeptInv'
  <2>1. \A f \in Fixtures : \A version : Covered(f, version) => Covered(f, version)'
    BY <1>3, <1>7
  <2>2. ASSUME NEW o \in Opportunities PROVE RegistryInv(o)'
    BY <1>t, <1>7, <2>1, RegistryKept
  <2> QED BY <1>1, <2>2 DEF KeptInv
<1>8. CASE \E f \in Fixtures : ChangeQuote(f) \/ Ingest(f) \/ Trigger(f)
  <2>1. UNCHANGED <<call, verified, told, index, worker, refs, members>>
    BY <1>8 DEF ChangeQuote, Ingest, Trigger, registry, batch
  <2> QED BY <1>5, <1>7, <2>1
<1>9. CASE TakePending \/ FinishBatch
  <2>1. UNCHANGED <<call, verified, told, index>> /\ worker' \in {"idle", "invalidate"}
    BY <1>9 DEF TakePending, FinishBatch, registry
  <2> QED BY <1>5, <1>7, <2>1
<1>10. CASE Elapse \/ UNCHANGED vars \/ \E t \in timers : TimerLooks(t) \/ TimerTells(t)
  <2>1. UNCHANGED <<call, verified, index, worker, refs, members>>
    BY <1>10 DEF Elapse, vars, TimerLooks, TimerTells, registry, batch
  <2>2. \A o \in Opportunities : told'[o] = told[o] \/ told'[o] = "expired"
    BY <1>t, <1>10 DEF Elapse, vars, TimerLooks, TimerTells
  <2> QED BY <1>5, <1>7, <2>1, <2>2
<1>11. CASE ReadIndex
  <2>1. /\ UNCHANGED <<call, verified, told, index, refs>> /\ worker' = "drop" /\ ~DropItems
        /\ members' = UNION {index[f] : f \in refs}
    BY <1>11 DEF ReadIndex, DropItems, registry
  <2>2. \A f \in Fixtures : \A version : Covered(f, version) => Covered(f, version)'
    BY <1>3, <2>1
  <2>3. ASSUME NEW o \in Opportunities PROVE RegistryInv(o)'
    <3>1. \A f \in refs' : index'[f] \subseteq members'
      BY <2>1
    <3>2. Legs[o] \subseteq Fixtures /\ call[o].stage = "idle"
      <4>1. worker # "verify"
        BY <1>11 DEF ReadIndex
      <4> QED BY <4>1 DEF WorkerAlone, Idle, SurebetVerificationAssumption
    <3>3. verified'[o] # Null =>
            \A f \in Legs[o] : o \in index'[f] /\ Covered(f, verified[o].odds[f])'
      <4> SUFFICES ASSUME verified[o] # Null, NEW f \in Legs[o]
                   PROVE  o \in index'[f] /\ Covered(f, verified[o].odds[f])'
        BY <2>1
      <4>1. PICK version : version = verified[o].odds[f]
        OBVIOUS
      <4>2. f \in Fixtures /\ o \in index[f] /\ Covered(f, version)
        BY <1>t, <3>2, <4>1 DEF RegistryInv
      <4>3. Covered(f, version)' /\ version = verified'[o].odds[f]
        BY <2>1, <2>2, <4>1, <4>2
      <4> QED BY <2>1, <4>2, <4>3
    <3>4. told'[o] = "rejected" => verified'[o] = Null
      BY <1>t, <2>1, <3>2 DEF RegistryInv
    <3> QED BY <2>1, <3>1, <3>2, <3>3, <3>4 DEF RegistryInv
  <2> QED BY <1>1, <2>3 DEF KeptInv
<1> QED BY <1>4, <1>5, <1>6, <1>8, <1>9, <1>10, <1>11, CallSteps DEF Next

(* What the registry holds is covered while no operator asks and no          *)
(* invalidation fails.                                                       *)
LEMMA KeptHolds ==
  ASSUME SurebetVerificationAssumption
  PROVE  Spec => [](requests = 0 /\ failures = 0 => KeptInv)
<1>1. Init => KeptInv
  <2> SUFFICES ASSUME Init PROVE KeptInv
    OBVIOUS
  <2>1. \A f \in Fixtures : stored[f] <= source[f]
    BY DEF Init
  <2>2. ASSUME NEW o \in Opportunities PROVE RegistryInv(o)
    <3>1. /\ call[o].stage = "idle" /\ verified[o] = Null /\ worker = "idle"
          /\ told[o] = Null
      BY DEF Init, Idle, Callers
    <3> QED BY <3>1 DEF RegistryInv
  <2> QED BY <2>1, <2>2 DEF KeptInv
<1>2. /\ Types /\ failures \in Nat /\ (requests = 0 => ToldInv)
      /\ (requests = 0 /\ failures = 0 => KeptInv)
      /\ [Next]_vars
      => (requests = 0 /\ failures = 0 => KeptInv)'
  BY KeptKept, TroublesStay DEF ToldInv
<1> QED BY <1>1, <1>2, TypesHold, FailuresCounted, ToldHolds, PTL DEF Spec

(* While no operator asks and no invalidation fails, the registry at rest    *)
(* holds only opportunities confirmed at the quotes of the odds store,       *)
(* whatever changed while they were being confirmed.                         *)
THEOREM StaleConfirmationsLeave ==
  ASSUME SurebetVerificationAssumption
  PROVE  Spec => []StaleIsRemoved
<1>1. Types /\ (requests = 0 /\ failures = 0 => KeptInv) => StaleIsRemoved
  <2> SUFFICES ASSUME Types, KeptInv, AtRest, NEW o \in DOMAIN verified, Live(o)
               PROVE  verified[o].odds = Current(o)
    BY DEF StaleIsRemoved
  <2>0. o \in Opportunities
    BY DEF Types
  <2>1. /\ ItemOf(o, verified[o]) /\ Legs[o] \subseteq Fixtures /\ RegistryInv(o)
        /\ verified[o] # Null
    BY <2>0 DEF Types, KeptInv, Live, SurebetVerificationAssumption
  <2>2. PICK odds : odds = verified[o].odds
    OBVIOUS
  <2>3. PICK S \in SUBSET Fixtures : odds \in [S -> Versions]
    BY <2>1, <2>2 DEF ItemOf, Items, Odds
  <2>4. S = Legs[o]
    BY <2>1, <2>2, <2>3 DEF ItemOf
  <2>5. \A f \in Legs[o] : odds[f] = stored[f]
    BY <2>1, <2>2 DEF RegistryInv, Covered, AtRest
  <2>6. odds = [f \in Legs[o] |-> stored[f]]
    BY <2>3, <2>4, <2>5
  <2> QED BY <2>2, <2>6 DEF Current
<1> QED BY <1>1, KeptHolds, TypesHold, PTL

(* While no operator asks, an opportunity the frontend was told is confirmed *)
(* is at rest in the registry, or a timer is about to tell of its end - also *)
(* when the registry fails to invalidate; and while it does not fail, what   *)
(* the frontend was told is rejected is not in the registry.                 *)
THEOREM ConfirmationsAreTrue ==
  ASSUME SurebetVerificationAssumption
  PROVE  Spec => []ConfirmedIsTrue
<1>1. ASSUME Types, requests = 0 => ToldInv, requests = 0 /\ failures = 0 => KeptInv
      PROVE  ConfirmedIsTrue
  <2> SUFFICES ASSUME AtRest, requests = 0, NEW o \in DOMAIN told
               PROVE  /\ told[o] = "confirmed" => Live(o) \/ \E t \in timers : t.opp = o
                      /\ told[o] = "rejected" /\ failures = 0 => ~Live(o)
    BY DEF ConfirmedIsTrue
  <2>1. o \in Opportunities /\ call[o] = Idle
    BY <1>1 DEF Types, TypeOK, ToldInv, WorkerAlone, AtRest
  <2>2. call[o].stage # "check"
    BY <2>1 DEF Idle
  <2>3. told[o] = "rejected" /\ failures = 0 => ~Live(o)
    BY <1>1, <2>1, <2>2 DEF KeptInv, RegistryInv, Live
  <2> QED BY <1>1, <2>1, <2>2, <2>3 DEF ToldInv, TimerInv
<1> QED BY <1>1, TypesHold, ToldHolds, KeptHolds, PTL
=============================================================================
