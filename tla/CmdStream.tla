------------------------------ MODULE CmdStream ------------------------------
(* The Jun88 CMD collector (jun88-cmd-runtime.ts).  An observer injected in  *)
(* the bookmaker's page emits every row that changed and came to rest; the   *)
(* node side seeds it from a first read and, every reconcile interval, reads *)
(* the page again to repair what the observer missed.                        *)
(*                                                                           *)
(* A row is a fixture; what it shows is a function from outcomes to prices.  *)
(* Fingerprint and parse of a row are both that function.  Model values:     *)
(* Gone, for a row that is not in the page or a key that is not in a map.    *)
EXTENDS Integers, SequencesExt

CONSTANTS
  Rows, Contents, Gone,
  MaxChanges,       \* bound: row changes in a behaviour
  MaxReloads,       \* bound: reloads of the frame, which lose the observer
  GapChanges,       \* rows may change between the first read and the install
  Reconciles,       \* the reconcile loop runs
  Returns,          \* a row may return to contents still remembered
  Overtakes,        \* a row may come to rest while a reconcile reads
  Deadlines         \* a reconcile read may reach its deadline unsettled

Nothing == <<>>     \* a row without selections
NoRevision == -1

CmdStreamAssumption ==
  /\ Gone \notin Contents
  /\ MaxChanges \in Nat /\ MaxReloads \in Nat
  /\ {GapChanges, Reconciles, Returns, Overtakes, Deadlines} \subseteq BOOLEAN

VARIABLES
  dom,        \* what each row of the page shows
  tick,       \* an upstream response was rendered and not yet observed
  changes, reloads,
  obs,        \* window.__surebet_cmd_stream__
  sent,       \* the batch of the delta binding in flight
  call,       \* that call: none, made by the page, or arrived at the node
  observing,  \* the observation in flight: what its rows showed, or Gone
  map,        \* activeSnapshotMap
  sink,       \* the sink's latest selections
  cache,      \* cmdStableFingerprintByTarget
  loop        \* the stream coroutine and its locals

page == <<dom, tick, changes, reloads>>
calls == <<sent, call, observing>>
node == <<map, sink, cache, loop>>
vars == <<page, obs, calls, node>>

Parsed(d) == IF d = Gone THEN Nothing ELSE d
Each(value) == [r \in Rows |-> value]
Without(f, S) == [o \in DOMAIN f \ S |-> f[o]]
Over(f, g) == [o \in DOMAIN f \cup DOMAIN g |-> IF o \in DOMAIN f THEN f[o] ELSE g[o]]

(* Wrong: the outcomes a row lost are forgotten.                             *)
BatchUpserts(r, current, previous) ==
  [row |-> r, upserts |-> current, removes |-> {}]

(* One batch of a row: every outcome it shows, and those it lost.            *)
Batch(r, current, previous) ==
  [row |-> r, upserts |-> current, removes |-> DOMAIN previous \ DOMAIN current]

ApplyDelta(s, d) == [s EXCEPT ![d.row] = Over(d.upserts, Without(@, d.removes))]
ApplyDeltas(s, ds) == FoldLeft(ApplyDelta, s, ds)

-----------------------------------------------------------------------------
(* The observer in the page.                                                 *)

Resting == [phase |-> "idle", first |-> Gone]
Armed == [phase |-> "armed", first |-> Gone]

(* fingerprintRows: identity, prices and availability of a row.              *)
RowFingerprint(r) == dom[r]

(* scheduleStableRow: a row that already settles is left alone.              *)
Scheduled(timers, S) ==
  [r \in Rows |-> IF r \in S /\ timers[r] = Resting THEN Armed ELSE timers[r]]

NoObserver ==
  [on |-> FALSE, fps |-> Each(Gone), byRow |-> Each(Gone), seen |-> Each(Nothing),
   revision |-> 0, timers |-> Each(Resting), queue |-> <<>>]

(* installCmdObserver: rows with a seeded outcome are taken as they are now, *)
(* without emission; the others settle and are emitted.                      *)
Observer(seed) ==
  LET shown == {r \in Rows : dom[r] # Gone}
      seeded == {r \in shown : DOMAIN dom[r] \cap DOMAIN seed[r] # {}}
  IN [on |-> TRUE,
      fps |-> [r \in Rows |-> IF r \in seeded THEN dom[r] ELSE Gone],
      byRow |-> [r \in Rows |-> IF r \in seeded THEN dom[r]
                                ELSE IF r \in shown THEN Nothing ELSE obs.byRow[r]],
      seen |-> seed,
      revision |-> Cardinality(seeded),
      timers |-> Scheduled(Each(Resting), shown \ seeded),
      queue |-> obs.queue]

(* syncRow with emit: the row came to rest.                                  *)
SyncRow(r) ==
  LET current == dom[r]
      previous == Parsed(obs.byRow[r])
      known == obs.seen[r]
      changed == \/ \E o \in DOMAIN current : o \notin DOMAIN known \/ known[o] # current[o]
                 \/ DOMAIN previous \ DOMAIN current # {}
  IN IF obs.fps[r] = RowFingerprint(r) THEN obs
     ELSE [obs EXCEPT
       !.revision = @ + 1,
       !.fps[r] = RowFingerprint(r),
       !.byRow[r] = current,
       !.seen[r] = IF changed THEN Over(current, Without(@, DOMAIN previous)) ELSE @,
       !.queue = IF changed THEN Append(@, Batch(r, current, previous)) ELSE @]

(* The row left the page.                                                    *)
RemoveRow(r) ==
  LET previous == Parsed(obs.byRow[r]) IN
  [obs EXCEPT
    !.revision = @ + 1,
    !.fps[r] = Gone,
    !.byRow[r] = Gone,
    !.seen[r] = Without(@, DOMAIN previous),
    !.queue = IF previous = Nothing THEN @ ELSE Append(@, Batch(r, Nothing, previous))]

(* emitQueue: the whole queue, unless a batch is in flight.                  *)
Emit(o) ==
  IF call = "none" /\ o.queue # <<>>
  THEN sent' = o.queue /\ call' = "made" /\ obs' = [o EXCEPT !.queue = <<>>]
  ELSE obs' = o /\ UNCHANGED <<sent, call>>

FirstRead(r) ==
  /\ obs.timers[r] = Armed
  /\ obs' = [obs EXCEPT !.timers[r] = [phase |-> "read", first |-> RowFingerprint(r)]]
  /\ UNCHANGED <<page, calls, node>>

(* 50 ms later: at rest, once more, or given up after 500 ms.                *)
SecondRead(r) ==
  /\ obs.timers[r].phase = "read"
  /\ Overtakes \/ loop.pc \in {"install", "loop"}
  /\ IF obs.timers[r].first = RowFingerprint(r)
     THEN LET synced == IF dom[r] = Gone THEN RemoveRow(r) ELSE SyncRow(r)
          IN Emit([synced EXCEPT !.timers[r] = Resting])
     ELSE /\ \E timer \in {Armed, Resting} : obs' = [obs EXCEPT !.timers[r] = timer]
          /\ UNCHANGED <<sent, call>>
  /\ UNCHANGED <<page, observing, node>>

(* Wrong: the scan looks only at the rows that are in the page.              *)
StaleShown == {r \in Rows : dom[r] # Gone /\ obs.fps[r] # RowFingerprint(r)}

(* What scanRows reschedules.                                                *)
Stale ==
  {r \in Rows : dom[r] # Gone /\ obs.fps[r] # RowFingerprint(r)}
    \cup {r \in Rows : dom[r] = Gone /\ obs.byRow[r] # Gone}

(* Wrong: rows that still settle are observed too.                           *)
ScanUnsettled ==
  LET observed == {r \in Rows : dom[r] # Gone /\ obs.byRow[r] \notin {Gone, Nothing}}
  IN /\ obs.on /\ tick /\ observing = Gone
     /\ tick' = FALSE
     /\ observing' = [r \in observed |-> dom[r]]
     /\ UNCHANGED <<dom, changes, reloads, obs, sent, call, node>>

(* scanRows: reschedules what the mutation observer missed and, once all is  *)
(* quiet after an upstream response, observes the rows that have selections. *)
Scan ==
  LET timers == Scheduled(obs.timers, Stale)
      quiet == timers = Each(Resting) /\ obs.queue = <<>> /\ call = "none" /\ observing = Gone
      observed == {r \in Rows : dom[r] # Gone /\ obs.byRow[r] \notin {Gone, Nothing}}
  IN /\ obs.on
     /\ obs' = [obs EXCEPT !.timers = timers]
     /\ IF tick /\ quiet
        THEN /\ tick' = FALSE
             /\ observing' = [r \in observed |-> dom[r]]
        ELSE UNCHANGED <<tick, observing>>
     /\ UNCHANGED <<dom, changes, reloads, sent, call, node>>

-----------------------------------------------------------------------------
(* The page.                                                                 *)

(* The fingerprints of the row that the observer and the reconcile keep.     *)
Remembered(r) ==
  {obs.fps[r], cache.fp[r]} \cup (IF loop.prevFp = Gone THEN {} ELSE {loop.prevFp[r]})

(* A row changes, appears or leaves; the mutation observer may miss it.      *)
(* What happens before the first read is in Init.                            *)
Change(r) ==
  /\ changes < MaxChanges /\ loop.pc # "read"
  /\ loop.pc = "install" => GapChanges
  /\ \E content \in Contents \cup {Gone} :
       /\ content # dom[r] /\ (Returns \/ content \notin Remembered(r))
       /\ dom' = [dom EXCEPT ![r] = content]
  /\ changes' = changes + 1
  /\ \E S \in {{}, {r}} :
       obs' = [obs EXCEPT !.timers = Scheduled(@, IF obs.on THEN S ELSE {})]
  /\ UNCHANGED <<tick, reloads, calls, node>>

Upstream ==
  /\ obs.on /\ ~tick
  /\ tick' = TRUE
  /\ UNCHANGED <<dom, changes, reloads, obs, calls, node>>

(* The frame loads anew: the observer and all it knew are lost.              *)
Reload ==
  /\ obs.on /\ reloads < MaxReloads
  /\ reloads' = reloads + 1
  /\ obs' = NoObserver
  /\ tick' = FALSE
  /\ UNCHANGED <<dom, changes, calls, node>>

-----------------------------------------------------------------------------
(* The bindings: calls reach the node in the order they were made.           *)

Deliver ==
  /\ call = "made" /\ observing = Gone
  /\ call' = "arrived" /\ sent' = <<>>
  /\ map' = ApplyDeltas(map, sent)
  /\ sink' = ApplyDeltas(sink, sent)
  /\ UNCHANGED <<page, obs, observing, cache, loop>>

(* The sink took the batch: the page may make the next call.                 *)
Resolve ==
  /\ call = "arrived"
  /\ IF obs.queue # <<>> THEN call' = "made" /\ sent' = obs.queue
     ELSE call' = "none" /\ UNCHANGED sent
  /\ obs' = [obs EXCEPT !.queue = <<>>]
  /\ UNCHANGED <<page, observing, node>>

ObservationArrives ==
  /\ observing # Gone
  /\ observing' = Gone
  /\ UNCHANGED <<page, obs, sent, call, node>>

-----------------------------------------------------------------------------
(* The stream coroutine.                                                     *)

(* An answer of the page comes after the batches the page emitted before it. *)
Answered == call # "made"

Idle == [pc |-> "loop", prevFp |-> Gone, prev |-> Gone, best |-> Gone, deltas |-> <<>>]

(* readStableCmdSnapshot, bootstrap: the rows that were at rest.             *)
BootstrapRead ==
  /\ loop.pc = "read"
  /\ \E S \in SUBSET Rows :
       /\ map' = [r \in Rows |-> IF r \in S THEN Parsed(dom[r]) ELSE Nothing]
       /\ map' # Each(Nothing)
  /\ cache' = [fp |-> dom, revision |-> NoRevision]
  /\ loop' = [loop EXCEPT !.pc = "install"]
  /\ UNCHANGED <<page, obs, calls, sink>>

(* The observer is seeded and the bootstrap pushed before its first batch.   *)
Install ==
  /\ loop.pc = "install"
  /\ obs' = Observer(map)
  /\ sink' = map
  /\ loop' = Idle
  /\ UNCHANGED <<page, calls, map, cache>>

Healthy == obs.on

(* The health check finds the observer lost and installs it without a seed.  *)
Reinstall ==
  /\ loop.pc = "loop" /\ ~Healthy /\ Answered
  /\ obs' = Observer(Each(Nothing))
  /\ UNCHANGED <<page, calls, node>>

(* Wrong: the cache is trusted even when no observer keeps a revision.       *)
FingerprintCached == cache.fp

(* readFingerprint: an unchanged observer revision stands for the page.      *)
Revision == IF obs.on THEN obs.revision ELSE NoRevision
Fingerprint ==
  IF Revision # NoRevision /\ cache.revision = Revision THEN cache.fp ELSE dom

Cached == [fp |-> Fingerprint, revision |-> Revision]

StartReconcile ==
  /\ Reconciles /\ loop.pc = "loop"
  /\ Overtakes \/ (obs.queue = <<>> /\ call # "made")
  /\ loop' = [Idle EXCEPT !.pc = "read again", !.prevFp = cache.fp, !.prev = map]
  /\ UNCHANGED <<page, obs, calls, map, sink, cache>>

ReadAgain ==
  /\ loop.pc = "read again" /\ Answered
  /\ cache' = Cached
  /\ loop' = [loop EXCEPT !.pc = "attempt"]
  /\ UNCHANGED <<page, obs, calls, map, sink>>

(* mergeCmdIncrementalSnapshot: rows whose fingerprint changed and rows      *)
(* without selections are parsed, the others are kept.                       *)
Merged ==
  [r \in Rows |->
    IF Fingerprint[r] = Gone THEN Nothing
    ELSE IF loop.prevFp[r] # Fingerprint[r] \/ loop.prev[r] = Nothing THEN Parsed(dom[r])
    ELSE loop.prev[r]]

(* selectStableCmdSnapshotFixtures                                           *)
StableRows(previous, current) ==
  [r \in Rows |-> IF previous[r] = current[r] THEN current[r] ELSE Nothing]

(* buildCmdReconcileDeltas, for the fixtures the read has: vanished ones are *)
(* left to the observer.                                                     *)
Repairs(read) ==
  LET changed == {r \in Rows : read[r] # Nothing /\ read[r] # map[r]}
  IN SetToSeq({Batch(r, read[r], map[r]) : r \in changed})

(* One turn of the read: the page is at rest, or the next turn compares with *)
(* this one, or the deadline takes the rows that were stable last.           *)
Attempt ==
  LET best == IF StableRows(loop.prev, Merged) = Each(Nothing) THEN loop.best
              ELSE StableRows(loop.prev, Merged)
  IN /\ loop.pc = "attempt" /\ Answered
     /\ cache' = Cached
     /\ IF loop.prevFp = Fingerprint
        THEN loop' = IF Merged = Each(Nothing) THEN Idle
                     ELSE [loop EXCEPT !.pc = "finish", !.best = Merged]
        ELSE \/ loop' = [loop EXCEPT !.prev = Merged, !.prevFp = Fingerprint, !.best = best]
             \/ /\ Deadlines
                /\ loop' = IF best = Gone THEN Idle
                           ELSE [loop EXCEPT !.pc = "finish", !.best = best]
     /\ UNCHANGED <<page, obs, calls, map, sink>>

(* The read is compared with the map as it is by now.                        *)
PushRepairs ==
  /\ loop.pc = "finish" /\ Answered
  /\ sink' = ApplyDeltas(sink, Repairs(loop.best))
  /\ loop' = [Idle EXCEPT !.pc = "apply", !.deltas = Repairs(loop.best)]
  /\ UNCHANGED <<page, obs, calls, map, cache>>

(* After the push was awaited.                                               *)
ApplyRepairs ==
  /\ loop.pc = "apply"
  /\ map' = ApplyDeltas(map, loop.deltas)
  /\ loop' = Idle
  /\ UNCHANGED <<page, obs, calls, sink, cache>>

-----------------------------------------------------------------------------
(* A first read without selections throws, and the stream starts over.       *)
Init ==
  /\ dom \in [Rows -> Contents \cup {Gone}]
  /\ \E r \in Rows : Parsed(dom[r]) # Nothing
  /\ tick = FALSE /\ changes = 0 /\ reloads = 0
  /\ obs = NoObserver
  /\ sent = <<>> /\ call = "none" /\ observing = Gone
  /\ map = Each(Nothing) /\ sink = Each(Nothing)
  /\ cache = [fp |-> Each(Gone), revision |-> NoRevision]
  /\ loop = [Idle EXCEPT !.pc = "read"]

Node ==
  BootstrapRead \/ Install \/ Reinstall \/ StartReconcile \/ ReadAgain \/ Attempt \/ PushRepairs \/ ApplyRepairs

Next ==
  \/ \E r \in Rows : Change(r) \/ FirstRead(r) \/ SecondRead(r)
  \/ Upstream \/ Reload \/ Scan \/ Deliver \/ Resolve \/ ObservationArrives
  \/ Node

Spec == Init /\ [][Next]_vars

-----------------------------------------------------------------------------
Outcomes == UNION {DOMAIN c : c \in Contents}
Prices == UNION {{c[o] : o \in DOMAIN c} : c \in Contents}
Selections == UNION {[S -> Prices] : S \in SUBSET Outcomes}

(* The observer's bookkeeping is of the expected shape: at most one batch    *)
(* and one observation in flight, and a row that settles has a timer.        *)
TypeOK ==
  /\ dom \in [Rows -> Contents \cup {Gone}]
  /\ map \in [Rows -> Selections] /\ sink \in [Rows -> Selections]
  /\ obs.byRow \in [Rows -> Contents \cup {Gone, Nothing}]
  /\ obs.fps \in [Rows -> Contents \cup {Gone}]
  /\ obs.seen \in [Rows -> Selections]
  /\ obs.revision \in Nat
  /\ obs.queue # <<>> => call # "none"
  /\ sent # <<>> <=> call = "made"
  /\ \A r \in Rows : obs.timers[r].phase = "idle" => obs.timers[r] = Resting
  /\ loop.pc \in {"read", "install", "loop", "read again", "attempt", "finish", "apply"}

(* A consumer never sees one new leg of a fixture with an older sibling: the *)
(* sink holds each fixture as the page once showed it, whole.                *)
(* (jun88-cmd-runtime.ts:747)                                                *)
RowsAreAtomic == \A r \in Rows : sink[r] \in Contents \cup {Nothing}

(* readCmdConfirmedSelection: what a quote confirmation answers for a row.   *)
Confirmed(r) == IF dom[r] = Gone THEN Nothing ELSE Parsed(obs.byRow[r])

(* Between batches a quote confirmation and the stream tell one price.       *)
ConfirmationAgrees ==
  (obs.on /\ loop.pc # "install" /\ sent = <<>> /\ obs.queue = <<>>) =>
    \A r \in Rows : Confirmed(r) # Nothing => sink[r] = Confirmed(r)

(* An observation renews the age of the fixtures it names; when it arrives,  *)
(* the sink holds what those rows showed, never an older price.              *)
ObservationIsTrue ==
  [][observing # Gone /\ observing' = Gone =>
       \A r \in DOMAIN observing : sink[r] = observing[r]]_vars
==============================================================================
