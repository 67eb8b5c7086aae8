------------------------------ MODULE BetStore ------------------------------
(***************************************************************************)
(* The durable rows of live betting (gormstore: bet_actions, bet_attempts, *)
(* bet_exposures) and the optimistic concurrency every writer goes         *)
(* through.  A writer works on a snapshot of each row and saves it with    *)
(* UpdateCAS, which succeeds only when the row's version is still the one  *)
(* of the snapshot.                                                        *)
(*                                                                         *)
(* Versions only grow and are only compared, so a thread keeps, instead of *)
(* a number, how far its snapshot is behind: lag for the action row (0     *)
(* current, 1 one write behind, 2 further), expoStale and attStale for the *)
(* other two.  The lag distinguishes 1 from 2 because CommitJun88Ticket's  *)
(* callers increment their own copy of the version when the exposure is    *)
(* already there.                                                          *)
(***************************************************************************)
EXTENDS BetLifecycle, Naturals, FiniteSets, Sequences

CONSTANTS
  Actions,          \* live actions, all of the configured account
  Roles,            \* kinds of thread that work on an action
  MaxCommits,       \* bound on the number of a commit attempt per bookmaker
  MaxReprices,      \* cfg.MaxJun88Reprices (at most 3)
  MaxHedgeRounds,   \* MaxJunRepriceRevisions, the hedge loop's bound (3)
  MaxOpenExposures, \* cfg.MaxOpenExposures
  CommitEnabled,    \* cfg.CommitEnabled
  CommitResults,    \* what the bookmakers may answer a commit
  Overtake,         \* may reconcile_bet overtake a commit not yet written
  ReconcileExpires, \* may a collector find a reconcile_bet expired that is still awaited
  Restarting,       \* bookmakers whose collector process may restart
  MaxInbox,         \* bound on the commands queued at a collector
  MaxFaults         \* bound on crashes, restarts and database errors

ASSUME RolesAssumption == Roles \subseteq {"exec", "hedge", "loop", "manual", "operate"}
ASSUME BoundsAssumption ==
  /\ {MaxCommits, MaxReprices, MaxHedgeRounds, MaxOpenExposures, MaxInbox, MaxFaults}
       \subseteq Nat
  /\ MaxReprices < MaxCommits
  /\ MaxHedgeRounds < MaxCommits
ASSUME FlagsAssumption ==
  /\ CommitEnabled \in BOOLEAN
  /\ Overtake \in BOOLEAN
  /\ ReconcileExpires \in BOOLEAN
  /\ CommitResults \subseteq Results
  /\ Restarting \subseteq Bookmakers

VARIABLES
  action,    \* bet_actions: status, reservation, exposure_id
  attempt,   \* bet_attempts of phase commit, by action and <<bookmaker, number>>
  expo,      \* bet_exposures, at most one per action
  thr,       \* the goroutines: control point, snapshots, pending answer
  inbox,     \* commands written to a collector's socket, not yet handled
  journal,   \* ProcessLiveBetJournal of the collector processes
  tickets,   \* what the bookmakers really hold
  faults     \* faults that happened

rows == <<action, attempt, expo>>
wire == <<inbox, journal, tickets>>
vars == <<action, attempt, expo, thr, inbox, journal, tickets, faults>>

Threads == Roles \X Actions
Keys == Bookmakers \X (1 .. MaxCommits)
NoKey == <<"none", 0>>
ActionRow == <<"action", 0>>
ExposureRow == <<"exposure", 0>>

Role(t) == t[1]
Subject(t) == t[2]

(* link is exposure_id: "own" names the exposure of the action, "lost" an  *)
(* identifier under which no exposure exists.                              *)
NoAction == [st |-> "none", resv |-> "none", held |-> FALSE, link |-> "none"]
NoAttempt == [st |-> "none", res |-> "none"]
NoExposure == [st |-> "none", leased |-> FALSE, jun |-> 0, hedge |-> 0]

Idle == [pc |-> "idle", key |-> NoKey, round |-> 0, lag |-> 0, link |-> "none",
         expoStale |-> FALSE, attStale |-> FALSE, rsp |-> "none"]

At(t, p) == thr[t].pc = p
KeyOf(t) == thr[t].key

-----------------------------------------------------------------------------
(* Control.  A hedge thread that returns runs its deferred ReleaseLease.   *)
(* An answer is used by the step that receives it only.                    *)

Returned(t) == IF Role(t) = "hedge" THEN [Idle EXCEPT !.pc = "unlease"] ELSE Idle

Goto(t, p) ==
  IF p = "return" THEN Returned(t) ELSE [thr[t] EXCEPT !.pc = p, !.rsp = "none"]

(* What a write to some rows of an action does to another thread's view.   *)
Outdated(r, written) ==
  [r EXCEPT !.lag = IF ActionRow \in written /\ @ < 2 THEN @ + 1 ELSE @,
            !.expoStale = IF ExposureRow \in written THEN TRUE ELSE @,
            !.attStale = IF r.key \in written THEN TRUE ELSE @]

(* Thread t becomes self, having written those rows of its action.         *)
Advance(t, self, written) ==
  thr' = [u \in Threads |->
            CASE u = t -> self
              [] u # t /\ Subject(u) = Subject(t) /\ thr[u].pc # "idle" ->
                   Outdated(thr[u], written)
              [] OTHER -> thr[u]]

-----------------------------------------------------------------------------
(* BetActionRepository.UpdateCAS behind transitionAction: a refused        *)
(* transition and a version conflict both return an error to the caller.   *)

(* Wrong: a plain save instead of UpdateCAS.                               *)
CanMoveActionBlindly(t, to) == TRUE

(* The update writes every column, exposure_id as the thread has it.       *)
Moved(t, to) ==
  [action EXCEPT ![Subject(t)] = [@ EXCEPT !.st = to, !.link = thr[t].link]]

CanMoveAction(t, to) ==
  thr[t].lag = 0 /\ <<action[Subject(t)].st, to>> \in ActionMoves

TransitionAction(t, to, p) ==
  \/ /\ CanMoveAction(t, to)
     /\ action' = Moved(t, to)
     /\ Advance(t, Goto(t, p), {ActionRow})
  \/ /\ ~CanMoveAction(t, to)
     /\ Advance(t, Returned(t), {})
     /\ UNCHANGED action

(* BetExposureRepository.UpdateCAS after TransitionBetExposure, or with    *)
(* the status as it is (SaveExposure).                                     *)

(* Wrong: the version of the exposure is not compared.                     *)
CanMoveExposureStale(t, to) == <<expo[Subject(t)].st, to>> \in ExposureMoves

CanMoveExposure(t, to) ==
  ~thr[t].expoStale /\ <<expo[Subject(t)].st, to>> \in ExposureMoves

TransitionExposure(t, to, p) ==
  \/ /\ CanMoveExposure(t, to)
     /\ expo' = [expo EXCEPT ![Subject(t)].st = to]
     /\ Advance(t, Goto(t, p), {ExposureRow})
  \/ /\ ~CanMoveExposure(t, to)
     /\ Advance(t, Returned(t), {})
     /\ UNCHANGED expo

SaveExposure(t, p) ==
  /\ Advance(t, IF thr[t].expoStale THEN Returned(t) ELSE Goto(t, p),
             IF thr[t].expoStale THEN {} ELSE {ExposureRow})
  /\ UNCHANGED expo

(* The exposure completed by the 8xbet ticket of the thread's commit.      *)
Completed(t) ==
  [expo EXCEPT ![Subject(t)] = [@ EXCEPT !.st = "completed", !.hedge = KeyOf(t)[2]]]

(* BetAttemptRepository.UpdateCAS: to p when it is saved, to q when the    *)
(* version conflicts.                                                      *)
SaveAttempt(t, st, res, p, q) ==
  IF thr[t].attStale
  THEN UNCHANGED attempt /\ Advance(t, Goto(t, q), {})
  ELSE /\ attempt' = [attempt EXCEPT ![Subject(t)][KeyOf(t)] = [st |-> st, res |-> res]]
       /\ Advance(t, Goto(t, p), {KeyOf(t)})

-----------------------------------------------------------------------------
(* TryReserveAccountStake.  All actions are of one account; a reservation  *)
(* of another action counts while its lease runs or its status says that   *)
(* it may have reached a bookmaker.                                        *)

(* Wrong: a reservation ends with its lease.                               *)
OthersHoldLeaseOnly(a) == \E b \in Actions \ {a} : action[b].resv # "none" /\ action[b].held

OthersHold(a) ==
  \E b \in Actions \ {a} :
    /\ action[b].resv # "none"
    /\ action[b].held \/ action[b].st \in ReservationBlocking
    /\ action[b].st \notin TerminalAction

(* Wrong: only the action's own row is looked at.                          *)
CanReserveAlone(t) ==
  thr[t].lag = 0 /\ (action[Subject(t)].resv = "mine" \/ ~action[Subject(t)].held)

CanReserve(t) ==
  LET a == Subject(t) IN
  /\ thr[t].lag = 0
  /\ ~OthersHold(a)
  /\ action[a].resv = "mine" \/ ~action[a].held

Reserved(a) == [action EXCEPT ![a] = [@ EXCEPT !.resv = "mine", !.held = TRUE]]

Reserve(t, p) ==
  /\ CanReserve(t)
  /\ action' = Reserved(Subject(t))
  /\ Advance(t, Goto(t, p), {ActionRow})

(* releaseActionReservation: silently keeps a reservation it does not own  *)
(* or whose row changed.                                                   *)
Release(t) ==
  LET a == Subject(t)
      owned == action[a].resv = "mine" /\ thr[t].lag = 0 IN
  /\ At(t, "release")
  /\ action' = IF owned
               THEN [action EXCEPT ![a] = [@ EXCEPT !.resv = "none", !.held = FALSE]]
               ELSE action
  /\ Advance(t, Returned(t), IF owned THEN {ActionRow} ELSE {})
  /\ UNCHANGED <<attempt, expo, wire, faults>>

-----------------------------------------------------------------------------
(* CommitJun88Ticket: one transaction opens the exposure, saves the        *)
(* accepted attempt and moves the action.  When the action already has an  *)
(* exposure for the same ticket it writes nothing and returns that one;    *)
(* the caller keeps the identifier of the exposure it meant to create.     *)

TicketKnown(t) == expo[Subject(t)].st # "none" /\ expo[Subject(t)].jun = KeyOf(t)[2]

CommitJun88Ticket(t, self) ==
  LET a == Subject(t) IN
  \/ /\ expo[a].st = "none" /\ thr[t].lag = 0 /\ ~thr[t].attStale
     /\ action' = [action EXCEPT ![a] = [@ EXCEPT !.st = "jun88_ticket_received",
                                                 !.link = "own"]]
     /\ attempt' = [attempt EXCEPT ![a][KeyOf(t)] =
                      [st |-> "response_received", res |-> "ticket_accepted"]]
     /\ expo' = [expo EXCEPT ![a] = [st |-> "exposure_open", leased |-> FALSE,
                                     jun |-> KeyOf(t)[2], hedge |-> 0]]
     /\ Advance(t, [self EXCEPT !.link = "own"], {ActionRow, KeyOf(t)})
  \/ /\ TicketKnown(t)
     /\ Advance(t, [self EXCEPT !.link = "lost", !.lag = IF @ > 0 THEN @ - 1 ELSE 0], {})
     /\ UNCHANGED rows
  \/ /\ ~TicketKnown(t)
     /\ expo[a].st # "none" \/ thr[t].lag > 0 \/ thr[t].attStale
     /\ Advance(t, Returned(t), {})
     /\ UNCHANGED rows

-----------------------------------------------------------------------------
(* Time: a reservation or an exposure lease runs out.  Left out are the    *)
(* expiries nobody can observe: of a reservation of the running process    *)
(* that no other action competes for, and of the lease of a hedge thread   *)
(* that still runs (inflight keeps every other thread off its exposure).   *)
LeaseExpires(a) ==
  /\ \/ /\ action[a].held
        /\ action[a].resv = "dead" \/ Actions # {a}
        /\ action' = [action EXCEPT ![a].held = FALSE]
        /\ UNCHANGED expo
     \/ /\ expo[a].leased
        /\ \A t \in Threads : t = <<"hedge", a>> => At(t, "idle")
        /\ expo' = [expo EXCEPT ![a].leased = FALSE]
        /\ UNCHANGED action
  /\ UNCHANGED <<attempt, thr, wire, faults>>
=============================================================================
