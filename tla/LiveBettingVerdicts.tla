------------------------- MODULE LiveBettingVerdicts -------------------------
(***************************************************************************)
(* The inductive invariant of LiveBetting behind VerdictIsFinal,           *)
(* CompletedHasBothTickets, AccountExclusive and ExposureLimit: what a     *)
(* thread may conclude from a row it has read while nobody has written it  *)
(* since, how the rows of an action agree, and whose the account is.       *)
(* It stands on IInv.                                                      *)
(***************************************************************************)
EXTENDS LiveBettingInvariant

(* Points only the executor of an action reaches.                          *)
ExecutorPoints ==
  {"create", "reserve", "prepare", "dry_run", "jun_start", "jun_renew", "jun_changed",
   "jun_reallocate", "jun_ticket", "jun_unknown"}

(* Points at which an attempt is about to be saved or asked about.         *)
AttemptPoints == {"mark", "send", "wait", "jun_ticket", "ask", "answer", "rec_jun"}

(* Points a thread comes to with an 8xbet ticket in hand.                  *)
CompletionPoints == {"hedge_done", "rec_hedge", "rec_complete"} \cup EvidencePoints

(* Points a thread reaches only once the exposure exists.                  *)
UnknownPoints == {"hedge_unknown", "hedge_unknown_action"}

(* Statuses of an action before its first commit or between two prices,    *)
(* and of one that has an exposure.                                        *)
Uncommitted == {"none", "selecting", "ready", "awaiting_odds_confirmation"}
Exposed ==
  {"jun88_ticket_received", "placing_8xbet", "exposure_open", "submission_unknown"}
    \cup TerminalAction

Waiting(at, n) == at[<<"jun88", n>>].st \in Unsettled
NoneWaiting(at) == \A n \in 1 .. MaxCommits : ~Waiting(at, n)

(* What thread t in control state r knows of its action: of its status ac, *)
(* its attempts at, the status ex of its exposure and the tickets tk.      *)

KnowsRole(t, r) ==
  r.pc \in ExecutorPoints \/ (r.pc \in CommitPoints /\ r.key[1] = "jun88") =>
    Role(t) = "exec"

(* The status of the action, as long as nobody else has written the row.   *)
KnowsStatus(r, ac) ==
  /\ r.pc = "create" => ac = "none"
  /\ r.pc = "release" => ac \in TerminalAction
  /\ r.pc = "new" /\ r.key[1] = "jun88" => r.lag = 0
  /\ r.lag = 0 =>
       /\ r.pc \in {"reserve", "prepare"} => ac = "selecting"
       /\ r.pc \in {"dry_run", "jun_start"} => ac = "ready"
       /\ r.pc \in {"jun_renew", "jun_changed", "jun_ticket"} => ac = "placing_jun88"
       /\ r.pc \in CommitPoints /\ r.key[1] = "jun88" => ac = "placing_jun88"
       /\ r.pc = "jun_reallocate" => ac = "awaiting_odds_confirmation"
       /\ r.pc \in {"listed", "ask", "answer", "rec_jun"} => ac \in Reconcilable

(* The status of the exposure, likewise; and, for good, that it exists or  *)
(* how it ended.                                                           *)
KnowsExposure(r, ex) ==
  /\ r.pc \in UnknownPoints => ex # "none"
  /\ r.pc = "complete" => ex = "completed"
  /\ r.pc = "close_action" => ex = "unhedged_closed"
  /\ r.pc = "abort" /\ r.lag = 0 => ex = "none"
  /\ ~r.expoStale =>
       /\ r.pc \in {"placing", "hedge_renew"} => ex = "hedging"
       /\ r.pc \in {"resolve"} \cup EvidencePoints =>
            ex \in {"exposure_open", "submission_unknown", "manual_review"}

(* That its own Jun88 commit is unanswered, or that every one is answered. *)
KnowsAttempt(r, at) ==
  /\ r.pc \in AttemptPoints /\ r.key[1] = "jun88" /\ ~r.attStale => Waiting(at, r.key[2])
  /\ r.pc \in {"jun_renew", "jun_changed", "new", "abort"} /\ r.lag = 0 => NoneWaiting(at)

(* The 8xbet ticket it completes the action with.                          *)
HoldsTicket(t, r, tk) ==
  r.pc \in CompletionPoints => r.key[1] = "8xbet" /\ <<Subject(t), "8xbet", r.key[2]>> \in tk

Sees(t, r, ac, at, ex, tk) ==
  /\ KnowsRole(t, r) /\ KnowsStatus(r, ac) /\ KnowsExposure(r, ex)
  /\ KnowsAttempt(r, at) /\ HoldsTicket(t, r, tk)

ThreadsSee ==
  \A t \in Threads :
    Sees(t, thr[t], action[Subject(t)].st, attempt[Subject(t)], expo[Subject(t)].st,
         tickets)

(* Nobody works on an action that is not there; and nobody gives an action *)
(* up while its executor is about to record a commit.                      *)
Quiet(a, th) ==
  \A t \in Threads : Subject(t) = a => th[t].pc \in {"idle", "create"}

NoLateCommit(th) ==
  \A t, u \in Threads :
    Subject(t) = Subject(u) /\ th[t].pc = "abort" /\ th[t].lag = 0 => th[u].pc # "new"

(* How the rows of action a agree: there is at most one unanswered Jun88   *)
(* commit, none before the action is placed or once it is exposed; an      *)
(* exposure belongs to an action that was placed; an action ends with its  *)
(* exposure, if it has one.                                                *)
RowsOf(a, ac, at, ex, tk) ==
  /\ \A m, n \in 1 .. MaxCommits : Waiting(at, m) /\ Waiting(at, n) => m = n
  /\ ac \in Uncommitted => NoneWaiting(at) /\ ex.st = "none"
  /\ ex.st # "none" => NoneWaiting(at) /\ ac \in Exposed
  /\ ex.st = "completed" => <<a, "8xbet", ex.hedge>> \in tk
  /\ ac = "completed" => ex.st = "completed"
  /\ ac \in TerminalAction => ex.st \in {"none", "completed", "unhedged_closed"}

RowsAgree ==
  \A a \in Actions :
    /\ RowsOf(a, action[a].st, attempt[a], expo[a], tickets)
    /\ action[a].st = "none" => Quiet(a, thr)

(* An action that is engaged, or whose executor is about to record its     *)
(* first commit, has the reservation, and no other action is.              *)
Secured(a) ==
  /\ action[a].st \notin TerminalAction
  /\ \/ expo[a].st # "none"
     \/ \E n \in 1 .. MaxCommits : Waiting(attempt[a], n)
     \/ \E t \in Threads : Subject(t) = a /\ thr[t].pc = "new"

OneSecured ==
  /\ \A a \in Actions : Secured(a) => action[a].resv # "none"
  /\ \A a, b \in Actions : Secured(a) /\ Secured(b) => a = b

(* The inductive invariant: with IInv, everything above.                   *)
VerdictInv == ThreadsSee /\ RowsAgree /\ NoLateCommit(thr) /\ OneSecured
SafetyInv == IInv /\ VerdictInv
=============================================================================
