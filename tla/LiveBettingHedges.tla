--------------------------- MODULE LiveBettingHedges ---------------------------
(***************************************************************************)
(* The inductive invariant of LiveBetting behind OneTicketPerLeg,          *)
(* ClosedIsUnhedged, MatcherWaitsForResolution and the refinement of       *)
(* TwoLegBet, on a reliable wire: who may hedge the exposure of an action, *)
(* or give it back to be hedged again.  It stands on TicketInv.            *)
(***************************************************************************)
EXTENDS LiveBettingTickets

(* An 8xbet commit that is or may still become a ticket.                   *)
Live(row) == row.st # "none" /\ ~(row.st = "response_received" /\ row.res \in Negative)
LiveHedge(at, n) == Live(at[<<"8xbet", n>>])
Spent(at) == \A n \in 1 .. MaxCommits : ~LiveHedge(at, n)

-----------------------------------------------------------------------------
(* What a thread in control state r is about to do.                        *)

OnHedge(r) == r.key[1] = "8xbet"

(* It works on the exposure that it has set to hedging.                    *)
AtHedge(r) ==
  \/ r.pc \in {"placing", "hedge_renew"}
  \/ r.pc = "new" /\ OnHedge(r)
  \/ r.pc \in {"mark", "send", "wait", "hedge_unknown_attempt"} /\ OnHedge(r)
     /\ ~(r.attStale /\ r.expoStale)
  \/ r.pc \in {"hedge_done", "hedge_changed", "hedge_rejected", "hedge_unknown"}
     /\ ~r.expoStale

(* It may record the next 8xbet commit, or free the exposure for it.       *)
Claims(r) ==
  \/ r.pc \in {"placing", "hedge_renew", "rec_read"}
  \/ r.pc = "new" /\ OnHedge(r)
  \/ r.pc \in {"hedge_changed", "hedge_rejected", "rec_reopen"} /\ ~r.expoStale

(* It may declare an answered commit unknown again.                        *)
Revives(r) == r.pc = "hedge_unknown_attempt" /\ ~r.attStale

Ours(a) == {t \in Threads : Subject(t) = a}

(* A hedge is under way: a commit is live, or a thread has moved the       *)
(* action on to record, revive or give up one.                             *)
Underway(a, at, th) ==
  \/ ~Spent(at)
  \/ \E t \in Ours(a) : (Claims(th[t]) /\ th[t].pc # "placing") \/ Revives(th[t])

Busy(a, at, th) == Underway(a, at, th) \/ \E t \in Ours(a) : th[t].pc = "placing"

-----------------------------------------------------------------------------
(* What a thread knows of its rows while nobody else has written them.     *)

(* A commit that it has recorded, sent or asked about has no answer.       *)
KnowsRow(r, at) ==
  /\ r.pc = "mark" /\ OnHedge(r) => ~r.attStale
  /\ r.pc \in {"send", "wait", "ask", "answer", "rec_hedge", "evidence_attempt"}
       /\ OnHedge(r) /\ ~r.attStale => at[r.key].st \in PendingAttempt
  /\ r.pc = "rec_complete" => at[r.key].st = "response_received"

(* Whoever closes or frees the exposure, or reports it open, knows that no *)
(* hedge is under way.                                                     *)
KnowsFree(r, ac, ex, busy, under) ==
  /\ ~r.expoStale =>
       /\ r.pc \in MatcherPoints => ex = "exposure_open"
       /\ r.pc \in {"close", "reopen"} => ~busy /\ ex \in {"exposure_open", "manual_review"}
       /\ r.pc = "reopen" => ex = "manual_review"
  /\ r.lag = 0 =>
       /\ r.pc \in {"hedge_reprice", "open", "open_action"} => ~under
       /\ r.pc = "evaluate" /\ ~r.expoStale => ~under
       /\ r.pc = "rec_jun_open" => ac = "jun88_ticket_received"

(* Whoever works on a Jun88 commit knows that there is no exposure, or     *)
(* that nothing has happened since it was opened.                          *)
KnowsUnhedged(r, ac, ex) ==
  r.pc \in CommitPoints \cup TicketPoints \cup {"ask", "answer"} /\ r.key[1] = "jun88" =>
    /\ r.lag = 0 => ex = "none"
    /\ r.lag <= 1 /\ ex # "none" => ac = "jun88_ticket_received"

HedgeThread(r, ac, at, ex, busy, under) ==
  /\ KnowsRow(r, at) /\ KnowsFree(r, ac, ex, busy, under) /\ KnowsUnhedged(r, ac, ex)
  /\ AtHedge(r) => ex = "hedging"
  /\ Claims(r) => Spent(at)
  /\ Revives(r) => \A n \in 1 .. MaxCommits : LiveHedge(at, n) => r.key = <<"8xbet", n>>

(* Two threads of an action never both hedge, nor both decide about it.    *)
HedgeAlone(r, s) ==
  /\ ~(AtHedge(r) /\ AtHedge(s))
  /\ ~(Claims(r) /\ (Claims(s) \/ Revives(s)))
  /\ r.pc = "rec_complete" /\ Revives(s) => r.key # s.key

(* The rows: at most one live commit, and while a hedge is under way       *)
(* neither the exposure nor the action is reported open.                   *)
HedgeRows(ac, at, ex, busy, under) ==
  /\ \A m, n \in 1 .. MaxCommits : LiveHedge(at, m) /\ LiveHedge(at, n) => m = n
  /\ busy => ex \notin {"none", "exposure_open", "unhedged_closed"}
  /\ under => ac \notin {"exposure_open", "jun88_ticket_received"}
  /\ ac = "unhedged_closed" => ex = "unhedged_closed"

HedgeOf(a, ac, at, ex, th) ==
  /\ HedgeRows(ac, at, ex, Busy(a, at, th), Underway(a, at, th))
  /\ \A t \in Ours(a) :
       HedgeThread(th[t], ac, at, ex, Busy(a, at, th), Underway(a, at, th))
  /\ \A t, u \in Ours(a) : t # u => HedgeAlone(th[t], th[u])

HedgeInv == \A a \in Actions : HedgeOf(a, action[a].st, attempt[a], expo[a].st, thr)
===============================================================================
