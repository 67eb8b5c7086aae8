-------------------------- MODULE LiveBettingTickets --------------------------
(***************************************************************************)
(* The inductive invariant of LiveBetting behind AbortedIsEmpty and the    *)
(* Jun88 half of OneTicketPerLeg, on a reliable wire: what the row of a    *)
(* commit attempt, its messages, its journal entry and the threads that    *)
(* work on it say about its ticket.  It stands on SafetyInv.               *)
(***************************************************************************)
EXTENDS LiveBettingVerdicts

(* Commands of one collector are handled in the order in which they were   *)
(* sent, a reconcile_bet that is still awaited is not refused as expired,  *)
(* and the collectors keep their journals.                                 *)
ReliableWire == ~Overtake /\ ~ReconcileExpires /\ Restarting = {}

-----------------------------------------------------------------------------
(* One commit: key k of action a.                                          *)

Negative == {"odds_changed", "rejected"}

TicketAt(a, k) == <<a, k[1], k[2]>>

(* The durable mark is set and the command is about to be written, or it   *)
(* is written and not handled yet.                                         *)
Sending(th, a, k) ==
  \E t \in Threads : Subject(t) = a /\ th[t].pc = "send" /\ th[t].key = k

Queued(q, a, k) == \E i \in DOMAIN q : q[i].kind = "commit" /\ q[i].key = <<a, k>>

(* Nothing of the commit can become a ticket any more, and it has none.    *)
Hopeless(th, q, tk, a, k) ==
  ~Sending(th, a, k) /\ ~Queued(q, a, k) /\ TicketAt(a, k) \notin tk

(* Before the write to the socket there is no trace of it; a command in    *)
(* the queue is new to the journal, and a ticket is not; a row or an       *)
(* answer that says there is no ticket is right for good.                  *)
CommitOf(a, k, row, th, q, jr, tk) ==
  /\ row.st \in {"none", "before_send"} \/ Sending(th, a, k) =>
       jr[<<a, k>>] = "none" /\ ~Queued(q, a, k)
  /\ Queued(q, a, k) => jr[<<a, k>>] = "none"
  /\ TicketAt(a, k) \in tk => jr[<<a, k>>] \in {"ticket_accepted", "submit_started"}
  /\ row.st = "response_received" /\ row.res \in Negative => Hopeless(th, q, tk, a, k)

CommitsFit ==
  \A a \in Actions, k \in Keys :
    CommitOf(a, k, attempt[a][k], thr, inbox[k[1]], journal, tickets)

(* A thread marks the row it has created, and writes after the mark.       *)
KnowsCommit(r, at) ==
  /\ r.pc = "mark" =>
       at[r.key].st # "none" /\ (~r.attStale => at[r.key].st = "before_send")
  /\ r.pc = "send" => at[r.key].st \notin {"none", "before_send"}

(* An answer that there is no ticket is right unless the row was written   *)
(* while the thread waited for it.                                         *)
Refused(t, th, ib, tk) ==
  th[t].rsp \in Negative /\ ~th[t].attStale =>
    Hopeless(th, ib[th[t].key[1]], tk, Subject(t), th[t].key)

SameCommit(t, u, th) == Subject(t) = Subject(u) /\ th[t].key = th[u].key

(* Nobody else sends the commit, and whoever asks about it has read its    *)
(* row before the mark.                                                    *)
SendsAlone(t, u, th) ==
  SameCommit(t, u, th) =>
    /\ th[t].pc \in {"mark", "send"} /\ th[u].pc \in {"mark", "send"} => t = u
    /\ th[t].pc = "send" /\ th[u].pc \in {"ask", "wait", "answer"} => th[u].attStale

ThreadsCommit(th, at, ib, tk) ==
  /\ \A t \in Threads : KnowsCommit(th[t], at[Subject(t)]) /\ Refused(t, th, ib, tk)
  /\ \A t, u \in Threads : SendsAlone(t, u, th)

(* A commit is written once, and before every question about it that is    *)
(* still of interest.                                                      *)
WrittenOnce(q, th) ==
  \A i, j \in DOMAIN q :
    q[j].kind = "commit" /\ q[i].key = q[j].key =>
      /\ q[i].kind = "commit" => i = j
      /\ q[i].to \in Threads /\ ~th[q[i].to].attStale => j <= i

QueuesOrdered == \A bm \in Bookmakers : WrittenOnce(inbox[bm], thr)

CommitInv == CommitsFit /\ ThreadsCommit(thr, attempt, inbox, tickets) /\ QueuesOrdered

-----------------------------------------------------------------------------
(* Statuses of an action that ended without a bet.                         *)
GivenUp == {"aborted_no_exposure", "dry_run_completed"}

(* The Jun88 leg of action a: an answered commit has one of three answers, *)
(* the accepted one is that of the exposure, and an action that was given  *)
(* up has neither an exposure nor a commit without an answer.              *)
JunLegOf(ac, at, ex) ==
  /\ \A k \in Keys :
       at[k].st = "response_received" => at[k].res \in Negative \cup {"ticket_accepted"}
  /\ \A n \in 1 .. MaxCommits :
       LET row == at[<<"jun88", n>>] IN
       row.st = "response_received" /\ row.res = "ticket_accepted" =>
         ex.st # "none" /\ ex.jun = n
  /\ ac \in GivenUp => ex.st = "none" /\ NoneWaiting(at)

JunLegs == \A a \in Actions : JunLegOf(action[a].st, attempt[a], expo[a])

TicketInv == CommitInv /\ JunLegs
OneJunTicket == \A a \in Actions : Cardinality(TicketsOf(a, "jun88")) <= 1
===============================================================================
