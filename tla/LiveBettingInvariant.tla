------------------------ MODULE LiveBettingInvariant ------------------------
(***************************************************************************)
(* The inductive invariant of LiveBetting behind TypeOK and                *)
(* PersistenceBarrier: what a thread knows at each control point, what a   *)
(* queued command and a journal entry stand for, and how the rows depend   *)
(* on one another.  TLC checks it; LiveBettingProofs proves it inductive.  *)
(***************************************************************************)
EXTENDS LiveBetting

CommitPoints == {"new", "mark", "send", "wait"}
FirstPoints == {"create", "reserve", "prepare", "lease", "match", "hedge_reserve",
                "hedge_prepare"}
JunPoints == {"jun_start", "jun_renew", "jun_changed", "jun_reallocate"}
HedgePoints == {"evaluate", "hedging", "placing", "hedge_renew", "hedge_done",
                "hedge_changed", "hedge_reprice", "hedge_rejected",
                "hedge_unknown_attempt"}
EvidencePoints == {"evidence_attempt", "evidence_exposure"}
ReconcilePoints == {"ask", "answer", "rec_hedge", "rec_complete"}
MatcherPoints == {"lease", "match", "hedge_reserve", "hedge_prepare"}
TicketPoints == {"jun_ticket", "rec_jun"}
WaitPoints == {"wait", "answer"}
KeyedPoints == CommitPoints \cup HedgePoints \cup EvidencePoints \cup ReconcilePoints
                 \cup TicketPoints

(* What holds of thread t in control state r when the exposures are ex and *)
(* the bookmakers hold tk.                                                 *)

(* It has a key where it works on an attempt, and an 8xbet key, a hedge or *)
(* a match only with a durable exposure.                                   *)
KnowsKey(t, r, ex) ==
  /\ r.pc \in KeyedPoints =>
       r.key \in Keys /\ (r.key[1] = "8xbet" => ex[t[2]].st # "none")
  /\ r.pc \in HedgePoints \cup EvidencePoints => r.key[1] = "8xbet"
  /\ r.pc \in MatcherPoints => ex[t[2]].st # "none"

(* Its rounds stay within their bound, and so do the numbers it uses.      *)
KnowsRound(r) ==
  /\ r.pc \in FirstPoints => r.round = 0
  /\ r.pc \in JunPoints => r.round <= MaxReprices
  /\ r.pc \in {"jun_changed", "jun_reallocate"} => r.round < MaxReprices
  /\ r.pc \in CommitPoints /\ r.key[1] = "jun88" => r.round <= MaxReprices
  /\ r.pc \in CommitPoints \cup HedgePoints /\ r.key[1] = "8xbet" =>
       r.round <= MaxHedgeRounds /\ r.key[2] + MaxHedgeRounds <= MaxCommits + r.round

(* An answer is there only while it waits, and a ticket it was told about, *)
(* or is about to persist, is one the bookmaker holds.                     *)
KnowsTicket(t, r, tk) ==
  /\ r.rsp # "none" => r.pc \in WaitPoints
  /\ r.rsp = "ticket_accepted" => <<t[2], r.key[1], r.key[2]>> \in tk
  /\ r.pc \in TicketPoints => r.key[1] = "jun88" /\ <<t[2], r.key[1], r.key[2]>> \in tk

Fits(t, r, ex, tk) == KnowsKey(t, r, ex) /\ KnowsRound(r) /\ KnowsTicket(t, r, tk)

ThreadsFit == \A t \in Threads : Fits(t, thr[t], expo, tickets)

(* A queued command belongs to its queue's bookmaker, and an 8xbet command *)
(* to an action with an exposure; the thread it is answered to waits for   *)
(* this one command and has no answer yet.                                 *)
CommandFits(bm, m, th, ex) ==
  /\ m.key[2][1] = bm
  /\ bm = "8xbet" => ex[m.key[1]].st # "none"
  /\ m.to \in Threads =>
       /\ m.key = <<m.to[2], th[m.to].key>>
       /\ th[m.to].pc \in WaitPoints
       /\ th[m.to].rsp = "none"

AnswersOnce(q) ==
  \A i, j \in DOMAIN q : q[i].to \in Threads /\ q[j].to = q[i].to => i = j

QueuesFit ==
  \A bm \in Bookmakers :
    /\ AnswersOnce(inbox[bm])
    /\ \A i \in DOMAIN inbox[bm] : CommandFits(bm, inbox[bm][i], thr, expo)

(* A journal entry "ticket_accepted" is the truth.                         *)
JournalFits ==
  \A k \in Actions \X Keys :
    journal[k] = "ticket_accepted" => <<k[1], k[2][1], k[2][2]>> \in tickets

(* An exposure has its Jun88 ticket; an 8xbet attempt or ticket has an     *)
(* exposure.                                                               *)
RowsFit ==
  \A a \in Actions :
    /\ expo[a].st # "none" => <<a, "jun88", expo[a].jun>> \in tickets
    /\ \A n \in 1 .. MaxCommits :
         attempt[a][<<"8xbet", n>>].st # "none" \/ <<a, "8xbet", n>> \in tickets =>
           expo[a].st # "none"

(* The inductive invariant: with the types, everything above.              *)
IInv == TypeOK /\ ThreadsFit /\ QueuesFit /\ JournalFits /\ RowsFit
=============================================================================
