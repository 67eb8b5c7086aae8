---------------------------- MODULE LiveCollector ----------------------------
(***************************************************************************)
(* The wire between the backend and the collector processes, one process   *)
(* and one websocket per bookmaker: StreamService.ExecuteLiveBet on one    *)
(* side, the serial queue (SerialLiveBetActions) and the process-local     *)
(* commit journal (ProcessLiveBetJournal) on the other.                    *)
(*                                                                         *)
(* The bookmakers are outside the program.  CommitResults says what they   *)
(* may answer: the workers of this commit stop in front of the submit      *)
(* button and answer "rejected" or "odds_changed" only, the backend is     *)
(* written for all four results of the protocol.                           *)
(***************************************************************************)
EXTENDS BetStore

Message == [kind : {"commit", "reconcile"}, key : Actions \X Keys,
            to : Threads \cup {<<"none", "none">>}]

NoThread == <<"none", "none">>

(* ExecuteLiveBet writes the command; the answer goes to the thread that   *)
(* registered the request, if it still waits for it.                       *)
Write(t, kind) ==
  LET bm == KeyOf(t)[1] IN
  /\ Len(inbox[bm]) < MaxInbox
  /\ inbox' = [inbox EXCEPT ![bm] =
       Append(@, [kind |-> kind, key |-> <<Subject(t), KeyOf(t)>>, to |-> t])]

(* The request of t leaves the registry: its answer will be dropped.       *)
Forgotten(ts) ==
  [bm \in Bookmakers |-> [i \in DOMAIN inbox[bm] |->
     IF inbox[bm][i].to \in ts THEN [inbox[bm][i] EXCEPT !.to = NoThread]
     ELSE inbox[bm][i]]]

(* deliverLiveBetResponse.                                                 *)
Deliver(m, result) ==
  thr' = [t \in Threads |-> IF t = m.to THEN [thr[t] EXCEPT !.rsp = result] ELSE thr[t]]

(* What the journal entry of a key answers.                                *)
CachedAnswer(entry) ==
  CASE entry = "none" -> "rejected"
    [] entry = "submit_started" -> "submission_unknown"
    [] OTHER -> entry

(* commit: a key in the journal is answered from it, a new one is tried at *)
(* the bookmaker.  After "submission_unknown" a ticket may or may not      *)
(* exist, and the entry stays at submit_started.                           *)
HandleCommit(bm) ==
  LET m == Head(inbox[bm])
      entry == journal[m.key]
      ticket == <<m.key[1], m.key[2][1], m.key[2][2]>> IN
  /\ inbox[bm] # <<>>
  /\ m.kind = "commit"
  /\ \E result \in IF entry = "none" THEN CommitResults ELSE {CachedAnswer(entry)},
        placed \in BOOLEAN :
       /\ placed => entry = "none" /\ result \in {"ticket_accepted", "submission_unknown"}
       /\ entry = "none" /\ result = "ticket_accepted" => placed
       /\ tickets' = IF placed THEN tickets \cup {ticket} ELSE tickets
       /\ journal' = IF entry # "none" THEN journal
                     ELSE [journal EXCEPT ![m.key] =
                             IF result = "submission_unknown" THEN "submit_started"
                             ELSE result]
       /\ Deliver(m, result)
  /\ inbox' = [inbox EXCEPT ![bm] = Tail(@)]
  /\ UNCHANGED <<rows, faults>>

(* assertUnexpired: a commit that nobody waits for any more may have       *)
(* passed its deadline in the queue; it is dropped without a trace.        *)
DropExpired(bm) ==
  /\ inbox[bm] # <<>>
  /\ Head(inbox[bm]).to = NoThread
  /\ inbox' = [inbox EXCEPT ![bm] = Tail(@)]
  /\ UNCHANGED <<rows, thr, journal, tickets, faults>>

(* reconcile: answers from the journal; without an entry it claims that no *)
(* submit was performed.  handleLiveReconcile turns every exception into   *)
(* "rejected" too, the one for an expired command included.                *)
HandleReconcile(bm) ==
  LET m == Head(inbox[bm]) IN
  /\ inbox[bm] # <<>>
  /\ m.kind = "reconcile"
  /\ \E result \in {CachedAnswer(journal[m.key])}
                     \cup (IF ReconcileExpires THEN {"rejected"} ELSE {}) :
       Deliver(m, result)
  /\ inbox' = [inbox EXCEPT ![bm] = Tail(@)]
  /\ UNCHANGED <<rows, journal, tickets, faults>>

(* A collector process restarts: queue and journal are gone.               *)
CollectorRestarts(bm) ==
  /\ bm \in Restarting
  /\ faults < MaxFaults
  /\ faults' = faults + 1
  /\ inbox' = [inbox EXCEPT ![bm] = <<>>]
  /\ journal' = [k \in Actions \X Keys |-> IF k[2][1] = bm THEN "none" ELSE journal[k]]
  /\ UNCHANGED <<rows, thr, tickets>>

CollectorStep(bm) == HandleCommit(bm) \/ HandleReconcile(bm) \/ DropExpired(bm)
=============================================================================
