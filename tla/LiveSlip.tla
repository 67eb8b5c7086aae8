------------------------------ MODULE LiveSlip -------------------------------
(***************************************************************************)
(* The live commands inside one collector: frames of the backend reach     *)
(* BackendCollectorStreamSink, run one after the other on the page of the  *)
(* bookmaker (Jun88CmdLiveBetActions, EightXBetLiveBetActions), and are    *)
(* answered once each.  LiveCollector is the abstract form of this module: *)
(* there a commit is one step with any answer; here it is the clicks and   *)
(* reads on a page whose odds move and whose slip follows a click late.    *)
(*                                                                         *)
(* The page belongs to the bookmaker and is modelled from how the code     *)
(* reads it: the odds on offer, at most one slip, a click not yet shown.   *)
(***************************************************************************)
EXTENDS Integers, SequencesExt, FiniteSets

CONSTANTS Book,         \* "jun88" or "8xbet"
          Selections,   \* what can be bet on
          Fixture,      \* the fixture of a selection
          Odds,         \* prices, all further apart than the tolerance 0.001
          Commands,     \* the commands the backend may send
          Lag,          \* a click may show in the slip after the next read
          JournalSize,  \* 10 000 in the code
          MaxSends, MaxMoves, MaxFaults

NoOdds == 0
NoSel == "none"

(* One shape for the four commands; bet stands for the correlation (action,*)
(* opportunity, leg), <<bet, sel>> for the prepare id: liveBetPrepareID    *)
(* hashes them with a session generation that is fixed for a process.      *)
Command == [op : {"prepare", "commit", "cancel", "reconcile"},
            bet : STRING, sel : Selections, key : STRING, odds : Odds]

LiveSlipAssumption ==
  /\ Commands \subseteq Command
  /\ Book \in {"jun88", "8xbet"} /\ Lag \in BOOLEAN
  /\ Odds \subseteq Nat \ {0} /\ NoSel \notin Selections
  /\ DOMAIN Fixture = Selections
  /\ \A c \in Commands : DOMAIN c = {"op", "bet", "sel", "key", "odds"} /\ c.sel \in Selections
  /\ JournalSize \in Nat \ {0}
  /\ MaxSends \in Nat /\ MaxMoves \in Nat /\ MaxFaults \in Nat

VARIABLES odds,     \* the odds a selection is offered at, NoOdds when it is not
          slip,     \* [sel, odds, accept]: what the page's slip shows
          clicked,  \* the selection of a click the page has not shown yet
          opened,   \* the fixture of the page, NoSel when it is closed
          queue,    \* SerialLiveBetActions: the running operation is the head
          run,      \* the running operation: its step and what it has read
          prepared, \* the prepared map, cleared before every entry
          journal,  \* ProcessLiveBetJournal, oldest entry first
          log,      \* the answers handed to sendLiveResponse, in order
          sends, moves, faults

page == <<odds, slip, clicked, opened>>
bounds == <<sends, moves, faults>>
vars == <<page, queue, run, prepared, journal, log, bounds>>

NoSlip == [sel |-> NoSel, odds |-> NoOdds, accept |-> FALSE]
Idle == [step |-> "idle", raw |-> NoOdds, seen |-> {}]
None == [bet |-> "none", sel |-> NoSel, odds |-> NoOdds]

Init ==
  /\ odds \in [Selections -> Odds]
  /\ slip = NoSlip /\ clicked = NoSel
  /\ opened = IF Book = "jun88" THEN "cmd" ELSE NoSel
  /\ queue = <<>>
  /\ run = Idle /\ prepared = None /\ journal = <<>> /\ log = <<>>
  /\ sends = 0 /\ moves = 0 /\ faults = 0

(* The running operation.                                                  *)
Cmd == Head(queue)
Running(op) == run.step = op /\ queue # <<>>

-----------------------------------------------------------------------------
(* The page of the bookmaker.                                              *)

(* A price moves, or a selection is suspended or offered again.            *)
OddsMove(s) ==
  /\ moves < MaxMoves /\ moves' = moves + 1
  /\ \E o \in (Odds \cup {NoOdds}) \ {odds[s]} : odds' = [odds EXCEPT ![s] = o]
  /\ run' = IF run.step = "idle" \/ Cmd.op # "prepare" \/ Cmd.sel # s THEN run
            ELSE [run EXCEPT !.seen = @ \cup {odds'[s]}]
  /\ UNCHANGED <<slip, clicked, opened, queue, prepared, journal, log, sends, faults>>

(* The slip follows the price; at 8xbet its button turns to "accept".      *)
SlipFollows ==
  /\ slip # NoSlip /\ slip.odds # odds[slip.sel]
  /\ slip' = [slip EXCEPT !.odds = odds[slip.sel], !.accept = (Book = "8xbet")]
  /\ UNCHANGED <<odds, clicked, opened, queue, run, prepared, journal, log, bounds>>

(* The click shows: the slip is the one of the clicked selection.          *)
Shows(s) == [sel |-> s, odds |-> odds[s], accept |-> FALSE]

ClickShows ==
  /\ clicked # NoSel
  /\ slip' = IF odds[clicked] = NoOdds THEN slip ELSE Shows(clicked)
  /\ clicked' = NoSel
  /\ UNCHANGED <<odds, opened, queue, run, prepared, journal, log, bounds>>

(* The slip disappears, at 8xbet with the whole page.                      *)
SlipLost ==
  /\ faults < MaxFaults /\ faults' = faults + 1
  /\ slip' = NoSlip /\ clicked' = NoSel
  /\ opened' = IF Book = "jun88" THEN opened ELSE NoSel
  /\ UNCHANGED <<odds, queue, run, prepared, journal, log, sends, moves>>

-----------------------------------------------------------------------------
(* What the workers read of the page.                                      *)

(* The observer knows the selection, not suspended ...                     *)
Jun88SelectionIdentityMatches(s) == odds[s] # NoOdds

(* ... and an anchor with its provider ref becomes visible in time.        *)
FindJun88Odds(s) == odds[s] # NoOdds

(* The sidebar is visible in a frame, with odds in it.                     *)
FindJun88Sidebar == slip # NoSlip
ReadJun88Slip == IF FindJun88Sidebar THEN slip.odds ELSE NoOdds

(* The button of the provider ref on the page of its match.                *)
FindEightXBetOdds(s) == opened = Fixture[s] /\ odds[s] # NoOdds

(* The first card of the cart; its text names the odds.                    *)
ReadEightXBetSlip == IF slip # NoSlip THEN slip.odds ELSE NoOdds
IsAcceptPriceState == slip.accept

(* The keypad takes the amount digit by digit, or a button or the label is *)
(* missing.                                                                *)
EnterEightXBetStake == IF slip # NoSlip THEN BOOLEAN ELSE {FALSE}

-----------------------------------------------------------------------------
(* The sink.                                                               *)

(* why: "done", "cached" (from the journal), "missing" (no entry) or       *)
(* "refused" (expired, mismatched: an exception the sink turned into a     *)
(* rejection).                                                             *)
Answer(c, result, o, why) ==
  log' = Append(log, [cmd |-> c, result |-> result, odds |-> o, why |-> why,
                      seen |-> IF result = "prepared" THEN run.seen ELSE {}])

(* A frame for this collector joins the queue; one that has expired on the *)
(* way does not parse and is answered outside the queue.  A frame of an    *)
(* earlier session, another account or source is dropped and changes       *)
(* nothing (liveFrameTargetsCollector).                                    *)
ReceiveFrame(c) ==
  /\ sends < MaxSends /\ sends' = sends + 1
  /\ \/ queue' = Append(queue, c) /\ UNCHANGED log
     \/ Answer(c, "rejected", NoOdds, "refused") /\ UNCHANGED queue
  /\ UNCHANGED <<page, run, prepared, journal, moves, faults>>

(* The head of the queue is answered and the next operation may start.     *)
Finish(result, o, why) ==
  /\ Answer(Cmd, result, o, why)
  /\ queue' = Tail(queue)
  /\ run' = Idle

Rejected(why) == Finish("rejected", NoOdds, why)

-----------------------------------------------------------------------------
(* SerialLiveBetActions.run and assertUnexpired: the command may have      *)
(* expired while it waited.                                                *)
StartOperation ==
  /\ queue # <<>> /\ run.step = "idle"
  /\ \/ Rejected("refused")
     \/ /\ run' = [Idle EXCEPT !.step = Cmd.op,
                       !.seen = IF Cmd.op = "prepare" THEN {odds[Cmd.sel]} ELSE {}]
        /\ UNCHANGED <<queue, log>>
  /\ UNCHANGED <<page, prepared, journal, bounds>>

(* The click of a prepare shows at once or after a while.                  *)
Click(s) ==
  \/ slip' = Shows(s) /\ clicked' = NoSel
  \/ Lag /\ clicked' = s /\ UNCHANGED slip

(* The anchor is looked up and clicked, its odds read before the click.    *)
PrepareJun88Click ==
  /\ Book = "jun88" /\ Running("prepare")
  /\ \/ ~FindJun88Odds(Cmd.sel) /\ Rejected("done") /\ UNCHANGED <<slip, clicked>>
     \/ /\ Jun88SelectionIdentityMatches(Cmd.sel) /\ FindJun88Odds(Cmd.sel)
        /\ Click(Cmd.sel)
        /\ run' = [run EXCEPT !.step = "slip", !.raw = odds[Cmd.sel]]
        /\ UNCHANGED <<queue, log>>
  /\ UNCHANGED <<odds, opened, prepared, journal, bounds>>

(* The slip becomes the only prepared one.                                 *)
Prepare(o) ==
  /\ prepared' = [bet |-> Cmd.bet, sel |-> Cmd.sel, odds |-> o]
  /\ Finish("prepared", o, "done")

(* The sidebar is read: its odds must be the clicked ones.  Its odds type, *)
(* its limits and the balance may be unusable.                             *)
PrepareJun88Slip ==
  /\ Book = "jun88" /\ Running("slip")
  /\ \/ Rejected("done") /\ UNCHANGED prepared
     \/ ReadJun88Slip = run.raw /\ Prepare(ReadJun88Slip)
  /\ UNCHANGED <<page, journal, bounds>>

(* ensureActionPage: another fixture, or a closed page, is navigated to.   *)
EnsureActionPage ==
  /\ Book = "8xbet" /\ Running("prepare")
  /\ opened' = Fixture[Cmd.sel]
  /\ IF opened = opened' THEN UNCHANGED <<slip, clicked>>
     ELSE slip' = NoSlip /\ clicked' = NoSel
  /\ run' = [run EXCEPT !.step = "click"]
  /\ UNCHANGED <<odds, queue, prepared, journal, log, bounds>>

(* findEightXBetOdds on the page; without the button the prepare gives up. *)
PrepareEightXBetClick ==
  /\ Book = "8xbet" /\ Running("click")
  /\ \/ Rejected("done") /\ UNCHANGED <<slip, clicked>>
     \/ /\ FindEightXBetOdds(Cmd.sel)
        /\ Click(Cmd.sel)
        /\ run' = [run EXCEPT !.step = "slip"]
        /\ UNCHANGED <<queue, log>>
  /\ UNCHANGED <<odds, opened, prepared, journal, bounds>>

(* The first card of the cart is read; nothing compares it with the click. *)
PrepareEightXBetSlip ==
  /\ Book = "8xbet" /\ Running("slip")
  /\ \/ Rejected("done") /\ UNCHANGED prepared
     \/ ReadEightXBetSlip # NoOdds /\ Prepare(ReadEightXBetSlip)
  /\ UNCHANGED <<page, journal, bounds>>

-----------------------------------------------------------------------------
(* The journal: one entry per idempotency key, the oldest leaves when it   *)
(* is full.                                                                *)
Entries(k) == {e \in Range(journal) : e.cmd.key = k}

Fits(j) == IF Len(j) >= JournalSize THEN Tail(j) ELSE j

(* Wrong: only a final answer is kept.                                     *)
JournaledFinal(result, o) ==
  journal' = IF result = "odds_changed" THEN journal
             ELSE Append(Fits(journal), [cmd |-> Cmd, result |-> result, odds |-> o])

(* begin and finish of a commit that runs: no other operation comes in     *)
(* between, and every path of a commit ends in finish.                     *)
Journaled(result, o) ==
  journal' = Append(Fits(journal), [cmd |-> Cmd, result |-> result, odds |-> o])

FinishCommit(result, o) ==
  /\ Journaled(result, o)
  /\ Finish(result, o, "done")

SamePrepared(c) == prepared.bet = c.bet /\ prepared.sel = c.sel

(* begin: a known key is answered from its entry, with another payload it  *)
(* is an exception.                                                        *)
CommitKnown ==
  /\ Running("commit")
  /\ \E e \in Entries(Cmd.key) :
       IF e.cmd = Cmd THEN Finish(e.result, e.odds, "cached") ELSE Rejected("refused")
  /\ UNCHANGED <<page, prepared, journal, bounds>>

(* A new key must name the prepared slip and a stake within its limits.    *)
CommitNew ==
  /\ Running("commit") /\ Entries(Cmd.key) = {}
  /\ \/ FinishCommit("rejected", NoOdds)
     \/ /\ SamePrepared(Cmd)
        /\ run' = [run EXCEPT !.step = "check"]
        /\ UNCHANGED <<queue, journal, log>>
  /\ UNCHANGED <<page, prepared, bounds>>

(* The slip is read again: of the prepared slip only the odds are compared.*)
CommitJun88Check ==
  /\ Book = "jun88" /\ Running("check")
  /\ \/ ReadJun88Slip = NoOdds /\ FinishCommit("rejected", NoOdds)
     \/ /\ ReadJun88Slip \notin {NoOdds, Cmd.odds}
        /\ FinishCommit("odds_changed", ReadJun88Slip)
     \/ /\ ReadJun88Slip = Cmd.odds
        /\ run' = [run EXCEPT !.step = "stake"]
        /\ UNCHANGED <<queue, journal, log>>
  /\ UNCHANGED <<page, prepared, bounds>>

CommitEightXBetCheck ==
  /\ Book = "8xbet" /\ Running("check")
  /\ \/ ReadEightXBetSlip = NoOdds /\ FinishCommit("rejected", NoOdds)
     \/ /\ ReadEightXBetSlip # NoOdds
        /\ ReadEightXBetSlip # Cmd.odds \/ IsAcceptPriceState
        /\ FinishCommit("odds_changed", ReadEightXBetSlip)
     \/ /\ ReadEightXBetSlip = Cmd.odds /\ ~IsAcceptPriceState
        /\ run' = [run EXCEPT !.step = "stake"]
        /\ UNCHANGED <<queue, journal, log>>
  /\ UNCHANGED <<page, prepared, bounds>>

(* The stake is typed into whatever slip the page shows, and the worker    *)
(* stops in front of the submit button.  "blocked" is a rejection with     *)
(* that message; the field may also fail to take the amount.               *)
CommitJun88Stake ==
  /\ Book = "jun88" /\ Running("stake")
  /\ \/ FinishCommit("rejected", NoOdds)
     \/ FindJun88Sidebar /\ FinishCommit("blocked", NoOdds)
  /\ UNCHANGED <<page, prepared, bounds>>

(* At 8xbet the button is looked at once more after the keypad; a price it *)
(* wants accepted is reported, or is a rejection when it cannot be read.   *)
CommitEightXBetStake ==
  /\ Book = "8xbet" /\ Running("stake")
  /\ \E entered \in EnterEightXBetStake :
       CASE entered /\ ~IsAcceptPriceState -> FinishCommit("blocked", NoOdds)
         [] entered /\ IsAcceptPriceState /\ ReadEightXBetSlip # NoOdds ->
              FinishCommit("odds_changed", ReadEightXBetSlip)
         [] OTHER -> FinishCommit("rejected", NoOdds)
  /\ UNCHANGED <<page, prepared, bounds>>

-----------------------------------------------------------------------------
(* Wrong: the cancelled slip stays prepared.                               *)
CancelKeepsPrepared ==
  /\ Running("cancel") /\ SamePrepared(Cmd)
  /\ \/ slip' = NoSlip /\ clicked' = NoSel
     \/ Book = "jun88" /\ UNCHANGED <<slip, clicked>>
  /\ opened' = IF Book = "jun88" THEN opened ELSE NoSel
  /\ Finish("cancelled", NoOdds, "done")
  /\ UNCHANGED <<odds, prepared, journal, bounds>>

(* cancel: presses the cancel button of the sidebar, or closes the page.   *)
CancelPrepared ==
  /\ Running("cancel") /\ SamePrepared(Cmd)
  /\ prepared' = None
  /\ \/ slip' = NoSlip /\ clicked' = NoSel
     \/ Book = "jun88" /\ UNCHANGED <<slip, clicked>>
  /\ opened' = IF Book = "jun88" THEN opened ELSE NoSel
  /\ Finish("cancelled", NoOdds, "done")
  /\ UNCHANGED <<odds, journal, bounds>>

CancelUnknown ==
  /\ Running("cancel") /\ ~SamePrepared(Cmd)
  /\ Rejected("done")
  /\ UNCHANGED <<page, prepared, journal, bounds>>

(* reconcile: the journal's answer; without an entry "no submit was        *)
(* performed"; with another correlation it is an exception.                *)
Reconcile ==
  /\ Running("reconcile")
  /\ \/ Entries(Cmd.key) = {} /\ Rejected("missing")
     \/ \E e \in Entries(Cmd.key) :
          IF e.cmd.bet = Cmd.bet THEN Finish(e.result, e.odds, "cached")
          ELSE Rejected("refused")
  /\ UNCHANGED <<page, prepared, journal, bounds>>

-----------------------------------------------------------------------------
Operation ==
  \/ StartOperation
  \/ PrepareJun88Click \/ PrepareJun88Slip
  \/ EnsureActionPage \/ PrepareEightXBetClick \/ PrepareEightXBetSlip
  \/ CommitKnown \/ CommitNew
  \/ CommitJun88Check \/ CommitEightXBetCheck
  \/ CommitJun88Stake \/ CommitEightXBetStake
  \/ CancelPrepared \/ CancelUnknown \/ Reconcile

Environment ==
  \/ \E s \in Selections : OddsMove(s)
  \/ SlipFollows \/ ClickShows \/ SlipLost

Next ==
  \/ Operation \/ Environment
  \/ \E c \in Commands : ReceiveFrame(c)

Spec == Init /\ [][Next]_vars

-----------------------------------------------------------------------------
TypeOK ==
  /\ odds \in [Selections -> Odds \cup {NoOdds}]
  /\ slip.sel \in Selections \cup {NoSel} /\ slip.odds \in Odds \cup {NoOdds}
  /\ clicked \in Selections \cup {NoSel}
  /\ queue \in Seq(Commands)
  /\ run.step \in {"idle", "prepare", "click", "slip", "commit", "check", "stake",
                   "cancel", "reconcile"}
  /\ prepared.sel \in Selections \cup {NoSel}
  /\ Len(journal) <= JournalSize

Attempted(e) == e.cmd.op = "commit" /\ e.why = "done"

(* A commit works on the page only for the slip of the last prepare that   *)
(* succeeded, and only while nothing cancelled it: between the prepare's   *)
(* answer and the commit's there is no other prepare and no cancel.        *)
CommitFollowsItsPrepare ==
  \A i \in DOMAIN log :
    Attempted(log[i]) /\ log[i].result \in {"odds_changed", "blocked"} =>
      \E j \in 1..(i - 1) :
        /\ log[j].result = "prepared"
        /\ log[j].cmd.bet = log[i].cmd.bet /\ log[j].cmd.sel = log[i].cmd.sel
        /\ \A k \in (j + 1)..(i - 1) : log[k].result \notin {"prepared", "cancelled"}

(* The keys tried on the page in the answers a..b of s, but for one; and   *)
(* those tried between two answers, but for that of the first.             *)
KeysTried(s, a, b, key) == {s[k].cmd.key : k \in {n \in a..b : Attempted(s[n])}} \ {key}
OthersBetween(i, j) == KeysTried(log, i + 1, j - 1, log[i].cmd.key)

(* What a commit was answered is what every retry with the same payload    *)
(* and every reconcile of that bet and key is answered, however the page   *)
(* moves on, unless the command was refused as expired or mismatched, or   *)
(* JournalSize other keys have pushed this one out of the journal.         *)
OneAnswerPerKey ==
  \A i \in DOMAIN log : \A j \in (i + 1)..Len(log) :
    /\ Attempted(log[i])
    /\ \/ log[j].cmd = log[i].cmd
       \/ log[j].cmd.op = "reconcile" /\ log[j].cmd.key = log[i].cmd.key
                                      /\ log[j].cmd.bet = log[i].cmd.bet
    /\ log[j].why # "refused"
    => \/ log[j].result = log[i].result /\ log[j].odds = log[i].odds
       \/ Cardinality(OthersBetween(i, j)) >= JournalSize

(* A key works on the page a second time only after JournalSize other keys *)
(* pushed it out of the journal.                                           *)
RepeatOnlyAfterEviction ==
  \A i \in DOMAIN log : \A j \in (i + 1)..Len(log) :
    Attempted(log[i]) /\ Attempted(log[j]) /\ log[i].cmd.key = log[j].cmd.key =>
      Cardinality(OthersBetween(i, j)) >= JournalSize

(* The odds a prepare reports are odds its selection had while it ran,     *)
(* even when the slip still shows an earlier click.                        *)
PreparedOddsWereOffered ==
  \A i \in DOMAIN log :
    log[i].result = "prepared" => log[i].odds \in log[i].seen
=============================================================================
