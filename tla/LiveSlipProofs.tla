---------------------------- MODULE LiveSlipProofs ----------------------------
(***************************************************************************)
(* For all commands, selections, prices and sizes of the journal, and      *)
(* however the page moves: a commit works only for the slip of the prepare *)
(* before it, its answer is kept for every retry and reconcile until the   *)
(* journal has no room for it, and no key is tried twice before that; at   *)
(* Jun88 a prepare reports odds that were on offer.                        *)
(***************************************************************************)
EXTENDS LiveSlip, SequenceTheorems, FiniteSetTheorems, TLAPS

-----------------------------------------------------------------------------
(* The inductive invariant.                                                *)

Offered == Odds \cup {NoOdds}

Bets == {c.bet : c \in Commands} \cup {"none"}

CommitResults == {"rejected", "odds_changed", "blocked"}

Entry == [cmd : Commands, result : CommitResults, odds : Offered]

Reply == [cmd : Commands, result : CommitResults \cup {"prepared", "cancelled"}, odds : Offered,
          why : {"done", "cached", "missing", "refused"}, seen : SUBSET Offered]

PrepareSteps == {"prepare", "click", "slip"}
CommitSteps == {"commit", "check", "stake"}

Types ==
  /\ odds \in [Selections -> Offered]
  /\ slip \in [sel : Selections \cup {NoSel}, odds : Offered, accept : BOOLEAN]
  /\ slip.sel = NoSel => slip = NoSlip
  /\ clicked \in Selections \cup {NoSel}
  /\ queue \in Seq(Commands)
  /\ run \in [step : {"idle", "cancel", "reconcile"} \cup PrepareSteps \cup CommitSteps,
              raw : Offered, seen : SUBSET Offered]
  /\ prepared \in [bet : Bets, sel : Selections \cup {NoSel}, odds : Offered]
  /\ journal \in Seq(Entry) /\ Len(journal) <= JournalSize
  /\ log \in Seq(Reply)

(* What the running operation has established: it is the one of the head   *)
(* of the queue; past its check a commit is new and names the prepared     *)
(* slip; a prepare has seen the odds on offer, and those it clicked.       *)
RunFits ==
  run.step # "idle" =>
    /\ queue # <<>>
    /\ Cmd.op = "prepare" <=> run.step \in PrepareSteps
    /\ Cmd.op = "commit" <=> run.step \in CommitSteps
    /\ Cmd.op = "cancel" <=> run.step = "cancel"
    /\ run.step \in {"check", "stake"} => SamePrepared(Cmd) /\ Entries(Cmd.key) = {}
    /\ run.step \in PrepareSteps => odds[Cmd.sel] \in run.seen
    /\ run.step = "slip" /\ Book = "jun88" => run.raw \in run.seen

(* The prepared slip is that of the last prepare that succeeded, and       *)
(* nothing was cancelled since.                                            *)
PreparedFits ==
  prepared.sel # NoSel =>
    \E j \in 1..Len(log) :
      /\ log[j].result = "prepared"
      /\ log[j].cmd.bet = prepared.bet /\ log[j].cmd.sel = prepared.sel
      /\ \A k \in (j + 1)..Len(log) : log[k].result \notin {"prepared", "cancelled"}

(* No two entries of the journal have one key.                             *)
OneEntryPerKey ==
  \A m, n \in 1..Len(journal) : journal[m].cmd.key = journal[n].cmd.key => m = n

(* After answer i the key was tried on the page.                           *)
TriedAfter(i, key) ==
  \E k \in (i + 1)..Len(log) : Attempted(log[k]) /\ log[k].cmd.key = key

(* The entries are ordered by the last attempt at their keys.              *)
JournalOrdered ==
  \A m, n \in 1..Len(journal) : m < n =>
    \A i \in 1..Len(log) :
      Attempted(log[i]) /\ log[i].cmd.key = journal[m].cmd.key => TriedAfter(i, journal[n].cmd.key)

(* The answer of an attempt is in the journal, or enough other keys were   *)
(* tried since.                                                            *)
IsEntryOf(n, i) ==
  /\ journal[n].cmd = log[i].cmd
  /\ journal[n].result = log[i].result /\ journal[n].odds = log[i].odds

PushedOut(i) == Cardinality(OthersBetween(i, Len(log) + 1)) >= JournalSize

AttemptsKept ==
  \A i \in 1..Len(log) : Attempted(log[i]) =>
    (\E n \in 1..Len(journal) : IsEntryOf(n, i)) \/ PushedOut(i)

JournalInv == OneEntryPerKey /\ JournalOrdered /\ AttemptsKept

IInv == Types /\ RunFits /\ PreparedFits /\ JournalInv

-----------------------------------------------------------------------------
(* Sequences.                                                              *)

(* Appending an element adds one place at the end.                         *)
LEMMA Appended ==
  ASSUME NEW S, NEW s \in Seq(S), NEW e \in S
  PROVE  /\ Append(s, e) \in Seq(S)
         /\ Len(Append(s, e)) = Len(s) + 1 /\ Len(s) \in Nat
         /\ \A i \in 1..Len(s) : Append(s, e)[i] = s[i]
         /\ Append(s, e)[Len(s) + 1] = e
  BY AppendProperties, LenProperties

(* Taking the head moves everything else up.                               *)
LEMMA Taken ==
  ASSUME NEW S, NEW s \in Seq(S), s # <<>>
  PROVE  /\ Tail(s) \in Seq(S) /\ Head(s) \in S /\ Head(s) = s[1]
         /\ Len(s) \in Nat /\ 1 \in 1..Len(s)
         /\ Len(Tail(s)) = Len(s) - 1
         /\ \A i \in 1..Len(Tail(s)) : Tail(s)[i] = s[i + 1] /\ i + 1 \in 2..Len(s)
  BY HeadTailProperties, EmptySeq, LenProperties

(* The head of a queue that is not empty stays when something joins it.    *)
LEMMA HeadStays ==
  ASSUME NEW S, NEW s \in Seq(S), s # <<>>, NEW e \in S
  PROVE  Append(s, e) # <<>> /\ Head(Append(s, e)) = Head(s)
<1>1. /\ Append(s, e) \in Seq(S) /\ Len(Append(s, e)) = Len(s) + 1
      /\ Append(s, e)[1] = s[1] /\ Head(s) = s[1] /\ Len(s) \in Nat
  BY Appended, Taken
<1>2. Append(s, e) # <<>>
  BY <1>1, EmptySeq
<1> QED BY <1>1, <1>2, Taken

(* The entries of a key are places of the journal.                         *)
LEMMA EntriesArePlaces ==
  ASSUME journal \in Seq(Entry), NEW k, NEW e
  PROVE  e \in Entries(k) <=>
           \E n \in 1..Len(journal) : journal[n] = e /\ journal[n].cmd.key = k
<1>1. DOMAIN journal = 1..Len(journal)
  BY LenProperties
<1>2. Range(journal) = {journal[n] : n \in 1..Len(journal)}
  BY <1>1 DEF Range
<1> QED BY <1>2 DEF Entries

-----------------------------------------------------------------------------
(* What a step says and writes.                                            *)

ReplyTo(c, result, o, why) ==
  [cmd |-> c, result |-> result, odds |-> o, why |-> why,
   seen |-> IF result = "prepared" THEN run.seen ELSE {}]

Silent == UNCHANGED <<log, journal, prepared>>

(* An exception; an answer from the journal or for want of an entry; a     *)
(* prepare or cancel that fails.                                           *)
Refuses(r) == r.why = "refused" /\ UNCHANGED <<journal, prepared>>

Recalls(r) ==
  /\ r.why \in {"cached", "missing"} /\ r.cmd.op \in {"commit", "reconcile"}
  /\ r.result \in CommitResults
  /\ \/ \E e \in Entries(r.cmd.key) : e.result = r.result /\ e.odds = r.odds
     \/ Entries(r.cmd.key) = {}
  /\ UNCHANGED <<journal, prepared>>

Fails(r) ==
  /\ r.cmd.op \in {"prepare", "cancel"} /\ r.result = "rejected"
  /\ UNCHANGED <<journal, prepared>>

(* A commit that works on the page, as a new one.                          *)
Attempts(r) ==
  /\ r.why = "done" /\ r.cmd.op = "commit" /\ r.result \in CommitResults
  /\ Entries(r.cmd.key) = {}
  /\ journal' = Append(Fits(journal), [cmd |-> r.cmd, result |-> r.result, odds |-> r.odds])
  /\ r.result # "rejected" => SamePrepared(r.cmd)
  /\ UNCHANGED prepared

Prepares(r) ==
  /\ r.cmd.op = "prepare" /\ r.result = "prepared"
  /\ prepared' = [bet |-> r.cmd.bet, sel |-> r.cmd.sel, odds |-> r.odds]
  /\ Book = "jun88" => r.odds \in r.seen
  /\ UNCHANGED journal

Cancels(r) ==
  /\ r.cmd.op = "cancel" /\ r.result = "cancelled"
  /\ prepared' = None
  /\ UNCHANGED journal

Told(r) ==
  /\ log' = Append(log, r)
  /\ r.why = "refused" => r.result = "rejected"
  /\ Refuses(r) \/ Recalls(r) \/ Fails(r) \/ Attempts(r) \/ Prepares(r) \/ Cancels(r)

Speaks == \E r \in Reply : Told(r)

(* What the proof needs of a step: it leaves the page, the queue and the   *)
(* running operation in order, and is silent or answers one command.       *)
Sound == Types' /\ RunFits' /\ (Silent \/ Speaks)

(* The variables of the page and of the operations but for log and queue.  *)
PageTyped ==
  /\ odds \in [Selections -> Offered]
  /\ slip \in [sel : Selections \cup {NoSel}, odds : Offered, accept : BOOLEAN]
  /\ slip.sel = NoSel => slip = NoSlip
  /\ clicked \in Selections \cup {NoSel}
  /\ prepared \in [bet : Bets, sel : Selections \cup {NoSel}, odds : Offered]
  /\ journal \in Seq(Entry) /\ Len(journal) <= JournalSize

(* The command at the head.                                                *)
LEMMA HeadIsCommand ==
  ASSUME LiveSlipAssumption, Types, queue # <<>>
  PROVE  /\ Cmd \in Commands /\ Cmd.sel \in Selections /\ Cmd.bet \in Bets
         /\ Cmd.op \in {"prepare", "commit", "cancel", "reconcile"}
         /\ Cmd.odds \in Odds /\ Tail(queue) \in Seq(Commands)
<1>1. Cmd \in Commands /\ Tail(queue) \in Seq(Commands)
  BY Taken DEF Types, Cmd
<1> QED BY <1>1 DEF LiveSlipAssumption, Command, Bets

(* The answer of the head ends the operation.                              *)
LEMMA FinishSound ==
  ASSUME LiveSlipAssumption, Types, queue # <<>>, PageTyped',
         NEW result \in CommitResults \cup {"prepared", "cancelled"},
         NEW o \in Offered, NEW why \in {"done", "cached", "missing", "refused"},
         Finish(result, o, why),
         Told(ReplyTo(Cmd, result, o, why))
  PROVE  Sound
<1> DEFINE r == ReplyTo(Cmd, result, o, why)
<1>1. Cmd \in Commands /\ Tail(queue) \in Seq(Commands)
  BY HeadIsCommand
<1>2. r \in Reply
  BY <1>1 DEF Types, Reply, ReplyTo
<1>3. log' = Append(log, r) /\ queue' = Tail(queue) /\ run' = Idle
  BY DEF Finish, Answer, ReplyTo
<1>4. log' \in Seq(Reply)
  BY <1>2, <1>3, Appended DEF Types
<1>5. Types'
  BY <1>1, <1>3, <1>4 DEF Types, PageTyped, Idle, Offered
<1>6. RunFits'
  BY <1>3 DEF RunFits, Idle
<1>7. Speaks
  BY <1>2 DEF Speaks
<1> QED BY <1>5, <1>6, <1>7 DEF Sound

(* The page of a step that leaves it, and what the operations keep, alone. *)
LEMMA PageUnchanged ==
  ASSUME Types, UNCHANGED <<odds, slip, clicked, prepared, journal>>
  PROVE  PageTyped'
  BY DEF Types, PageTyped

-----------------------------------------------------------------------------
(* The page and the sink.                                                  *)

(* A step of the page that writes neither odds nor operations.             *)
LEMMA PageMoves ==
  ASSUME Types, RunFits, PageTyped', UNCHANGED <<odds, queue, run, prepared, journal, log>>
  PROVE  Sound
<1>1. Types'
  BY DEF Types, PageTyped
<1>2. RunFits'
  BY DEF RunFits, Cmd, Entries, SamePrepared
<1> QED BY <1>1, <1>2 DEF Sound, Silent

(* A selection shown in the slip.                                          *)
LEMMA ShownTyped ==
  ASSUME LiveSlipAssumption, Types, NEW s \in Selections
  PROVE  /\ Shows(s) \in [sel : Selections \cup {NoSel}, odds : Offered, accept : BOOLEAN]
         /\ Shows(s).sel # NoSel
  BY DEF LiveSlipAssumption, Types, Shows

(* A price moves: the running prepare of the selection sees it.            *)
LEMMA OddsMoveSound ==
  ASSUME LiveSlipAssumption, Types, RunFits, NEW s \in Selections, OddsMove(s)
  PROVE  Sound
<1>1. PICK o \in Offered : odds' = [odds EXCEPT ![s] = o]
  BY DEF OddsMove, Offered
<1>2. odds' \in [Selections -> Offered] /\ odds'[s] = o
  BY <1>1 DEF Types
<1>3. run' = IF run.step = "idle" \/ Cmd.op # "prepare" \/ Cmd.sel # s THEN run
             ELSE [run EXCEPT !.seen = @ \cup {odds'[s]}]
  BY DEF OddsMove
<1>4. run' \in [step : {"idle", "cancel", "reconcile"} \cup PrepareSteps \cup CommitSteps,
                raw : Offered, seen : SUBSET Offered]
  BY <1>2, <1>3 DEF Types
<1>5. UNCHANGED <<slip, clicked, queue, prepared, journal, log>>
  BY DEF OddsMove
<1>6. Types'
  BY <1>2, <1>4, <1>5 DEF Types
<1>7. run'.step = run.step /\ run'.raw = run.raw /\ run.seen \subseteq run'.seen
  BY <1>3 DEF Types
<1>8. ASSUME run.step \in PrepareSteps, RunFits, queue # <<>>
      PROVE  odds'[Cmd.sel] \in run'.seen
  <2>1. run.step # "idle" /\ Cmd.op = "prepare" /\ odds[Cmd.sel] \in run.seen
    BY <1>8 DEF RunFits, PrepareSteps
  <2>2. Cmd.sel \in Selections
    BY <1>8, HeadIsCommand
  <2>3. CASE Cmd.sel = s
    BY <2>1, <2>3, <1>3 DEF Types
  <2>4. CASE Cmd.sel # s
    BY <2>1, <2>2, <2>4, <1>1, <1>7 DEF Types
  <2> QED BY <2>3, <2>4
<1>9. Cmd' = Cmd /\ UNCHANGED SamePrepared(Cmd) /\ UNCHANGED Entries(Cmd.key)
  BY <1>5 DEF Cmd, SamePrepared, Entries
<1>10. RunFits'
  BY <1>5, <1>7, <1>8, <1>9 DEF RunFits
<1> QED BY <1>5, <1>6, <1>10 DEF Sound, Silent

(* The other moves of the page.                                            *)
LEMMA SlipFollowsSound ==
  ASSUME LiveSlipAssumption, Types, RunFits, SlipFollows
  PROVE  Sound
<1>1. slip.sel \in Selections /\ odds[slip.sel] \in Offered
  BY DEF Types, SlipFollows
<1>2. PageTyped'
  BY <1>1 DEF Types, PageTyped, SlipFollows, LiveSlipAssumption
<1> QED BY <1>2, PageMoves DEF SlipFollows

(* The page shows what was clicked.                                        *)
LEMMA ClickShowsSound ==
  ASSUME LiveSlipAssumption, Types, RunFits, ClickShows
  PROVE  Sound
<1>1. clicked \in Selections
  BY DEF Types, ClickShows
<1>2. PageTyped'
  BY <1>1, ShownTyped DEF Types, PageTyped, ClickShows
<1> QED BY <1>2, PageMoves DEF ClickShows

(* The page loses its slip.                                                *)
LEMMA SlipLostSound ==
  ASSUME LiveSlipAssumption, Types, RunFits, SlipLost
  PROVE  Sound
<1>1. PageTyped'
  BY DEF Types, PageTyped, SlipLost, NoSlip, Offered
<1> QED BY <1>1, PageMoves DEF SlipLost

(* A frame joins the queue, or has expired and is refused at once.         *)
LEMMA ReceiveFrameSound ==
  ASSUME LiveSlipAssumption, Types, RunFits, NEW c \in Commands, ReceiveFrame(c)
  PROVE  Sound
<1>1. UNCHANGED <<odds, slip, clicked, run, prepared, journal>>
  BY DEF ReceiveFrame, page
<1>2. CASE queue' = Append(queue, c) /\ UNCHANGED log
  <2>1. queue' \in Seq(Commands)
    BY <1>2, Appended DEF Types
  <2>2. Types'
    BY <1>1, <1>2, <2>1 DEF Types
  <2>3. run.step # "idle" => queue' # <<>> /\ Cmd' = Cmd
    BY <1>2, HeadStays DEF RunFits, Types, Cmd
  <2>4. RunFits'
    BY <1>1, <2>3 DEF RunFits, SamePrepared, Entries
  <2> QED BY <1>1, <1>2, <2>2, <2>4 DEF Sound, Silent
<1>3. CASE Answer(c, "rejected", NoOdds, "refused") /\ UNCHANGED queue
  <2> DEFINE r == ReplyTo(c, "rejected", NoOdds, "refused")
  <2>1. r \in Reply /\ log' = Append(log, r)
    BY <1>3 DEF Reply, ReplyTo, Answer, CommitResults, Offered
  <2>2. log' \in Seq(Reply)
    BY <2>1, Appended DEF Types
  <2>3. Types'
    BY <1>1, <1>3, <2>2 DEF Types
  <2>4. RunFits'
    BY <1>1, <1>3 DEF RunFits, SamePrepared, Entries, Cmd
  <2>5. Told(r)
    BY <1>1, <2>1 DEF Told, Refuses, ReplyTo
  <2> QED BY <2>1, <2>3, <2>4, <2>5 DEF Sound, Speaks
<1> QED BY <1>2, <1>3 DEF ReceiveFrame

-----------------------------------------------------------------------------
(* The operations.                                                         *)

(* A step to the next one of the running operation.                        *)
LEMMA OperationGoesOn ==
  ASSUME Types, PageTyped', UNCHANGED <<queue, journal, log, prepared>>,
         run' \in [step : {"idle", "cancel", "reconcile"} \cup PrepareSteps \cup CommitSteps,
                   raw : Offered, seen : SUBSET Offered],
         RunFits'
  PROVE  Sound
<1>1. Types'
  BY DEF Types, PageTyped
<1> QED BY <1>1 DEF Sound, Silent

(* A rejection by an exception.                                            *)
LEMMA RefusedSound ==
  ASSUME LiveSlipAssumption, Types, queue # <<>>, Rejected("refused"),
         UNCHANGED <<odds, slip, clicked, prepared, journal>>
  PROVE  Sound
<1> DEFINE r == ReplyTo(Cmd, "rejected", NoOdds, "refused")
<1>1. Finish("rejected", NoOdds, "refused") /\ log' = Append(log, r)
  BY DEF Rejected, Finish, Answer, ReplyTo
<1>2. Told(r)
  BY <1>1 DEF Told, Refuses, ReplyTo
<1> QED BY <1>1, <1>2, PageUnchanged, FinishSound DEF CommitResults, Offered

(* A command is taken from the queue, or refused at once when it expired.  *)
LEMMA StartOperationSound ==
  ASSUME LiveSlipAssumption, Types, RunFits, StartOperation
  PROVE  Sound
<1>1. queue # <<>> /\ UNCHANGED <<odds, slip, clicked, prepared, journal>>
  BY DEF StartOperation, page
<1>2. CASE Rejected("refused")
  BY <1>1, <1>2, RefusedSound
<1>3. CASE /\ run' = [Idle EXCEPT !.step = Cmd.op,
                         !.seen = IF Cmd.op = "prepare" THEN {odds[Cmd.sel]} ELSE {}]
           /\ UNCHANGED <<queue, log>>
  <2>1. /\ Cmd.op \in {"prepare", "commit", "cancel", "reconcile"}
        /\ Cmd.sel \in Selections
    BY <1>1, HeadIsCommand
  <2>2. run' = [step |-> Cmd.op, raw |-> NoOdds,
                seen |-> IF Cmd.op = "prepare" THEN {odds[Cmd.sel]} ELSE {}]
    BY <1>3 DEF Idle
  <2>3. run' \in [step : {"idle", "cancel", "reconcile"} \cup PrepareSteps \cup CommitSteps,
                  raw : Offered, seen : SUBSET Offered]
    BY <2>1, <2>2 DEF Types, PrepareSteps, CommitSteps, Offered
  <2>4. Cmd' = Cmd /\ run'.step = Cmd.op
    BY <1>3, <2>2 DEF Cmd
  <2>5. RunFits'
    BY <1>1, <1>3, <2>1, <2>2, <2>4 DEF RunFits, PrepareSteps, CommitSteps
  <2> QED BY <1>1, <1>3, <2>3, <2>5, PageUnchanged, OperationGoesOn
<1> QED BY <1>2, <1>3 DEF StartOperation

(* A prepare or cancel that fails.                                         *)
LEMMA FailedSound ==
  ASSUME LiveSlipAssumption, Types, queue # <<>>, Rejected("done"),
         Cmd.op \in {"prepare", "cancel"},
         UNCHANGED <<odds, slip, clicked, prepared, journal>>
  PROVE  Sound
<1> DEFINE r == ReplyTo(Cmd, "rejected", NoOdds, "done")
<1>1. Finish("rejected", NoOdds, "done") /\ log' = Append(log, r)
  BY DEF Rejected, Finish, Answer, ReplyTo
<1>2. Told(r)
  BY <1>1 DEF Told, Fails, ReplyTo
<1> QED BY <1>1, <1>2, PageUnchanged, FinishSound DEF CommitResults, Offered

(* The page after a click.                                                 *)
LEMMA ClickTyped ==
  ASSUME LiveSlipAssumption, Types, NEW s \in Selections, Click(s),
         UNCHANGED <<odds, prepared, journal>>
  PROVE  PageTyped'
  BY ShownTyped DEF Types, PageTyped, Click

(* Jun88: a prepare clicks its selection, or fails before it.              *)
LEMMA PrepareJun88ClickSound ==
  ASSUME LiveSlipAssumption, Types, RunFits, PrepareJun88Click
  PROVE  Sound
<1>1. /\ run.step = "prepare" /\ queue # <<>> /\ Book = "jun88"
      /\ UNCHANGED <<odds, prepared, journal>>
  BY DEF PrepareJun88Click, Running
<1>2. Cmd.op = "prepare" /\ odds[Cmd.sel] \in run.seen /\ Cmd.sel \in Selections
  BY <1>1, HeadIsCommand DEF RunFits, PrepareSteps
<1>3. CASE Rejected("done") /\ UNCHANGED <<slip, clicked>>
  BY <1>1, <1>2, <1>3, FailedSound
<1>4. CASE /\ Click(Cmd.sel)
           /\ run' = [run EXCEPT !.step = "slip", !.raw = odds[Cmd.sel]]
           /\ UNCHANGED <<queue, log>>
  <2>1. PageTyped'
    BY <1>1, <1>2, <1>4, ClickTyped
  <2>2. /\ run'.step = "slip" /\ run'.raw = odds[Cmd.sel] /\ run'.seen = run.seen
        /\ run' \in [step : {"idle", "cancel", "reconcile"} \cup PrepareSteps \cup CommitSteps,
                     raw : Offered, seen : SUBSET Offered]
    BY <1>2, <1>4 DEF Types, PrepareSteps
  <2>3. RunFits'
    BY <1>1, <1>2, <1>4, <2>2 DEF RunFits, PrepareSteps, CommitSteps, Cmd
  <2> QED BY <1>1, <1>4, <2>1, <2>2, <2>3, OperationGoesOn
<1> QED BY <1>3, <1>4 DEF PrepareJun88Click

(* A prepare that succeeds.                                                *)
LEMMA PreparedSound ==
  ASSUME LiveSlipAssumption, Types, queue # <<>>, NEW o \in Offered, Prepare(o),
         Cmd.op = "prepare", Book = "jun88" => o \in run.seen,
         UNCHANGED <<odds, slip, clicked, journal>>
  PROVE  Sound
<1> DEFINE r == ReplyTo(Cmd, "prepared", o, "done")
<1>1. Finish("prepared", o, "done") /\ log' = Append(log, r)
  BY DEF Prepare, Finish, Answer, ReplyTo
<1>2. PageTyped'
  BY HeadIsCommand DEF Types, PageTyped, Prepare
<1>3. Told(r)
  BY <1>1 DEF Told, Prepares, Prepare, ReplyTo
<1> QED BY <1>1, <1>2, <1>3, FinishSound

(* Jun88: a prepare reads the slip and keeps what it offers.               *)
LEMMA PrepareJun88SlipSound ==
  ASSUME LiveSlipAssumption, Types, RunFits, PrepareJun88Slip
  PROVE  Sound
<1>1. /\ run.step = "slip" /\ queue # <<>> /\ Book = "jun88"
      /\ UNCHANGED <<odds, slip, clicked, journal>>
  BY DEF PrepareJun88Slip, Running, page
<1>2. Cmd.op = "prepare" /\ run.raw \in run.seen /\ run.raw \in Offered
  BY <1>1 DEF RunFits, PrepareSteps, Types
<1>3. CASE Rejected("done") /\ UNCHANGED prepared
  BY <1>1, <1>2, <1>3, FailedSound
<1>4. CASE ReadJun88Slip = run.raw /\ Prepare(ReadJun88Slip)
  BY <1>1, <1>2, <1>4, PreparedSound
<1> QED BY <1>3, <1>4 DEF PrepareJun88Slip

(* 8xbet: a prepare brings the page back where bets are placed.            *)
LEMMA EnsureActionPageSound ==
  ASSUME LiveSlipAssumption, Types, RunFits, EnsureActionPage
  PROVE  Sound
<1>1. /\ run.step = "prepare" /\ queue # <<>> /\ Book = "8xbet"
      /\ UNCHANGED <<odds, prepared, journal, queue, log>>
      /\ run' = [run EXCEPT !.step = "click"]
  BY DEF EnsureActionPage, Running
<1>2. PageTyped'
  <2>1. CASE UNCHANGED <<slip, clicked>>
    BY <1>1, <2>1, PageUnchanged
  <2>2. CASE slip' = NoSlip /\ clicked' = NoSel
    BY <1>1, <2>2 DEF Types, PageTyped, NoSlip, Offered
  <2> QED BY <2>1, <2>2 DEF EnsureActionPage
<1>3. /\ run'.step = "click" /\ run'.seen = run.seen
      /\ run' \in [step : {"idle", "cancel", "reconcile"} \cup PrepareSteps \cup CommitSteps,
                   raw : Offered, seen : SUBSET Offered]
  BY <1>1 DEF Types, PrepareSteps
<1>4. RunFits'
  BY <1>1, <1>3 DEF RunFits, PrepareSteps, CommitSteps, Cmd
<1> QED BY <1>1, <1>2, <1>3, <1>4, OperationGoesOn

(* 8xbet: a prepare clicks its selection, or fails before it.              *)
LEMMA PrepareEightXBetClickSound ==
  ASSUME LiveSlipAssumption, Types, RunFits, PrepareEightXBetClick
  PROVE  Sound
<1>1. /\ run.step = "click" /\ queue # <<>> /\ Book = "8xbet"
      /\ UNCHANGED <<odds, prepared, journal>>
  BY DEF PrepareEightXBetClick, Running
<1>2. Cmd.op = "prepare" /\ odds[Cmd.sel] \in run.seen /\ Cmd.sel \in Selections
  BY <1>1, HeadIsCommand DEF RunFits, PrepareSteps
<1>3. CASE Rejected("done") /\ UNCHANGED <<slip, clicked>>
  BY <1>1, <1>2, <1>3, FailedSound
<1>4. CASE /\ Click(Cmd.sel)
           /\ run' = [run EXCEPT !.step = "slip"]
           /\ UNCHANGED <<queue, log>>
  <2>1. PageTyped'
    BY <1>1, <1>2, <1>4, ClickTyped
  <2>2. /\ run'.step = "slip" /\ run'.seen = run.seen
        /\ run' \in [step : {"idle", "cancel", "reconcile"} \cup PrepareSteps \cup CommitSteps,
                     raw : Offered, seen : SUBSET Offered]
    BY <1>2, <1>4 DEF Types, PrepareSteps
  <2>3. RunFits'
    BY <1>1, <1>2, <1>4, <2>2 DEF RunFits, PrepareSteps, CommitSteps, Cmd
  <2> QED BY <1>1, <1>4, <2>1, <2>2, <2>3, OperationGoesOn
<1> QED BY <1>3, <1>4 DEF PrepareEightXBetClick

(* 8xbet: a prepare reads the slip and keeps what it offers.               *)
LEMMA PrepareEightXBetSlipSound ==
  ASSUME LiveSlipAssumption, Types, RunFits, PrepareEightXBetSlip
  PROVE  Sound
<1>1. /\ run.step = "slip" /\ queue # <<>> /\ Book = "8xbet"
      /\ UNCHANGED <<odds, slip, clicked, journal>>
  BY DEF PrepareEightXBetSlip, Running, page
<1>2. Cmd.op = "prepare"
  BY <1>1 DEF RunFits, PrepareSteps
<1>3. CASE Rejected("done") /\ UNCHANGED prepared
  BY <1>1, <1>2, <1>3, FailedSound
<1>4. CASE Prepare(ReadEightXBetSlip)
  <2>1. ReadEightXBetSlip \in Offered
    BY DEF ReadEightXBetSlip, Types, Offered
  <2> QED BY <1>1, <1>2, <1>4, <2>1, PreparedSound
<1> QED BY <1>3, <1>4 DEF PrepareEightXBetSlip

-----------------------------------------------------------------------------
(* Commits, cancels and reconciles.                                        *)

(* The journal with room for one more entry.                               *)
LEMMA FitsProperties ==
  ASSUME LiveSlipAssumption, journal \in Seq(Entry), Len(journal) <= JournalSize,
         NEW e \in Entry
  PROVE  /\ Fits(journal) \in Seq(Entry) /\ Len(Fits(journal)) \in Nat
         /\ Len(Fits(journal)) < JournalSize
         /\ Append(Fits(journal), e) \in Seq(Entry)
         /\ Len(Append(Fits(journal), e)) = Len(Fits(journal)) + 1
         /\ Len(Append(Fits(journal), e)) <= JournalSize
<1>1. Len(journal) \in Nat /\ JournalSize \in Nat \ {0}
  BY LenProperties DEF LiveSlipAssumption
<1>2. Fits(journal) \in Seq(Entry) /\ Len(Fits(journal)) < JournalSize
  <2>1. CASE Len(journal) >= JournalSize
    <3>1. journal # <<>>
      BY <1>1, <2>1, EmptySeq
    <3> QED BY <1>1, <2>1, <3>1, Taken DEF Fits
  <2>2. CASE ~(Len(journal) >= JournalSize)
    BY <1>1, <2>2 DEF Fits
  <2> QED BY <2>1, <2>2
<1>3. Len(Fits(journal)) \in Nat
  BY <1>2, LenProperties
<1> QED BY <1>1, <1>2, <1>3, Appended

(* A commit that is answered from the page and put into the journal.       *)
LEMMA CommitSound ==
  ASSUME LiveSlipAssumption, Types, queue # <<>>, Cmd.op = "commit",
         Entries(Cmd.key) = {},
         NEW result \in CommitResults, NEW o \in Offered, FinishCommit(result, o),
         result # "rejected" => SamePrepared(Cmd),
         UNCHANGED <<odds, slip, clicked, prepared>>
  PROVE  Sound
<1> DEFINE r == ReplyTo(Cmd, result, o, "done")
<1> DEFINE e == [cmd |-> Cmd, result |-> result, odds |-> o]
<1>1. Finish(result, o, "done") /\ log' = Append(log, r)
  BY DEF FinishCommit, Finish, Answer, ReplyTo
<1>2. journal' = Append(Fits(journal), e)
  BY DEF FinishCommit, Journaled
<1>3. e \in Entry
  BY HeadIsCommand DEF Entry
<1>4. journal' \in Seq(Entry) /\ Len(journal') <= JournalSize
  BY <1>2, <1>3, FitsProperties DEF Types
<1>5. PageTyped'
  BY <1>4 DEF Types, PageTyped
<1>6. Told(r)
  BY <1>1, <1>2 DEF Told, Attempts, ReplyTo
<1> QED BY <1>1, <1>5, <1>6, FinishSound

(* A commit or reconcile that is answered from the journal.                *)
LEMMA RecallSound ==
  ASSUME LiveSlipAssumption, Types, queue # <<>>, Cmd.op \in {"commit", "reconcile"},
         NEW e \in Entries(Cmd.key), Finish(e.result, e.odds, "cached"),
         UNCHANGED <<odds, slip, clicked, prepared, journal>>
  PROVE  Sound
<1>1. e.result \in CommitResults /\ e.odds \in Offered
  <2>1. PICK n \in 1..Len(journal) : journal[n] = e
    BY EntriesArePlaces DEF Types
  <2>2. e \in Entry
    BY <2>1, ElementOfSeq DEF Types
  <2> QED BY <2>2 DEF Entry
<1> DEFINE r == ReplyTo(Cmd, e.result, e.odds, "cached")
<1>2. log' = Append(log, r)
  BY DEF Finish, Answer, ReplyTo
<1>3. r.cmd = Cmd /\ r.result = e.result /\ r.odds = e.odds /\ r.why = "cached"
  BY DEF ReplyTo
<1>4. Recalls(r)
  BY <1>1, <1>3 DEF Recalls
<1>5. Told(r)
  BY <1>2, <1>3, <1>4 DEF Told
<1> QED BY <1>1, <1>5, PageUnchanged, FinishSound

(* A commit whose key is in the journal is answered from it.               *)
LEMMA CommitKnownSound ==
  ASSUME LiveSlipAssumption, Types, RunFits, CommitKnown
  PROVE  Sound
<1>1. /\ run.step = "commit" /\ queue # <<>>
      /\ UNCHANGED <<odds, slip, clicked, prepared, journal>>
  BY DEF CommitKnown, Running, page
<1>2. Cmd.op = "commit"
  BY <1>1 DEF RunFits, CommitSteps
<1>3. PICK e \in Entries(Cmd.key) :
        IF e.cmd = Cmd THEN Finish(e.result, e.odds, "cached") ELSE Rejected("refused")
  BY DEF CommitKnown
<1>4. CASE Finish(e.result, e.odds, "cached")
  BY <1>1, <1>2, <1>4, RecallSound
<1>5. CASE Rejected("refused")
  BY <1>1, <1>5, RefusedSound
<1> QED BY <1>3, <1>4, <1>5

(* A commit on its way to the next look at the slip.                       *)
LEMMA CommitGoesOn ==
  ASSUME Types, RunFits, run.step \in CommitSteps, queue # <<>>,
         NEW step \in {"check", "stake"},
         run' = [run EXCEPT !.step = step], SamePrepared(Cmd), Entries(Cmd.key) = {},
         UNCHANGED <<odds, slip, clicked, prepared, journal, queue, log>>
  PROVE  Sound
<1>1. /\ run'.step = step
      /\ run' \in [step : {"idle", "cancel", "reconcile"} \cup PrepareSteps \cup CommitSteps,
                   raw : Offered, seen : SUBSET Offered]
  BY DEF Types, CommitSteps
<1>2. Cmd.op = "commit"
  BY DEF RunFits, CommitSteps
<1>3. Cmd' = Cmd /\ SamePrepared(Cmd)' /\ (Entries(Cmd.key) = {})'
  BY DEF Cmd, SamePrepared, Entries
<1>4. RunFits'
  BY <1>1, <1>2, <1>3 DEF RunFits, PrepareSteps, CommitSteps
<1> QED BY <1>1, <1>4, PageUnchanged, OperationGoesOn

(* A commit whose key is new enters the journal as unknown.                *)
LEMMA CommitNewSound ==
  ASSUME LiveSlipAssumption, Types, RunFits, CommitNew
  PROVE  Sound
<1>1. /\ run.step = "commit" /\ queue # <<>> /\ Entries(Cmd.key) = {}
      /\ UNCHANGED <<odds, slip, clicked, prepared>>
  BY DEF CommitNew, Running, page
<1>2. Cmd.op = "commit"
  BY <1>1 DEF RunFits, CommitSteps
<1>3. CASE FinishCommit("rejected", NoOdds)
  BY <1>1, <1>2, <1>3, CommitSound DEF CommitResults, Offered
<1>4. CASE /\ SamePrepared(Cmd)
           /\ run' = [run EXCEPT !.step = "check"]
           /\ UNCHANGED <<queue, journal, log>>
  BY <1>1, <1>4, CommitGoesOn DEF CommitSteps
<1> QED BY <1>3, <1>4 DEF CommitNew

(* What is known past the check, and what is read of the slip.             *)
LEMMA PastTheCheck ==
  ASSUME Types, RunFits, run.step \in {"check", "stake"}
  PROVE  /\ queue # <<>> /\ Cmd.op = "commit" /\ run.step \in CommitSteps
         /\ SamePrepared(Cmd) /\ Entries(Cmd.key) = {}
         /\ ReadJun88Slip \in Offered /\ ReadEightXBetSlip \in Offered
<1>1. ReadJun88Slip \in Offered /\ ReadEightXBetSlip \in Offered
  BY DEF ReadJun88Slip, ReadEightXBetSlip, Types, Offered
<1> QED BY <1>1 DEF RunFits, CommitSteps

(* A commit is compared with what was prepared and with the slip.          *)
LEMMA CommitCheckSound ==
  ASSUME LiveSlipAssumption, Types, RunFits, CommitJun88Check \/ CommitEightXBetCheck
  PROVE  Sound
<1>1. run.step = "check" /\ UNCHANGED <<odds, slip, clicked, prepared>>
  BY DEF CommitJun88Check, CommitEightXBetCheck, Running, page
<1>2. /\ queue # <<>> /\ Cmd.op = "commit" /\ run.step \in CommitSteps
      /\ SamePrepared(Cmd) /\ Entries(Cmd.key) = {}
      /\ ReadJun88Slip \in Offered /\ ReadEightXBetSlip \in Offered
  BY <1>1, PastTheCheck
<1>3. CASE \/ FinishCommit("rejected", NoOdds)
           \/ FinishCommit("odds_changed", ReadJun88Slip)
           \/ FinishCommit("odds_changed", ReadEightXBetSlip)
  BY <1>1, <1>2, <1>3, CommitSound DEF CommitResults, Offered
<1>4. CASE run' = [run EXCEPT !.step = "stake"] /\ UNCHANGED <<queue, journal, log>>
  BY <1>1, <1>2, <1>4, CommitGoesOn
<1> QED BY <1>3, <1>4 DEF CommitJun88Check, CommitEightXBetCheck

(* A commit enters its stake and is accepted, refused or unknown.          *)
LEMMA CommitStakeSound ==
  ASSUME LiveSlipAssumption, Types, RunFits, CommitJun88Stake \/ CommitEightXBetStake
  PROVE  Sound
<1>1. run.step = "stake" /\ UNCHANGED <<odds, slip, clicked, prepared>>
  BY DEF CommitJun88Stake, CommitEightXBetStake, Running, page
<1>2. /\ queue # <<>> /\ Cmd.op = "commit"
      /\ SamePrepared(Cmd) /\ Entries(Cmd.key) = {} /\ ReadEightXBetSlip \in Offered
  BY <1>1, PastTheCheck
<1>3. \/ FinishCommit("rejected", NoOdds) \/ FinishCommit("blocked", NoOdds)
      \/ FinishCommit("odds_changed", ReadEightXBetSlip)
  <2>1. CASE CommitJun88Stake
    BY <2>1 DEF CommitJun88Stake
  <2>2. CASE CommitEightXBetStake
    <3>1. PICK entered \in EnterEightXBetStake :
            CASE entered /\ ~IsAcceptPriceState -> FinishCommit("blocked", NoOdds)
              [] entered /\ IsAcceptPriceState /\ ReadEightXBetSlip # NoOdds ->
                   FinishCommit("odds_changed", ReadEightXBetSlip)
              [] OTHER -> FinishCommit("rejected", NoOdds)
      BY <2>2 DEF CommitEightXBetStake
    <3> QED BY <3>1
  <2> QED BY <2>1, <2>2
<1> QED BY <1>1, <1>2, <1>3, CommitSound DEF CommitResults, Offered

(* A cancel drops the prepared bet and its slip.                           *)
LEMMA CancelPreparedSound ==
  ASSUME LiveSlipAssumption, Types, RunFits, CancelPrepared
  PROVE  Sound
<1> DEFINE r == ReplyTo(Cmd, "cancelled", NoOdds, "done")
<1>1. /\ run.step = "cancel" /\ queue # <<>> /\ prepared' = None
      /\ UNCHANGED <<odds, journal>>
      /\ Finish("cancelled", NoOdds, "done") /\ log' = Append(log, r)
  BY DEF CancelPrepared, Running, Finish, Answer, ReplyTo
<1>2. Cmd.op = "cancel"
  BY <1>1 DEF RunFits
<1>3. PageTyped'
  <2>0. prepared' \in [bet : Bets, sel : Selections \cup {NoSel}, odds : Offered]
    BY <1>1 DEF None, Bets, Offered
  <2>1. CASE UNCHANGED <<slip, clicked>>
    BY <1>1, <2>0, <2>1 DEF Types, PageTyped
  <2>2. CASE slip' = NoSlip /\ clicked' = NoSel
    BY <1>1, <2>0, <2>2 DEF Types, PageTyped, NoSlip, Offered
  <2> QED BY <2>1, <2>2 DEF CancelPrepared
<1>4. Told(r)
  BY <1>1, <1>2 DEF Told, Cancels, ReplyTo
<1> QED BY <1>1, <1>3, <1>4, FinishSound DEF Offered

(* A cancel of something that is not prepared is refused.                  *)
LEMMA CancelUnknownSound ==
  ASSUME LiveSlipAssumption, Types, RunFits, CancelUnknown
  PROVE  Sound
<1>1. /\ run.step = "cancel" /\ queue # <<>> /\ Rejected("done")
      /\ UNCHANGED <<odds, slip, clicked, prepared, journal>>
  BY DEF CancelUnknown, Running, page
<1>2. Cmd.op = "cancel"
  BY <1>1 DEF RunFits
<1> QED BY <1>1, <1>2, FailedSound

(* A reconcile: the entry's answer, "missing", or an exception.            *)
LEMMA ReconcileSound ==
  ASSUME LiveSlipAssumption, Types, RunFits, Reconcile
  PROVE  Sound
<1>1. /\ run.step = "reconcile" /\ queue # <<>>
      /\ UNCHANGED <<odds, slip, clicked, prepared, journal>>
  BY DEF Reconcile, Running, page
<1>2. Cmd.op = "reconcile"
  BY <1>1, HeadIsCommand DEF RunFits, PrepareSteps, CommitSteps
<1>3. CASE Entries(Cmd.key) = {} /\ Rejected("missing")
  <2> DEFINE r == ReplyTo(Cmd, "rejected", NoOdds, "missing")
  <2>1. Finish("rejected", NoOdds, "missing") /\ log' = Append(log, r)
    BY <1>3 DEF Rejected, Finish, Answer, ReplyTo
  <2>2. Told(r)
    BY <1>1, <1>2, <1>3, <2>1 DEF Told, Recalls, ReplyTo, CommitResults
  <2> QED BY <1>1, <2>1, <2>2, PageUnchanged, FinishSound DEF CommitResults, Offered
<1>4. CASE \E e \in Entries(Cmd.key) :
             IF e.cmd.bet = Cmd.bet THEN Finish(e.result, e.odds, "cached")
             ELSE Rejected("refused")
  <2>1. PICK e \in Entries(Cmd.key) :
          IF e.cmd.bet = Cmd.bet THEN Finish(e.result, e.odds, "cached")
          ELSE Rejected("refused")
    BY <1>4
  <2>2. CASE Finish(e.result, e.odds, "cached")
    BY <1>1, <1>2, <2>2, RecallSound
  <2>3. CASE Rejected("refused")
    BY <1>1, <2>3, RefusedSound
  <2> QED BY <2>1, <2>2, <2>3
<1> QED BY <1>3, <1>4 DEF Reconcile

(* Every step is sound.                                                    *)
LEMMA StepSound ==
  ASSUME LiveSlipAssumption, Types, RunFits, [Next]_vars
  PROVE  Sound
<1>1. CASE Operation
  BY <1>1, StartOperationSound, PrepareJun88ClickSound, PrepareJun88SlipSound,
     EnsureActionPageSound, PrepareEightXBetClickSound, PrepareEightXBetSlipSound,
     CommitKnownSound, CommitNewSound, CommitCheckSound, CommitStakeSound,
     CancelPreparedSound, CancelUnknownSound, ReconcileSound
  DEF Operation
<1>2. CASE Environment
  BY <1>2, OddsMoveSound, SlipFollowsSound, ClickShowsSound, SlipLostSound DEF Environment
<1>3. CASE \E c \in Commands : ReceiveFrame(c)
  BY <1>3, ReceiveFrameSound
<1>4. CASE UNCHANGED vars
  <2>1. UNCHANGED <<odds, slip, clicked, queue, run, prepared, journal, log>>
    BY <1>4 DEF vars, page
  <2> QED BY <2>1, PageUnchanged, PageMoves
<1> QED BY <1>1, <1>2, <1>3, <1>4 DEF Next

-----------------------------------------------------------------------------
(* What was said, after an answer.                                         *)
LEMMA Logged ==
  ASSUME log \in Seq(Reply), NEW r \in Reply, log' = Append(log, r)
  PROVE  /\ log' \in Seq(Reply) /\ Len(log) \in Nat /\ Len(log') = Len(log) + 1
         /\ \A i \in 1..Len(log) : log'[i] = log[i] /\ log[i] \in Reply
         /\ log'[Len(log) + 1] = r
         /\ DOMAIN log = 1..Len(log) /\ DOMAIN log' = 1..Len(log')
<1>1. log' \in Seq(Reply)
  BY Appended
<1> QED BY <1>1, Appended, LenProperties, ElementOfSeq

(* An attempt that is told is new to the journal.                          *)
LEMMA AttemptIsNew ==
  ASSUME NEW r \in Reply, Told(r), Attempted(r)
  PROVE  Attempts(r)
  BY DEF Told, Attempted, Refuses, Recalls, Fails, Prepares, Cancels

(* The prepared slip stays that of the last prepare.                       *)
LEMMA PreparedFitsKept ==
  ASSUME LiveSlipAssumption, Types, PreparedFits, NEW r \in Reply, Told(r)
  PROVE  PreparedFits'
<1>1. /\ Len(log) \in Nat /\ Len(log') = Len(log) + 1 /\ log'[Len(log) + 1] = r
      /\ \A i \in 1..Len(log) : log'[i] = log[i]
  BY Logged DEF Types, Told
<1>2. CASE UNCHANGED prepared /\ r.result \notin {"prepared", "cancelled"}
  <2> SUFFICES ASSUME prepared.sel # NoSel PROVE PreparedFits'
    BY <1>2 DEF PreparedFits
  <2>1. PICK j \in 1..Len(log) :
          /\ log[j].result = "prepared"
          /\ log[j].cmd.bet = prepared.bet /\ log[j].cmd.sel = prepared.sel
          /\ \A k \in (j + 1)..Len(log) : log[k].result \notin {"prepared", "cancelled"}
    BY DEF PreparedFits
  <2>2. j \in 1..Len(log') /\ log'[j] = log[j]
    BY <1>1
  <2>3. ASSUME NEW k \in (j + 1)..Len(log')
        PROVE  log'[k].result \notin {"prepared", "cancelled"}
    <3>1. CASE k = Len(log) + 1
      BY <1>1, <1>2, <3>1
    <3>2. CASE k # Len(log) + 1
      <4>1. k \in 1..Len(log) /\ k \in (j + 1)..Len(log)
        BY <1>1, <3>2
      <4> QED BY <1>1, <2>1, <4>1
    <3> QED BY <3>1, <3>2
  <2> QED BY <1>2, <2>1, <2>2, <2>3 DEF PreparedFits
<1>3. CASE Prepares(r)
  <2>1. /\ log'[Len(log')] = r /\ r.result = "prepared" /\ Len(log') \in 1..Len(log')
        /\ r.cmd.bet = prepared'.bet /\ r.cmd.sel = prepared'.sel
    BY <1>1, <1>3 DEF Prepares
  <2>2. \A k \in (Len(log') + 1)..Len(log') : FALSE
    BY <1>1
  <2> QED BY <2>1, <2>2 DEF PreparedFits
<1>4. CASE Cancels(r)
  BY <1>4 DEF Cancels, PreparedFits, None
<1>5. Prepares(r) \/ Cancels(r) \/ (UNCHANGED prepared /\ r.result \notin {"prepared", "cancelled"})
  BY DEF Told, Refuses, Recalls, Fails, Attempts, CommitResults
<1> QED BY <1>2, <1>3, <1>4, <1>5

(* A commit that works on the page follows its prepare.                    *)
LEMMA FollowsKept ==
  ASSUME LiveSlipAssumption, Types, PreparedFits, CommitFollowsItsPrepare,
         NEW r \in Reply, Told(r)
  PROVE  CommitFollowsItsPrepare'
<1>1. /\ Len(log) \in Nat /\ Len(log') = Len(log) + 1 /\ log'[Len(log) + 1] = r
      /\ \A i \in 1..Len(log) : log'[i] = log[i]
      /\ DOMAIN log = 1..Len(log) /\ DOMAIN log' = 1..Len(log')
  BY Logged DEF Types, Told
<1> SUFFICES ASSUME NEW i \in 1..Len(log'),
                    Attempted(log'[i]), log'[i].result \in {"odds_changed", "blocked"}
             PROVE  \E j \in 1..(i - 1) :
                      /\ log'[j].result = "prepared"
                      /\ log'[j].cmd.bet = log'[i].cmd.bet /\ log'[j].cmd.sel = log'[i].cmd.sel
                      /\ \A k \in (j + 1)..(i - 1) :
                           log'[k].result \notin {"prepared", "cancelled"}
  BY <1>1 DEF CommitFollowsItsPrepare, Attempted
<1>2. CASE i \in 1..Len(log)
  <2>1. PICK j \in 1..(i - 1) :
          /\ log[j].result = "prepared"
          /\ log[j].cmd.bet = log[i].cmd.bet /\ log[j].cmd.sel = log[i].cmd.sel
          /\ \A k \in (j + 1)..(i - 1) : log[k].result \notin {"prepared", "cancelled"}
    BY <1>1, <1>2 DEF CommitFollowsItsPrepare
  <2>2. \A k \in 1..i : log'[k] = log[k]
    BY <1>1, <1>2
  <2>3. j \in 1..i /\ \A k \in (j + 1)..(i - 1) : k \in 1..i
    BY <1>1, <1>2
  <2> QED BY <2>1, <2>2, <2>3
<1>3. CASE i = Len(log) + 1
  <2>1. Attempted(r) /\ r.result \in {"odds_changed", "blocked"}
    BY <1>1, <1>3
  <2>2. SamePrepared(r.cmd)
    BY <2>1, AttemptIsNew DEF Attempts
  <2>3. r.cmd.sel # NoSel
    BY DEF LiveSlipAssumption, Reply
  <2>4. PICK j \in 1..Len(log) :
          /\ log[j].result = "prepared"
          /\ log[j].cmd.bet = prepared.bet /\ log[j].cmd.sel = prepared.sel
          /\ \A k \in (j + 1)..Len(log) : log[k].result \notin {"prepared", "cancelled"}
    BY <2>2, <2>3 DEF PreparedFits, SamePrepared
  <2>5. i - 1 = Len(log) /\ \A k \in (j + 1)..Len(log) : k \in 1..Len(log)
    BY <1>1, <1>3
  <2>6. log'[j] = log[j] /\ \A k \in (j + 1)..Len(log) : log'[k] = log[k]
    BY <1>1, <2>5
  <2>7. log'[j].cmd.bet = log'[i].cmd.bet /\ log'[j].cmd.sel = log'[i].cmd.sel
    BY <1>1, <1>3, <2>2, <2>4, <2>6 DEF SamePrepared
  <2> QED BY <2>4, <2>5, <2>6, <2>7
<1> QED BY <1>1, <1>2, <1>3

(* At Jun88 the odds a prepare reports were on offer.                      *)
LEMMA OfferedKept ==
  ASSUME Types, PreparedOddsWereOffered, Book = "jun88", NEW r \in Reply, Told(r)
  PROVE  PreparedOddsWereOffered'
<1>1. /\ Len(log) \in Nat /\ Len(log') = Len(log) + 1 /\ log'[Len(log) + 1] = r
      /\ \A i \in 1..Len(log) : log'[i] = log[i]
      /\ DOMAIN log = 1..Len(log) /\ DOMAIN log' = 1..Len(log')
  BY Logged DEF Types, Told
<1>2. r.result = "prepared" => r.odds \in r.seen
  BY DEF Told, Refuses, Recalls, Fails, Attempts, Prepares, Cancels, CommitResults
<1> QED BY <1>1, <1>2 DEF PreparedOddsWereOffered

-----------------------------------------------------------------------------
(* The journal.                                                            *)

(* Finitely many keys are tried between two answers.                       *)
LEMMA KeysFinite ==
  ASSUME NEW s, NEW a \in Int, NEW b \in Int, NEW key
  PROVE  IsFiniteSet(KeysTried(s, a, b, key))
<1> DEFINE K == {n \in a..b : Attempted(s[n])}
<1> DEFINE T == {s[k].cmd.key : k \in K}
<1> DEFINE f == [k \in K |-> s[k].cmd.key]
<1>1. IsFiniteSet(K)
  BY FS_Interval, FS_Subset
<1>2. f \in Surjection(K, T)
  BY DEF Surjection
<1>3. IsFiniteSet(T)
  BY <1>1, <1>2, FS_Surjection
<1> QED BY <1>3, FS_Difference DEF KeysTried

(* A set with the keys of a full journal is as large as the journal.       *)
LEMMA ManyKeys ==
  ASSUME NEW K, IsFiniteSet(K), NEW j \in Seq(Entry),
         \A n \in 1..Len(j) : j[n].cmd.key \in K,
         \A m, n \in 1..Len(j) : j[m].cmd.key = j[n].cmd.key => m = n
  PROVE  Cardinality(K) >= Len(j)
<1> DEFINE f == [n \in 1..Len(j) |-> j[n].cmd.key]
<1>1. Len(j) \in Nat
  BY LenProperties
<1>2. f \in Injection(1..Len(j), K)
  BY DEF Injection, IsInjective
<1>3. Cardinality(1..Len(j)) <= Cardinality(K)
  BY <1>2, FS_Injection
<1>4. Cardinality(1..Len(j)) = Len(j)
  <2>1. Cardinality(1..Len(j)) = IF 1 > Len(j) THEN 0 ELSE Len(j) - 1 + 1
    BY <1>1, FS_Interval
  <2> QED BY <1>1, <2>1
<1>5. Cardinality(K) \in Nat
  BY FS_CardinalityType
<1> QED BY <1>1, <1>3, <1>4, <1>5

(* What was tried between two earlier answers stays.                       *)
LEMMA OthersStay ==
  ASSUME Types, NEW r \in Reply, log' = Append(log, r),
         NEW i \in 1..Len(log), NEW j \in 1..(Len(log) + 1)
  PROVE  OthersBetween(i, j)' = OthersBetween(i, j)
<1>1. Len(log) \in Nat /\ \A k \in 1..Len(log) : log'[k] = log[k]
  BY Logged DEF Types
<1>2. \A k \in (i + 1)..(j - 1) : log'[k] = log[k]
  BY <1>1
<1>3. log'[i] = log[i]
  BY <1>1
<1>4. KeysTried(log', i + 1, j - 1, log[i].cmd.key) = KeysTried(log, i + 1, j - 1, log[i].cmd.key)
  BY <1>2 DEF KeysTried
<1> QED BY <1>3, <1>4 DEF OthersBetween

(* What was tried up to now grows with the answers.                        *)
LEMMA OthersGrow ==
  ASSUME Types, NEW r \in Reply, log' = Append(log, r), NEW i \in 1..Len(log), PushedOut(i),
         LiveSlipAssumption
  PROVE  PushedOut(i)'
<1> DEFINE Old == OthersBetween(i, Len(log) + 1)
<1> DEFINE New == KeysTried(log', i + 1, Len(log) + 1, log'[i].cmd.key)
<1>1. /\ Len(log) \in Nat /\ Len(log') = Len(log) + 1
      /\ \A k \in 1..Len(log) : log'[k] = log[k]
  BY Logged DEF Types
<1>2. OthersBetween(i, Len(log) + 1)' = New
  <2>1. Len(log') + 1 - 1 = Len(log) + 1 /\ Len(log) + 1 + 1 - 1 = Len(log) + 1
    BY <1>1
  <2> QED BY <2>1 DEF OthersBetween
<1>3. IsFiniteSet(New)
  <2>1. i + 1 \in Int /\ Len(log) + 1 \in Int
    BY <1>1
  <2> QED BY <2>1, KeysFinite
<1>4. Old \subseteq New
  <2> SUFFICES ASSUME NEW x \in Old PROVE x \in New
    OBVIOUS
  <2>1. PICK k \in (i + 1)..(Len(log) + 1 - 1) :
          Attempted(log[k]) /\ x = log[k].cmd.key /\ x # log[i].cmd.key
    BY DEF OthersBetween, KeysTried
  <2>2. k \in (i + 1)..(Len(log) + 1) /\ log'[k] = log[k] /\ log'[i] = log[i]
    BY <1>1
  <2> QED BY <2>1, <2>2 DEF KeysTried
<1> HIDE DEF Old, New
<1>5. Cardinality(Old) <= Cardinality(New) /\ Cardinality(Old) \in Nat /\ Cardinality(New) \in Nat
  BY <1>3, <1>4, FS_Subset, FS_CardinalityType
<1>6. Cardinality(Old) >= JournalSize /\ JournalSize \in Nat
  BY DEF PushedOut, LiveSlipAssumption, Old
<1>7. PushedOut(i)' <=> Cardinality(New) >= JournalSize
  BY <1>1, <1>2 DEF PushedOut
<1> QED BY <1>5, <1>6, <1>7

(* An attempt gets the last place of the journal, and the others move up   *)
(* when it was full.                                                       *)
LEMMA JournalShift ==
  ASSUME LiveSlipAssumption, Types, NEW r \in Reply, Attempts(r)
  PROVE  /\ journal' \in Seq(Entry) /\ Len(journal') \in Nat /\ Len(journal) \in Nat
         /\ \A n \in 1..Len(journal) : journal[n].cmd.key # r.cmd.key
         /\ \E d \in {0, 1} :
              /\ Len(journal') = Len(journal) - d + 1
              /\ d = 1 => Len(journal) = JournalSize
              /\ \A n \in 1..(Len(journal') - 1) :
                   n + d \in 1..Len(journal) /\ journal'[n] = journal[n + d]
              /\ \A n \in 1..Len(journal) : n - d \in 1..(Len(journal') - 1) \/ n = d
              /\ Len(journal') \in 1..Len(journal')
              /\ journal'[Len(journal')]
                   = [cmd |-> r.cmd, result |-> r.result, odds |-> r.odds]
<1> DEFINE e == [cmd |-> r.cmd, result |-> r.result, odds |-> r.odds]
           Shift(d) ==
             /\ Len(journal') = Len(journal) - d + 1
             /\ d = 1 => Len(journal) = JournalSize
             /\ \A n \in 1..(Len(journal') - 1) :
                  n + d \in 1..Len(journal) /\ journal'[n] = journal[n + d]
             /\ \A n \in 1..Len(journal) : n - d \in 1..(Len(journal') - 1) \/ n = d
             /\ Len(journal') \in 1..Len(journal')
             /\ journal'[Len(journal')] = e
<1>1. e \in Entry
  BY DEF Reply, Entry, Attempts
<1>2. Len(journal) \in Nat /\ JournalSize \in Nat \ {0} /\ Len(journal) <= JournalSize
  BY LenProperties DEF Types, LiveSlipAssumption
<1>3. /\ Fits(journal) \in Seq(Entry) /\ Len(Fits(journal)) \in Nat
      /\ journal' = Append(Fits(journal), e) /\ journal' \in Seq(Entry)
      /\ Len(journal') = Len(Fits(journal)) + 1
      /\ \A n \in 1..Len(Fits(journal)) : journal'[n] = Fits(journal)[n]
      /\ journal'[Len(journal')] = e
  BY <1>1, FitsProperties, Appended DEF Types, Attempts
<1>4. \A n \in 1..Len(journal) : journal[n].cmd.key # r.cmd.key
  BY EntriesArePlaces DEF Types, Attempts
<1>5. ASSUME Len(journal) >= JournalSize PROVE \E d \in {0, 1} : Shift(d)
  <2>1. journal # <<>> /\ Fits(journal) = Tail(journal)
    BY <1>2, <1>5, EmptySeq DEF Fits
  <2>2. /\ Len(Tail(journal)) = Len(journal) - 1
        /\ \A n \in 1..Len(Tail(journal)) : Tail(journal)[n] = journal[n + 1]
    BY <2>1, Taken DEF Types
  <2>3. /\ Len(journal') = Len(journal) - 1 + 1 /\ Len(journal) = JournalSize
        /\ Len(Fits(journal)) = Len(journal') - 1 /\ Len(Tail(journal)) = Len(journal') - 1
    <3>1. Len(journal) = JournalSize
      BY <1>2, <1>5
    <3>2. Len(Fits(journal)) = Len(Tail(journal))
      BY <2>1
    <3>3. Len(journal') = Len(Tail(journal)) + 1
      BY <1>3, <3>2
    <3>4. Len(Tail(journal)) = Len(journal) - 1
      BY <2>2
    <3> HIDE DEF e
    <3> QED BY <1>2, <3>1, <3>2, <3>3, <3>4
  <2>4. \A n \in 1..(Len(journal') - 1) : n + 1 \in 1..Len(journal)
    BY <1>2, <1>3, <2>3
  <2>5. \A n \in 1..(Len(journal') - 1) : journal'[n] = journal[n + 1]
    BY <1>3, <2>1, <2>2, <2>3
  <2>6. /\ \A n \in 1..Len(journal) : n - 1 \in 1..(Len(journal') - 1) \/ n = 1
        /\ Len(journal') \in 1..Len(journal')
    BY <1>2, <2>3
  <2>7. journal'[Len(journal')] = e
    BY <1>3
  <2> HIDE DEF e
  <2>8. Shift(1)
    BY <2>3, <2>4, <2>5, <2>6, <2>7
  <2> HIDE DEF Shift
  <2> QED BY <2>8
<1>6. ASSUME ~(Len(journal) >= JournalSize) PROVE \E d \in {0, 1} : Shift(d)
  <2>1. /\ Len(journal') = Len(journal) - 0 + 1
        /\ \A n \in 1..(Len(journal') - 1) : n + 0 \in 1..Len(journal) /\ journal'[n] = journal[n + 0]
        /\ \A n \in 1..Len(journal) : n - 0 \in 1..(Len(journal') - 1)
        /\ Len(journal') \in 1..Len(journal')
    BY <1>2, <1>3, <1>6 DEF Fits
  <2>2. journal'[Len(journal')] = e
    BY <1>3
  <2> HIDE DEF e
  <2>3. Shift(0)
    BY <2>1, <2>2
  <2> HIDE DEF Shift
  <2> QED BY <2>3
<1>7. \E d \in {0, 1} : Shift(d)
  BY <1>5, <1>6
<1> QED BY <1>2, <1>3, <1>4, <1>7

(* What was tried stays tried, and the attempt at hand is.                 *)
LEMMA TriedStays ==
  ASSUME Types, NEW r \in Reply, log' = Append(log, r)
  PROVE  \A i \in 1..Len(log) : \A key : TriedAfter(i, key) \/ (Attempted(r) /\ key = r.cmd.key)
           => \E k \in (i + 1)..Len(log') : Attempted(log'[k]) /\ log'[k].cmd.key = key
<1> SUFFICES ASSUME NEW i \in 1..Len(log), NEW key,
                    TriedAfter(i, key) \/ (Attempted(r) /\ key = r.cmd.key)
             PROVE  \E k \in (i + 1)..Len(log') : Attempted(log'[k]) /\ log'[k].cmd.key = key
  OBVIOUS
<1>1. /\ Len(log) \in Nat /\ Len(log') = Len(log) + 1 /\ log'[Len(log) + 1] = r
      /\ \A k \in 1..Len(log) : log'[k] = log[k]
  BY Logged DEF Types
<1>2. CASE TriedAfter(i, key)
  <2>1. PICK k \in (i + 1)..Len(log) : Attempted(log[k]) /\ log[k].cmd.key = key
    BY <1>2 DEF TriedAfter
  <2>2. k \in (i + 1)..Len(log') /\ log'[k] = log[k]
    BY <1>1
  <2> QED BY <2>1, <2>2 DEF TriedAfter, Attempted
<1>3. CASE Attempted(r) /\ key = r.cmd.key
  <2>1. Len(log) + 1 \in (i + 1)..Len(log')
    BY <1>1
  <2> QED BY <1>1, <1>3, <2>1 DEF TriedAfter, Attempted
<1> QED BY <1>2, <1>3

(* An answer that is no attempt.                                           *)
LEMMA JournalInvStays ==
  ASSUME LiveSlipAssumption, Types, JournalInv, NEW r \in Reply, log' = Append(log, r),
         ~Attempted(r), UNCHANGED journal
  PROVE  JournalInv'
<1>1. /\ Len(log) \in Nat /\ Len(log') = Len(log) + 1 /\ log'[Len(log) + 1] = r
      /\ \A k \in 1..Len(log) : log'[k] = log[k]
  BY Logged DEF Types
<1>2. \A i \in 1..Len(log') : Attempted(log[i])' => i \in 1..Len(log) /\ Attempted(log[i])
  BY <1>1 DEF Attempted
<1>3. OneEntryPerKey'
  BY DEF JournalInv, OneEntryPerKey
<1>a. \A i \in 1..Len(log) : \A key : TriedAfter(i, key)
         => \E k \in (i + 1)..Len(log') : Attempted(log'[k]) /\ log'[k].cmd.key = key
  BY TriedStays
<1>4. JournalOrdered'
  <2> SUFFICES ASSUME NEW m \in 1..Len(journal), NEW n \in 1..Len(journal), m < n,
                      NEW i \in 1..Len(log'), Attempted(log[i])',
                      log'[i].cmd.key = journal[m].cmd.key
               PROVE  TriedAfter(i, journal[n].cmd.key)'
    BY DEF JournalOrdered
  <2>1. i \in 1..Len(log) /\ Attempted(log[i]) /\ log'[i] = log[i]
    BY <1>1, <1>2
  <2>2. TriedAfter(i, journal[n].cmd.key)
    BY <2>1 DEF JournalInv, JournalOrdered
  <2> DEFINE key == journal[n].cmd.key
  <2>3. TriedAfter(i, key)
    BY <2>2
  <2> HIDE DEF key
  <2>4. \E k \in (i + 1)..Len(log') : Attempted(log'[k]) /\ log'[k].cmd.key = key
    BY <1>a, <2>1, <2>3
  <2> QED BY <2>4 DEF TriedAfter, Attempted, key
<1>5. AttemptsKept'
  <2> SUFFICES ASSUME NEW i \in 1..Len(log'), Attempted(log[i])'
               PROVE  ((\E n \in 1..Len(journal) : IsEntryOf(n, i)) \/ PushedOut(i))'
    BY DEF AttemptsKept
  <2>1. i \in 1..Len(log) /\ Attempted(log[i]) /\ log'[i] = log[i]
    BY <1>1, <1>2
  <2>2. CASE PushedOut(i)
    BY <2>1, <2>2, OthersGrow
  <2>3. CASE \E n \in 1..Len(journal) : IsEntryOf(n, i)
    BY <2>1, <2>3 DEF IsEntryOf
  <2> QED BY <2>1, <2>2, <2>3 DEF JournalInv, AttemptsKept
<1> QED BY <1>3, <1>4, <1>5 DEF JournalInv

(* An attempt.                                                             *)
LEMMA JournalInvAttempt ==
  ASSUME LiveSlipAssumption, Types, JournalInv, NEW r \in Reply, log' = Append(log, r),
         Attempts(r)
  PROVE  JournalInv'
<1>1. /\ Len(log) \in Nat /\ Len(log') = Len(log) + 1 /\ log'[Len(log) + 1] = r
      /\ \A k \in 1..Len(log) : log'[k] = log[k]
  BY Logged DEF Types
<1>2. PICK d \in {0, 1} :
        /\ Len(journal') = Len(journal) - d + 1
        /\ d = 1 => Len(journal) = JournalSize
        /\ \A n \in 1..(Len(journal') - 1) :
             n + d \in 1..Len(journal) /\ journal'[n] = journal[n + d]
        /\ \A n \in 1..Len(journal) : n - d \in 1..(Len(journal') - 1) \/ n = d
        /\ Len(journal') \in 1..Len(journal')
        /\ journal'[Len(journal')] = [cmd |-> r.cmd, result |-> r.result, odds |-> r.odds]
  BY JournalShift
<1>3. /\ journal' \in Seq(Entry) /\ Len(journal') \in Nat /\ Len(journal) \in Nat
      /\ \A n \in 1..Len(journal) : journal[n].cmd.key # r.cmd.key
  BY JournalShift
<1>4. /\ journal'[Len(journal')].cmd = r.cmd /\ journal'[Len(journal')].result = r.result
      /\ journal'[Len(journal')].odds = r.odds
  BY <1>2
<1>5. Attempted(r)
  BY DEF Attempts, Attempted
<1>6. \A n \in 1..Len(journal') : n = Len(journal') \/ n \in 1..(Len(journal') - 1)
  BY <1>3
<1>a. \A n \in 1..(Len(journal') - 1) : n + d \in 1..Len(journal) /\ journal'[n] = journal[n + d]
  BY <1>2
<1>b. \A i \in 1..Len(log) : \A key :
        TriedAfter(i, key) \/ (Attempted(r) /\ key = r.cmd.key)
          => \E k \in (i + 1)..Len(log') : Attempted(log'[k]) /\ log'[k].cmd.key = key
  BY TriedStays
<1>c. d \in Nat
  OBVIOUS
<1>7. OneEntryPerKey'
  <2> SUFFICES ASSUME NEW m \in 1..Len(journal'), NEW n \in 1..Len(journal'),
                      journal'[m].cmd.key = journal'[n].cmd.key
               PROVE  m = n
    BY DEF OneEntryPerKey
  <2>1. CASE m = Len(journal') \/ n = Len(journal')
    BY <1>2, <1>3, <1>4, <1>6, <2>1
  <2>2. CASE m \in 1..(Len(journal') - 1) /\ n \in 1..(Len(journal') - 1)
    <3>0. /\ m + d \in 1..Len(journal) /\ journal'[m] = journal[m + d]
          /\ n + d \in 1..Len(journal) /\ journal'[n] = journal[n + d]
      BY <1>a, <2>2
    <3>1. m + d = n + d
      BY <3>0 DEF JournalInv, OneEntryPerKey
    <3> QED BY <2>2, <3>1
  <2> QED BY <1>6, <2>1, <2>2
<1>8. JournalOrdered'
  <2> SUFFICES ASSUME NEW m \in 1..Len(journal'), NEW n \in 1..Len(journal'), m < n,
                      NEW i \in 1..Len(log'), Attempted(log[i])',
                      log'[i].cmd.key = journal'[m].cmd.key
               PROVE  TriedAfter(i, journal[n].cmd.key)'
    BY DEF JournalOrdered
  <2>1. m \in 1..(Len(journal') - 1)
    BY <1>3
  <2>2. m + d \in 1..Len(journal) /\ journal'[m] = journal[m + d]
    BY <1>a, <2>1
  <2>3. i \in 1..Len(log) /\ log'[i] = log[i] /\ Attempted(log[i])
    <3>1. i # Len(log) + 1
      BY <1>1, <1>3, <2>2
    <3> QED BY <1>1, <3>1 DEF Attempted
  <2> DEFINE key == journal'[n].cmd.key
  <2>4. TriedAfter(i, key) \/ key = r.cmd.key
    <3>1. CASE n = Len(journal')
      BY <1>4, <3>1
    <3>2. CASE n \in 1..(Len(journal') - 1)
      <4>1. n + d \in 1..Len(journal) /\ journal'[n] = journal[n + d] /\ m + d < n + d
        BY <1>3, <1>a, <1>c, <2>1, <3>2
      <4>2. TriedAfter(i, journal[n + d].cmd.key)
        BY <2>2, <2>3, <4>1 DEF JournalInv, JournalOrdered
      <4> QED BY <4>1, <4>2
    <3> QED BY <1>6, <3>1, <3>2
  <2> HIDE DEF key
  <2>5. \E k \in (i + 1)..Len(log') : Attempted(log'[k]) /\ log'[k].cmd.key = key
    BY <1>5, <1>b, <2>3, <2>4
  <2> QED BY <2>5 DEF TriedAfter, Attempted, key
<1>9. AttemptsKept'
  <2> SUFFICES ASSUME NEW i \in 1..Len(log'), Attempted(log[i])'
               PROVE  ((\E n \in 1..Len(journal) : IsEntryOf(n, i)) \/ PushedOut(i))'
    BY DEF AttemptsKept
  <2>1. CASE i = Len(log) + 1
    BY <1>1, <1>2, <1>4, <2>1 DEF IsEntryOf
  <2>2. CASE i # Len(log) + 1
    <3>1. i \in 1..Len(log) /\ log'[i] = log[i] /\ Attempted(log[i])
      BY <1>1, <2>2 DEF Attempted
    <3>2. CASE PushedOut(i)
      BY <3>1, <3>2, OthersGrow
    <3>3. ASSUME NEW n \in 1..Len(journal), IsEntryOf(n, i), n # d
          PROVE  (\E k \in 1..Len(journal) : IsEntryOf(k, i))'
      <4>1. n - d \in 1..(Len(journal') - 1)
        BY <1>2, <3>3
      <4>2. journal'[n - d] = journal[n - d + d] /\ n - d + d = n /\ n - d \in 1..Len(journal')
        BY <1>2, <1>3, <4>1
      <4> QED BY <3>1, <3>3, <4>2 DEF IsEntryOf
    <3>4. ASSUME d = 1, IsEntryOf(d, i), d \in 1..Len(journal)
          PROVE  PushedOut(i)'
      <4> DEFINE K == OthersBetween(i, Len(log) + 1)'
      <4>1. log[i].cmd.key = journal[1].cmd.key /\ Len(journal') = JournalSize
        BY <1>2, <1>3, <3>4 DEF IsEntryOf
      <4>2. ASSUME NEW n \in 1..Len(journal')
            PROVE  journal'[n].cmd.key \in K
        <5> DEFINE key == journal'[n].cmd.key
        <5>1. TriedAfter(i, key) \/ key = r.cmd.key
          <6>1. CASE n = Len(journal')
            BY <1>4, <6>1
          <6>2. CASE n \in 1..(Len(journal') - 1)
            <7>1. n + d \in 1..Len(journal) /\ journal'[n] = journal[n + d] /\ 1 < n + d
              BY <1>a, <3>4, <6>2
            <7>2. TriedAfter(i, journal[n + d].cmd.key)
              BY <3>1, <3>4, <4>1, <7>1 DEF JournalInv, JournalOrdered
            <7> QED BY <7>1, <7>2
          <6> QED BY <1>6, <6>1, <6>2
        <5>2. key # log[i].cmd.key
          <6>1. CASE n = Len(journal')
            BY <1>3, <1>4, <3>4, <4>1, <6>1
          <6>2. CASE n \in 1..(Len(journal') - 1)
            <7>1. n + d \in 1..Len(journal) /\ journal'[n] = journal[n + d] /\ 1 # n + d
              BY <1>a, <3>4, <6>2
            <7> QED BY <3>4, <4>1, <7>1 DEF JournalInv, OneEntryPerKey
          <6> QED BY <1>6, <6>1, <6>2
        <5> HIDE DEF key
        <5>4. PICK k \in (i + 1)..Len(log') : Attempted(log'[k]) /\ log'[k].cmd.key = key
          BY <1>5, <1>b, <3>1, <5>1
        <5>5. Len(log) + 2 - 1 = Len(log') /\ Len(log') + 1 - 1 = Len(log')
          BY <1>1
        <5>6. K = KeysTried(log', i + 1, Len(log'), log'[i].cmd.key)
          BY <5>5 DEF OthersBetween
        <5>7. key \in KeysTried(log', i + 1, Len(log'), log'[i].cmd.key)
          BY <3>1, <5>2, <5>4 DEF KeysTried
        <5> QED BY <5>6, <5>7 DEF key
      <4>3. \A m, n \in 1..Len(journal') : journal'[m].cmd.key = journal'[n].cmd.key => m = n
        BY <1>7 DEF OneEntryPerKey
      <4>4. IsFiniteSet(K)
        <5>1. i + 1 \in Int /\ Len(log') + 1 - 1 \in Int
          BY <1>1, <3>1
        <5>2. K = KeysTried(log', i + 1, Len(log') + 1 - 1, log'[i].cmd.key)
          BY DEF OthersBetween
        <5> QED BY <5>1, <5>2, KeysFinite
      <4> HIDE DEF K
      <4>5. Cardinality(K) >= Len(journal')
        BY <1>3, <4>2, <4>3, <4>4, ManyKeys
      <4> QED BY <4>1, <4>5 DEF PushedOut, K
    <3> QED BY <1>2, <3>1, <3>2, <3>3, <3>4 DEF JournalInv, AttemptsKept
  <2> QED BY <2>1, <2>2
<1> QED BY <1>7, <1>8, <1>9 DEF JournalInv

-----------------------------------------------------------------------------
(* What retries and reconciles are answered.                               *)

(* An answer about an attempt that is still in the journal is its answer.  *)
LEMMA RecallIsRight ==
  ASSUME Types, OneEntryPerKey, NEW r \in Reply, Told(r), NEW i \in 1..Len(log),
         Attempted(log[i]), r.why # "refused", r.cmd.key = log[i].cmd.key,
         r.cmd.op \in {"commit", "reconcile"},
         NEW n \in 1..Len(journal), IsEntryOf(n, i)
  PROVE  r.result = log[i].result /\ r.odds = log[i].odds
<1>1. journal[n] \in Entries(r.cmd.key)
  BY EntriesArePlaces DEF Types, IsEntryOf
<1>2. Recalls(r)
  BY <1>1 DEF Told, Refuses, Fails, Attempts, Prepares, Cancels
<1>3. PICK e \in Entries(r.cmd.key) : e.result = r.result /\ e.odds = r.odds
  BY <1>1, <1>2 DEF Recalls
<1>4. PICK m \in 1..Len(journal) : journal[m] = e /\ journal[m].cmd.key = r.cmd.key
  BY <1>3, EntriesArePlaces DEF Types
<1>5. m = n
  BY <1>4 DEF OneEntryPerKey, IsEntryOf
<1> QED BY <1>3, <1>4, <1>5 DEF IsEntryOf

(* Every later answer about a key is the first one, until it was pushed    *)
(* out of the journal.                                                     *)
LEMMA OneAnswerKept ==
  ASSUME LiveSlipAssumption, Types, JournalInv, OneAnswerPerKey, NEW r \in Reply, Told(r)
  PROVE  OneAnswerPerKey'
<1>0. log' = Append(log, r)
  BY DEF Told
<1>1. /\ Len(log) \in Nat /\ Len(log') = Len(log) + 1 /\ log'[Len(log) + 1] = r
      /\ \A i \in 1..Len(log) : log'[i] = log[i]
      /\ DOMAIN log = 1..Len(log) /\ DOMAIN log' = 1..Len(log')
  BY <1>0, Logged DEF Types
<1> SUFFICES ASSUME NEW i \in 1..Len(log'), NEW j \in (i + 1)..Len(log'),
                    Attempted(log[i])', log'[j].why # "refused",
                    \/ log'[j].cmd = log'[i].cmd
                    \/ /\ log'[j].cmd.op = "reconcile" /\ log'[j].cmd.key = log'[i].cmd.key
                       /\ log'[j].cmd.bet = log'[i].cmd.bet
             PROVE  \/ log'[j].result = log'[i].result /\ log'[j].odds = log'[i].odds
                    \/ (Cardinality(OthersBetween(i, j)) >= JournalSize)'
  BY <1>1 DEF OneAnswerPerKey
<1>2. i \in 1..Len(log) /\ log'[i] = log[i] /\ Attempted(log[i])
  BY <1>1 DEF Attempted
<1>3. j \in 1..(Len(log) + 1)
  BY <1>1
<1>4. OthersBetween(i, j)' = OthersBetween(i, j)
  BY <1>0, <1>2, <1>3, OthersStay
<1>5. CASE j \in (i + 1)..Len(log)
  <2>1. log'[j] = log[j]
    BY <1>1, <1>2, <1>5
  <2>2. \/ log[j].result = log[i].result /\ log[j].odds = log[i].odds
        \/ Cardinality(OthersBetween(i, j)) >= JournalSize
    BY <1>1, <1>2, <1>5, <2>1 DEF OneAnswerPerKey
  <2> QED BY <1>2, <1>4, <2>1, <2>2
<1>6. CASE j = Len(log) + 1
  <2>1. log'[j] = r
    BY <1>1, <1>6
  <2>2. r.cmd.key = log[i].cmd.key /\ r.cmd.op \in {"commit", "reconcile"}
    BY <1>2, <2>1 DEF Attempted
  <2>3. CASE PushedOut(i)
    BY <1>4, <1>6, <2>3 DEF PushedOut
  <2>4. CASE \E n \in 1..Len(journal) : IsEntryOf(n, i)
    <3>1. r.result = log[i].result /\ r.odds = log[i].odds
      BY <1>2, <2>1, <2>2, <2>4, RecallIsRight DEF JournalInv
    <3> QED BY <1>2, <2>1, <3>1
  <2> QED BY <1>2, <2>3, <2>4 DEF JournalInv, AttemptsKept
<1> QED BY <1>1, <1>5, <1>6

(* A second attempt at a key finds its entry pushed out.                   *)
LEMMA RepeatKept ==
  ASSUME LiveSlipAssumption, Types, JournalInv, RepeatOnlyAfterEviction, NEW r \in Reply, Told(r)
  PROVE  RepeatOnlyAfterEviction'
<1>0. log' = Append(log, r)
  BY DEF Told
<1>1. /\ Len(log) \in Nat /\ Len(log') = Len(log) + 1 /\ log'[Len(log) + 1] = r
      /\ \A i \in 1..Len(log) : log'[i] = log[i]
      /\ DOMAIN log = 1..Len(log) /\ DOMAIN log' = 1..Len(log')
  BY <1>0, Logged DEF Types
<1> SUFFICES ASSUME NEW i \in 1..Len(log'), NEW j \in (i + 1)..Len(log'),
                    Attempted(log[i])', Attempted(log[j])',
                    log'[i].cmd.key = log'[j].cmd.key
             PROVE  (Cardinality(OthersBetween(i, j)) >= JournalSize)'
  BY <1>1 DEF RepeatOnlyAfterEviction
<1>2. i \in 1..Len(log) /\ log'[i] = log[i] /\ Attempted(log[i])
  BY <1>1 DEF Attempted
<1>3. j \in 1..(Len(log) + 1)
  BY <1>1
<1>4. OthersBetween(i, j)' = OthersBetween(i, j)
  BY <1>0, <1>2, <1>3, OthersStay
<1>5. CASE j \in (i + 1)..Len(log)
  <2>1. log'[j] = log[j] /\ Attempted(log[j])
    BY <1>1, <1>2, <1>5 DEF Attempted
  <2>2. Cardinality(OthersBetween(i, j)) >= JournalSize
    BY <1>1, <1>2, <1>5, <2>1 DEF RepeatOnlyAfterEviction
  <2> QED BY <1>4, <2>2
<1>6. CASE j = Len(log) + 1
  <2>1. log'[j] = r /\ Attempted(r)
    BY <1>1, <1>6 DEF Attempted
  <2>2. Entries(log[i].cmd.key) = {}
    BY <1>2, <2>1, AttemptIsNew DEF Attempts
  <2>3. ASSUME NEW n \in 1..Len(journal), IsEntryOf(n, i)
        PROVE  FALSE
    <3>1. journal[n].cmd.key = log[i].cmd.key
      BY <2>3 DEF IsEntryOf
    <3>2. journal[n] \in Entries(log[i].cmd.key)
      BY <3>1, EntriesArePlaces DEF Types
    <3> QED BY <2>2, <3>2
  <2>4. PushedOut(i)
    BY <1>2, <2>3 DEF JournalInv, AttemptsKept
  <2> QED BY <1>4, <1>6, <2>4 DEF PushedOut
<1> QED BY <1>1, <1>5, <1>6

-----------------------------------------------------------------------------
(* The theorems.                                                           *)

(* The histories that the theorems are about.                              *)
HistoryInv ==
  /\ CommitFollowsItsPrepare /\ OneAnswerPerKey /\ RepeatOnlyAfterEviction
  /\ Book = "jun88" => PreparedOddsWereOffered

(* Initially nothing runs, is prepared or was said.                        *)
LEMMA InitHolds ==
  ASSUME LiveSlipAssumption, Init
  PROVE  IInv /\ HistoryInv
<1>1. queue = <<>> /\ journal = <<>> /\ log = <<>> /\ run = Idle /\ prepared = None
  BY DEF Init
<1>2. Len(log) = 0 /\ Len(journal) = 0 /\ DOMAIN log = {}
  <2>1. log \in Seq(Reply) /\ Len(log) = 0 /\ Len(journal) = 0
    BY <1>1, EmptySeq
  <2> QED BY <2>1, LenProperties
<1>3. prepared \in [bet : Bets, sel : Selections \cup {NoSel}, odds : Offered]
  BY <1>1 DEF None, Bets, Offered
<1>4. Types
  BY <1>1, <1>2, <1>3, EmptySeq DEF Init, Types, LiveSlipAssumption, NoSlip, Idle, Offered
<1>5. RunFits /\ PreparedFits
  BY <1>1 DEF RunFits, Idle, PreparedFits, None
<1>6. JournalInv
  BY <1>2 DEF JournalInv, OneEntryPerKey, JournalOrdered, AttemptsKept
<1>7. HistoryInv
  BY <1>2 DEF HistoryInv, CommitFollowsItsPrepare, OneAnswerPerKey, RepeatOnlyAfterEviction,
              PreparedOddsWereOffered
<1> QED BY <1>4, <1>5, <1>6, <1>7 DEF IInv

(* Every step keeps all of it.                                             *)
LEMMA NextHolds ==
  ASSUME LiveSlipAssumption, IInv, HistoryInv, [Next]_vars
  PROVE  IInv' /\ HistoryInv'
<1>1. Sound
  BY StepSound DEF IInv
<1>2. CASE Silent
  <2>1. UNCHANGED <<log, journal, prepared>>
    BY <1>2 DEF Silent
  <2>2. PreparedFits'
    BY <2>1 DEF IInv, PreparedFits
  <2>3. JournalInv'
    BY <2>1 DEF IInv, JournalInv, OneEntryPerKey, JournalOrdered, AttemptsKept, TriedAfter,
                IsEntryOf, PushedOut, OthersBetween, KeysTried, Attempted
  <2>4. HistoryInv'
    BY <2>1 DEF HistoryInv, CommitFollowsItsPrepare, OneAnswerPerKey, RepeatOnlyAfterEviction,
                PreparedOddsWereOffered, OthersBetween, KeysTried, Attempted
  <2> QED BY <1>1, <2>2, <2>3, <2>4 DEF IInv, Sound
<1>3. CASE Speaks
  <2>1. PICK r \in Reply : Told(r)
    BY <1>3 DEF Speaks
  <2>2. log' = Append(log, r)
    BY <2>1 DEF Told
  <2>3. JournalInv'
    <3>1. CASE Attempts(r)
      BY <2>2, <3>1, JournalInvAttempt DEF IInv
    <3>2. CASE ~Attempts(r)
      <4>1. ~Attempted(r)
        BY <2>1, <3>2, AttemptIsNew
      <4>2. UNCHANGED journal
        BY <2>1, <3>2 DEF Told, Refuses, Recalls, Fails, Prepares, Cancels
      <4> QED BY <2>2, <4>1, <4>2, JournalInvStays DEF IInv
    <3> QED BY <3>1, <3>2
  <2>4. PreparedFits'
    BY <2>1, PreparedFitsKept DEF IInv
  <2>5. HistoryInv'
    BY <2>1, FollowsKept, OneAnswerKept, RepeatKept, OfferedKept DEF IInv, HistoryInv
  <2> QED BY <1>1, <2>3, <2>4, <2>5 DEF IInv, Sound
<1> QED BY <1>1, <1>2, <1>3 DEF Sound

(* Both invariants hold in every state.                                    *)
LEMMA EverythingHolds ==
  ASSUME LiveSlipAssumption
  PROVE  Spec => [](IInv /\ HistoryInv)
<1>1. Init => IInv /\ HistoryInv
  BY InitHolds
<1>2. IInv /\ HistoryInv /\ [Next]_vars => (IInv /\ HistoryInv)'
  BY NextHolds
<1> QED BY <1>1, <1>2, PTL DEF Spec

(* The variables have their types and the journal its bound, whatever      *)
(* frames come and wherever the page moves.                                *)
THEOREM TypeCorrect ==
  ASSUME LiveSlipAssumption
  PROVE  Spec => []TypeOK
<1>1. IInv => TypeOK
  BY DEF IInv, Types, TypeOK, Offered, PrepareSteps, CommitSteps
<1> QED BY <1>1, EverythingHolds, PTL

(* A commit works on the page only for the slip of the last prepare that   *)
(* succeeded, with no other prepare and no cancel in between, in every     *)
(* order of frames and whatever the page does.                             *)
THEOREM CommitsFollowPrepares ==
  ASSUME LiveSlipAssumption
  PROVE  Spec => []CommitFollowsItsPrepare
<1>1. HistoryInv => CommitFollowsItsPrepare
  BY DEF HistoryInv
<1> QED BY <1>1, EverythingHolds, PTL

(* What a commit was answered is what its retries and reconciles are       *)
(* answered, until JournalSize other keys were tried.                      *)
THEOREM AnswersAreKept ==
  ASSUME LiveSlipAssumption
  PROVE  Spec => []OneAnswerPerKey
<1>1. HistoryInv => OneAnswerPerKey
  BY DEF HistoryInv
<1> QED BY <1>1, EverythingHolds, PTL

(* No key is tried twice on the page before JournalSize others were.       *)
THEOREM RepeatsAreRemembered ==
  ASSUME LiveSlipAssumption
  PROVE  Spec => []RepeatOnlyAfterEviction
<1>1. HistoryInv => RepeatOnlyAfterEviction
  BY DEF HistoryInv
<1> QED BY <1>1, EverythingHolds, PTL

(* The odds a prepare of Jun88 reports were on offer while it ran.  At     *)
(* 8xbet nothing compares the slip with the click.                         *)
THEOREM PreparedOddsAreOffered ==
  ASSUME LiveSlipAssumption, Book = "jun88"
  PROVE  Spec => []PreparedOddsWereOffered
<1>1. HistoryInv => PreparedOddsWereOffered
  BY DEF HistoryInv
<1> QED BY <1>1, EverythingHolds, PTL
=============================================================================
