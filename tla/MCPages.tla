-------------------------------- MODULE MCPages --------------------------------
(* What the collectors do on the pages of the bookmakers, for TLC: the live    *)
(* commands on a slip, the way to the Jun88 lobby, the login to 8xbet and its  *)
(* prompts, and the markets read from an odds table.  A behaviour belongs to   *)
(* one scenario; the variables of the other modules rest at Null, the answers  *)
(* of the live commands at none.  The loops share pc, and the clocks of login  *)
(* and prompts are one variable.                                               *)
EXTENDS LiveSlip, TLC

CONSTANTS p1, p2, p3, n1, n2, q1, Landing, Null

VARIABLES
  scenario, pc, clock, form, attempt,
  verdict, session, notice, notices, way, tabs, address, frame, late, before, result,
  place, account, alert, refused, sample, stage, since, until, attached, asked, listed,
  metadata, changes, lag, lastBad, steady, own,
  view, coming, shownAt, clickedAt, deadline, target, handled, noticed, last, clicks,
  names, league, group

loops == <<pc, clock, clicked, moves, form, attempt>>
slipVars == <<odds, slip, opened, queue, run, prepared, journal, log, sends, faults>>
lobbyVars == <<verdict, session, notice, notices, way, tabs, address, frame, late, before, result>>
loginVars == <<place, account, alert, refused, sample, stage, since, until, attached, asked,
               listed, metadata, changes, lag, lastBad, steady, own>>
promptVars == <<view, coming, shownAt, clickedAt, deadline, target, handled, noticed, last, clicks>>
marketVars == <<names, league, group>>
pagesVars == <<scenario, loops, slipVars, lobbyVars, loginVars, promptVars, marketVars>>

Symmetric == Permutations({p1, p2, p3})

-----------------------------------------------------------------------------
(* Live commands: bet a is on s1 under key k1, bet b on s2 under key k2.  The  *)
(* constants of the cfg are those of the scenario retry.                       *)
OneFixture == [s \in Selections |-> "f1"]
TwoFixtures == [s \in Selections |-> IF s = "s1" THEN "f1" ELSE "f2"]

Frame(op, bet, sel, key, o) == [op |-> op, bet |-> bet, sel |-> sel, key |-> key, odds |-> o]

TwoBets ==
  {Frame(op, "a", "s1", "k1", 1) : op \in {"prepare", "commit", "cancel"}}
    \cup {Frame(op, "b", "s2", "k2", 1) : op \in {"prepare", "commit"}}

(* One prepare, commits of a repriced retry and of a reused key.               *)
Retries ==
  {Frame("prepare", "a", "s1", "k1", 1), Frame("commit", "a", "s1", "k1", 1),
   Frame("commit", "a", "s1", "k2", 2), Frame("commit", "a", "s1", "k1", 2),
   Frame("reconcile", "a", "s1", "k1", 1), Frame("reconcile", "b", "s1", "k1", 1)}

(* Commits under three keys, one more than the journal holds.                  *)
ThreeKeys == {Frame("commit", "a", "s1", k, 1) : k \in {"k1", "k2", "k3"}}

Jun88 == INSTANCE LiveSlip WITH
  Book <- "jun88", Fixture <- OneFixture, Odds <- {1, 2}, Commands <- TwoBets, Lag <- TRUE,
  JournalSize <- 2, MaxSends <- 3, MaxMoves <- 1, MaxFaults <- 1

EightXBet == INSTANCE LiveSlip WITH
  Book <- "8xbet", Fixture <- TwoFixtures, Odds <- {1, 2}, Commands <- TwoBets, Lag <- TRUE,
  JournalSize <- 2, MaxSends <- 3, MaxMoves <- 1, MaxFaults <- 1

Retry == INSTANCE LiveSlip WITH
  Book <- "8xbet", Fixture <- OneFixture, Odds <- {1, 2}, Commands <- Retries, Lag <- FALSE,
  JournalSize <- 2, MaxSends <- 3, MaxMoves <- 1, MaxFaults <- 1

Full == INSTANCE LiveSlip WITH
  Book <- "jun88", Fixture <- OneFixture, Odds <- {1, 2}, Commands <- ThreeKeys, Lag <- FALSE,
  JournalSize <- 2, MaxSends <- 4, MaxMoves <- 0, MaxFaults <- 0

(* The lobby, with announcements over the form, popups in time and late, and   *)
(* tabs that move on.                                                          *)
Lobby == INSTANCE Jun88Lobby WITH
  Popups <- {p1, p2, p3}, MaxNotices <- 2, MaxMoves <- 1, Rerenders <- FALSE

(* The login, with changes of the page between the looks that take time.       *)
Login == INSTANCE EightXBetLogin WITH
  LoginTimeout <- 3, Stable <- 2, Attempts <- 2, MaxChanges <- 3, MaxLag <- 2

(* Its prompts: a quick-password prompt and then announcements, that fade      *)
(* after their click or go at once.                                            *)
QuickFirst == INSTANCE EightXBetPrompts WITH
  Announcements <- {n1}, QuickPasswords <- {q1}, Order <- <<q1, n1>>,
  PopupWait <- 6, Timeout <- 14, Quiet <- 2, Fade <- 2, ClickTime <- 3

Stacked == INSTANCE EightXBetPrompts WITH
  Announcements <- {n1, n2}, QuickPasswords <- {q1}, Order <- <<q1, n1, n2>>,
  PopupWait <- 6, Timeout <- 14, Quiet <- 2, Fade <- 0, ClickTime <- 3

Fading == INSTANCE EightXBetPrompts WITH
  Announcements <- {n1, n2}, QuickPasswords <- {q1}, Order <- <<q1, n1, n2>>,
  PopupWait <- 6, Timeout <- 14, Quiet <- 2, Fade <- 2, ClickTime <- 3

(* Match groups of up to two cells; names of which one begins with the other;  *)
(* lines of 0.5 and 0.5/1 in quarters.                                         *)
Prices == INSTANCE CmdMarkets WITH
  Names <- {<<<<101>>, <<101, 103>>>>, <<<<101, 103>>, <<101>>>>},
  Lines <- {<<2>>, <<2, 4>>}, Legs <- {"price", "locked", "zero"}, Leagues <- {"standard"},
  MaxCells <- 2

Anchors == INSTANCE CmdMarkets WITH
  Names <- {<<<<101>>, <<101, 103>>>>}, Lines <- {<<2>>, <<2, 4>>},
  Legs <- {"price", "missing", "blank"}, Leagues <- {"standard", "special"}, MaxCells <- 2

ASSUME Assumptions ==
  /\ Jun88!LiveSlipAssumption /\ EightXBet!LiveSlipAssumption
  /\ Retry!LiveSlipAssumption /\ Full!LiveSlipAssumption
  /\ Lobby!Jun88LobbyAssumption /\ Login!EightXBetLoginAssumption
  /\ QuickFirst!EightXBetPromptsAssumption /\ Stacked!EightXBetPromptsAssumption
  /\ Fading!EightXBetPromptsAssumption
  /\ Prices!CmdMarketsAssumption /\ Anchors!CmdMarketsAssumption

-----------------------------------------------------------------------------
SlipRests ==
  /\ odds = Null /\ slip = Null /\ opened = Null /\ queue = Null /\ run = Null
  /\ prepared = Null /\ journal = Null /\ log = <<>> /\ sends = Null /\ faults = Null
NoLobby ==
  /\ verdict = Null /\ session = Null /\ notice = Null /\ notices = Null /\ way = Null
  /\ tabs = Null /\ address = Null /\ frame = Null /\ late = Null /\ before = Null
  /\ result = Null
NoLogin ==
  /\ place = Null /\ account = Null /\ alert = Null /\ refused = Null /\ sample = Null
  /\ stage = Null /\ since = Null /\ until = Null /\ attached = Null /\ asked = Null
  /\ listed = Null /\ metadata = Null /\ changes = Null /\ lag = Null /\ lastBad = Null
  /\ steady = Null /\ own = Null
NoPrompts ==
  /\ view = Null /\ coming = Null /\ shownAt = Null /\ clickedAt = Null /\ deadline = Null
  /\ target = Null /\ handled = Null /\ noticed = Null /\ last = Null /\ clicks = Null
NoMarkets == names = Null /\ league = Null /\ group = Null

SlipInit ==
  /\ \/ scenario = "jun88" /\ Jun88!Init
     \/ scenario = "8xbet" /\ EightXBet!Init
     \/ scenario = "retry" /\ Retry!Init
     \/ scenario = "full" /\ Full!Init
  /\ pc = Null /\ clock = Null /\ form = Null /\ attempt = Null
  /\ NoLobby /\ NoLogin /\ NoPrompts /\ NoMarkets

LobbyInit ==
  /\ scenario = "lobby" /\ Lobby!Init
  /\ clock = Null
  /\ SlipRests /\ NoLogin /\ NoPrompts /\ NoMarkets

LoginInit ==
  /\ scenario = "login" /\ Login!Init
  /\ clicked = Null /\ moves = Null
  /\ SlipRests /\ NoLobby /\ NoPrompts /\ NoMarkets

PromptsInit ==
  /\ \/ scenario = "quickFirst" /\ QuickFirst!Init
     \/ scenario = "stacked" /\ Stacked!Init
     \/ scenario = "fading" /\ Fading!Init
  /\ clicked = Null /\ moves = Null /\ form = Null /\ attempt = Null
  /\ SlipRests /\ NoLobby /\ NoLogin /\ NoMarkets

MarketsInit ==
  /\ \/ scenario = "prices" /\ Prices!Init
     \/ scenario = "anchors" /\ Anchors!Init
  /\ pc = Null /\ clock = Null /\ clicked = Null /\ moves = Null /\ form = Null
  /\ attempt = Null
  /\ SlipRests /\ NoLobby /\ NoLogin /\ NoPrompts

PagesInit == SlipInit \/ LobbyInit \/ LoginInit \/ PromptsInit \/ MarketsInit

(* Bound: the price moves once or a page fails once.                           *)
OneMoveOrFault == moves' + faults' <= 1

SlipNext ==
  /\ \/ scenario = "jun88" /\ Jun88!Next /\ OneMoveOrFault
     \/ scenario = "8xbet" /\ EightXBet!Next /\ OneMoveOrFault
     \/ scenario = "retry" /\ Retry!Next /\ OneMoveOrFault
     \/ scenario = "full" /\ Full!Next
  /\ UNCHANGED <<pc, clock, form, attempt, lobbyVars, loginVars, promptVars, marketVars>>

LobbyNext ==
  /\ scenario = "lobby" /\ Lobby!Next
  /\ UNCHANGED <<clock, slipVars, loginVars, promptVars, marketVars>>

LoginNext ==
  /\ scenario = "login" /\ Login!Next
  /\ UNCHANGED <<clicked, moves, slipVars, lobbyVars, promptVars, marketVars>>

PromptsNext ==
  /\ \/ scenario = "quickFirst" /\ QuickFirst!Next
     \/ scenario = "stacked" /\ Stacked!Next
     \/ scenario = "fading" /\ Fading!Next
  /\ UNCHANGED <<clicked, moves, form, attempt, slipVars, lobbyVars, loginVars, marketVars>>

MarketsNext ==
  /\ \/ scenario = "prices" /\ Prices!Next
     \/ scenario = "anchors" /\ Anchors!Next
  /\ UNCHANGED <<loops, slipVars, lobbyVars, loginVars, promptVars>>

PagesNext ==
  /\ UNCHANGED scenario
  /\ SlipNext \/ LobbyNext \/ LoginNext \/ PromptsNext \/ MarketsNext

PagesSpec == PagesInit /\ [][PagesNext]_pagesVars

-----------------------------------------------------------------------------
(* The lobby is sought only with a session, past the form of a login that did  *)
(* not close; retries keep the authenticated tab and close the popups of their *)
(* attempts; and what is returned is an open tab that shows the lobby.         *)
LobbyIsAuthenticated ==
  scenario = "lobby" =>
    /\ Lobby!TypeOK /\ Lobby!LoggedInHasSession /\ Lobby!LandingKept
    /\ Lobby!OnlyLatePopupsRemain /\ Lobby!LobbyIsExpected

(* A login is accepted after a steady window and a late one gets its window,   *)
(* the wait ends, and the fixtures in play are heard; whatever prompts come    *)
(* while they are waited for are closed, each clicked once.                    *)
LoginIsSteady ==
  CASE scenario = "login" ->
         /\ Login!TypeOK /\ Login!AcceptedIsSteady /\ Login!LateSignalSuffices
         /\ Login!WaitIsBounded /\ Login!ReadyIsHeard
    [] scenario = "quickFirst" -> QuickFirst!TypeOK /\ QuickFirst!PromptsAwaited
    [] scenario = "stacked" -> Stacked!TypeOK /\ Stacked!AnnouncementsClosed
    [] scenario = "fading" -> Fading!TypeOK /\ Fading!ClickedOnce
    [] OTHER -> TRUE

(* The markets sent are those the page offers, each leg from the anchor of its *)
(* own side, for bootstrap and observer alike, and the two read the same       *)
(* outcomes also from cells with missing and empty anchors.                    *)
MarketsArePage ==
  CASE scenario = "prices" -> Prices!SnapshotIsPage /\ Prices!ObserverIsPage
    [] scenario = "anchors" -> Anchors!ParsersAgree
    [] OTHER -> TRUE
================================================================================
