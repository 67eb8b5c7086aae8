------------------------------ MODULE Jun88Lobby ------------------------------
(* How the Jun88 collector gets to the CMD lobby: it logs in, past the       *)
(* announcements that cover the form, and opens the lobby from the           *)
(* authenticated tab, in that tab or in a popup, in up to three attempts.    *)
(* The site changes its pages between any two looks of the collector.  A     *)
(* wait ends when a look finds what it waits for, and may end in vain        *)
(* whenever a look does not.                                                 *)
EXTENDS Naturals, Sequences, FiniteSets, SequencesExt

CONSTANTS
  Popups,         \* bound: the tabs the site can open
  Landing,        \* the authenticated tab
  Null,
  MaxNotices,     \* bound: announcements
  MaxMoves,       \* bound: what the site does to its tabs of its own
  Rerenders       \* the site may hide the form of a login it refuses

Jun88LobbyAssumption ==
  /\ IsFiniteSet(Popups) /\ Landing \notin Popups
  /\ MaxNotices \in Nat /\ MaxMoves \in Nat /\ Rerenders \in BOOLEAN

Tabs == Popups \cup {Landing}

(* What an address is to the collector: of the expected origin, the page     *)
(* between (/opgam/ provider=CMD), a maintenance page, or any other.         *)
Addresses == {"expected", "between", "maintenance", "other"}

(* The ways to close an announcement, in the order they are tried; the       *)
(* number of the first that works says how stubborn it is.                   *)
Ways == <<"click", "force", "dom">>

VARIABLES
  pc,          \* where the collector is
  form,        \* the login form is visible
  verdict,     \* the site's answer to the credentials
  session,     \* the site has a session for the tab
  notice,      \* the announcement shown, by its stubbornness, 0 if none
  notices,     \* the announcements to come (bound)
  way,         \* the way dismissJun88Announcement is at
  tabs,        \* context.pages(), in the order they were opened
  address,     \* where each tab is
  frame,       \* the tabs with a frame of the expected origin
  clicked,     \* a click of the lobby's button may still open a popup
  late,        \* the popups opened when their attempt no longer waited
  attempt, before, result,   \* of openLobby
  moves        \* what the site may do of its own (bound)

login == <<form, verdict, session, notice, notices, way>>
site == <<tabs, address, frame, clicked, late, moves>>
lobby == <<attempt, before, result>>
vars == <<pc, login, site, lobby>>

Init ==
  /\ pc = "form"
  /\ form \in BOOLEAN /\ verdict = Null /\ session = FALSE
  /\ notice = 0 /\ notices = MaxNotices /\ way = 0
  /\ tabs = <<Landing>>
  /\ address = [t \in Tabs |-> "other"] /\ frame = {} /\ clicked = FALSE /\ late = {}
  /\ attempt = 1 /\ before = 0 /\ result = Null
  /\ moves = MaxMoves

IsOpen(t) == t \in Range(tabs)

-----------------------------------------------------------------------------
(* The login.                                                                *)

(* waitForJun88DirectLoginForm, and the fields are filled.                   *)
FindForm ==
  /\ pc = "form"
  /\ form
  /\ pc' = "dismiss"
  /\ UNCHANGED <<login, site, lobby>>

(* dismissJun88Announcement looks: there is none ...                         *)
NoneVisible ==
  /\ pc = "dismiss"
  /\ notice = 0
  /\ pc' = "submit" /\ way' = 0
  /\ UNCHANGED <<form, verdict, session, notice, notices, site, lobby>>

(* ... or it clicks, in the next way.                                        *)
CloseNotice ==
  /\ \/ pc = "dismiss" /\ notice > 0
     \/ pc = "again"
  /\ way < Len(Ways)
  /\ way' = way + 1
  /\ notice' = IF notice > 0 /\ notice <= way' THEN 0 ELSE notice
  /\ pc' = "clear"
  /\ UNCHANGED <<form, verdict, session, notices, site, lobby>>

(* waitForJun88AnnouncementToClear.                                          *)
Cleared ==
  /\ pc = "clear" /\ notice = 0
  /\ pc' = "dismiss" /\ way' = 0
  /\ UNCHANGED <<form, verdict, session, notice, notices, site, lobby>>

NotCleared ==
  /\ pc = "clear" /\ notice > 0
  /\ pc' = IF way = Len(Ways) THEN "failed" ELSE "again"
  /\ UNCHANGED <<login, site, lobby>>

(* The click on the submit button, if nothing covers it; else it times out.  *)
Submit ==
  /\ pc = "submit"
  /\ IF form /\ notice = 0
       THEN pc' = "closing" /\ verdict' \in {"accepted", "refused"}
       ELSE pc' = "failed" /\ UNCHANGED verdict
  /\ UNCHANGED <<form, session, notice, notices, way, site, lobby>>

(* waitForLoginFormToClose ends, without a word at its deadline.             *)
FormClosed ==
  /\ pc = "closing"
  /\ pc' = "check"
  /\ UNCHANGED <<login, site, lobby>>

(* Wrong: a form that did not close is no failure.                           *)
CheckNothing ==
  /\ pc = "check"
  /\ pc' = "settle"
  /\ UNCHANGED <<login, site, lobby>>

CheckForm ==
  /\ pc = "check"
  /\ pc' = IF form THEN "failed" ELSE "settle"
  /\ UNCHANGED <<login, site, lobby>>

(* The settle time, in which the session of an accepted login begins.        *)
Settle ==
  /\ pc = "settle"
  /\ pc' = "goto"
  /\ session' = (session \/ verdict = "accepted")
  /\ UNCHANGED <<form, verdict, notice, notices, way, site, lobby>>

(* A deadline passes, a navigation fails: the whole attempt fails.           *)
GiveUp ==
  /\ pc \in {"form", "goto", "button"}
  /\ pc = "form" => ~form
  /\ pc' = "failed"
  /\ UNCHANGED <<login, site, lobby>>

-----------------------------------------------------------------------------
(* openLobby.                                                                *)

Matches(t) == address[t] = "expected"

(* The landing page, a new one when the site closed it, goes to the target.  *)
GotoLobby ==
  /\ pc = "goto"
  /\ pc' = "landed"
  /\ before' = Len(tabs)
  /\ tabs' = IF IsOpen(Landing) THEN tabs ELSE Append(tabs, Landing)
  /\ \E a \in Addresses : address' = [address EXCEPT ![Landing] = a]
  /\ frame' = frame \ {Landing}
  /\ UNCHANGED <<login, clicked, late, moves, attempt, result>>

Landed ==
  /\ pc = "landed"
  /\ IF Matches(Landing)
       THEN pc' = "done" /\ result' = Landing
       ELSE pc' = "button" /\ UNCHANGED result
  /\ UNCHANGED <<login, site, attempt, before>>

(* The bet-now button is visible and clicked.                                *)
ClickBetNow ==
  /\ pc = "button"
  /\ IsOpen(Landing)
  /\ pc' = "popup"
  /\ clicked' = TRUE
  /\ UNCHANGED <<login, tabs, address, frame, late, moves, lobby>>

(* The popup opens while it is waited for, and is taken ...                  *)
PopupOpens(t) ==
  /\ pc = "popup" /\ clicked
  /\ t \in Popups /\ ~IsOpen(t)
  /\ pc' = "opened"
  /\ clicked' = FALSE
  /\ tabs' = Append(tabs, t)
  /\ \E a \in Addresses : address' = [address EXCEPT ![t] = a]
  /\ result' = t
  /\ UNCHANGED <<login, frame, late, moves, attempt, before>>

(* ... or the wait ends without one: the newest tab is taken if there are    *)
(* more than before, else the landing page.                                  *)
NoPopup ==
  /\ pc = "popup"
  /\ pc' = "opened"
  /\ result' = IF Len(tabs) > before THEN Last(tabs) ELSE Landing
  /\ UNCHANGED <<login, site, attempt, before>>

(* What the tab turned out to be.                                            *)
Opened ==
  /\ pc = "opened"
  /\ pc' = IF address[result] = "maintenance" THEN "failed"
           ELSE IF Matches(result) THEN "done"
           ELSE IF address[result] = "between" THEN "deferred"
           ELSE "retry"
  /\ UNCHANGED <<login, site, lobby>>

(* waitForDeferredLobbyTarget: the first tab with the lobby in it, or in a   *)
(* frame of it.                                                              *)
HasLobby(t) == Matches(t) \/ t \in frame

FoundTarget ==
  /\ pc = "deferred"
  /\ \E i \in DOMAIN tabs :
       /\ HasLobby(tabs[i]) /\ \A j \in 1..(i - 1) : ~HasLobby(tabs[j])
       /\ result' = tabs[i]
  /\ pc' = "done"
  /\ UNCHANGED <<login, site, attempt, before>>

NoTarget ==
  /\ pc = "deferred"
  /\ \A t \in Range(tabs) : ~HasLobby(t)
  /\ pc' = "retry"
  /\ UNCHANGED <<login, site, lobby>>

(* Another attempt, the popup of this one closed.                            *)
Retry ==
  /\ pc = "retry"
  /\ IF attempt >= 3 THEN pc' = "unresolved" /\ UNCHANGED <<attempt, tabs, frame>>
     ELSE /\ pc' = "goto"
          /\ attempt' = attempt + 1
          /\ tabs' = SelectSeq(tabs, LAMBDA t : t # result \/ t = Landing)
          /\ frame' = IF result = Landing THEN frame ELSE frame \ {result}
  /\ UNCHANGED <<login, address, clicked, late, moves, before, result>>

-----------------------------------------------------------------------------
(* The site (external).                                                      *)

LoginShown == pc \in {"form", "dismiss", "again", "clear", "submit", "closing", "check"}

ShowForm ==
  /\ LoginShown /\ verdict = Null /\ ~form
  /\ form' = TRUE
  /\ UNCHANGED <<pc, verdict, session, notice, notices, way, site, lobby>>

ShowNotice ==
  /\ LoginShown /\ notice = 0 /\ notices > 0
  /\ notice' \in 1..(Len(Ways) + 1)
  /\ notices' = notices - 1
  /\ UNCHANGED <<pc, form, verdict, session, way, site, lobby>>

(* An accepted form is hidden, and a session begins; a refused one stays, or *)
(* is hidden and shown again.                                                *)
AnswerLogin ==
  /\ LoginShown
  /\ \/ verdict = "accepted" /\ form /\ form' = FALSE /\ UNCHANGED session
     \/ verdict = "accepted" /\ ~form /\ ~session /\ session' = TRUE /\ UNCHANGED form
     \/ verdict = "refused" /\ Rerenders /\ form' = ~form /\ UNCHANGED session
  /\ UNCHANGED <<pc, verdict, notice, notices, way, site, lobby>>

LobbySought == pc \in {"landed", "button", "popup", "opened", "deferred", "retry", "goto"}

(* A popup nobody waits for any more.                                        *)
LatePopup(t) ==
  /\ LobbySought /\ pc # "popup" /\ clicked
  /\ ~IsOpen(t)
  /\ clicked' = FALSE
  /\ late' = late \cup {t}
  /\ tabs' = Append(tabs, t)
  /\ \E a \in Addresses : address' = [address EXCEPT ![t] = a]
  /\ UNCHANGED <<pc, login, frame, moves, lobby>>

(* A tab goes on to another address, or shows the lobby in a frame.          *)
MoveTab(t) ==
  /\ LobbySought /\ moves > 0
  /\ IsOpen(t)
  /\ \/ \E a \in Addresses \ {address[t]} :
          /\ address' = [address EXCEPT ![t] = a]
          /\ frame' = frame \ {t}
     \/ t \notin frame /\ frame' = frame \cup {t} /\ UNCHANGED address
  /\ moves' = moves - 1
  /\ UNCHANGED <<pc, login, tabs, clicked, late, lobby>>

-----------------------------------------------------------------------------
Next ==
  \/ FindForm \/ NoneVisible \/ CloseNotice \/ Cleared \/ NotCleared
  \/ Submit \/ FormClosed \/ CheckForm \/ Settle \/ GiveUp
  \/ GotoLobby \/ Landed \/ ClickBetNow \/ NoPopup \/ Opened
  \/ FoundTarget \/ NoTarget \/ Retry
  \/ ShowForm \/ ShowNotice \/ AnswerLogin
  \/ \E t \in Popups : PopupOpens(t) \/ LatePopup(t)
  \/ \E t \in Tabs : MoveTab(t)

Spec == Init /\ [][Next]_vars

-----------------------------------------------------------------------------
(* Properties.                                                               *)

(* Tabs, addresses and counters have their types; an attempt beyond the      *)
(* third is never made.                                                      *)
TypeOK ==
  /\ pc \in {"form", "dismiss", "again", "clear", "submit", "closing", "check", "settle", "goto",
             "landed", "button", "popup", "opened", "deferred", "retry", "done", "failed",
             "unresolved"}
  /\ form \in BOOLEAN /\ session \in BOOLEAN /\ verdict \in {Null, "accepted", "refused"}
  /\ notice \in 0..(Len(Ways) + 1) /\ notices \in 0..MaxNotices /\ way \in 0..Len(Ways)
  /\ Range(tabs) \subseteq Tabs /\ IsInjective(tabs)
  /\ address \in [Tabs -> Addresses] /\ frame \subseteq Range(tabs)
  /\ attempt \in 1..3 /\ result \in Tabs \cup {Null}

(* The lobby is sought only with a session: a form that did not close, or    *)
(* came back, is a failed login ("[jun88-auth] login succeeded").            *)
LoggedInHasSession == LobbySought \/ pc = "done" => session

(* What is returned is an open tab that shows the lobby when it is returned. *)
LobbyIsExpected == pc = "done" => IsOpen(result) /\ HasLobby(result)

(* The retries close the popups of their attempts and never the              *)
(* authenticated tab.                                                        *)
LandingKept == IsOpen(Landing)

(* Popups do not pile up: at the start of an attempt only the landing page   *)
(* is open, and popups that came too late to be seen.                        *)
OnlyLatePopupsRemain == pc = "goto" => Range(tabs) \subseteq {Landing} \cup late
=============================================================================
