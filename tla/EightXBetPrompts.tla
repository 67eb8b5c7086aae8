--------------------------- MODULE EightXBetPrompts ---------------------------
(* dismissEightXBetPostLoginOverlays: the announcements and quick-password   *)
(* prompts the site shows over its page after a login are closed as they     *)
(* come.  A prompt found is remembered by its place among its kind and by    *)
(* its task id; the click goes to what is at that place by then.  One unit   *)
(* of time is the 100 ms between two looks.                                  *)
EXTENDS Naturals, Sequences, SequencesExt, FiniteSets

CONSTANTS
  Announcements, QuickPasswords,   \* the prompts, by task id
  Order,           \* the order in which the site shows them
  PopupWait,       \* EIGHTXBET_POST_LOGIN_POPUP_MS
  Timeout,         \* of the login, and of the stage as a whole
  Quiet,           \* EIGHTXBET_POST_LOGIN_OVERLAY_QUIET_MS
  Fade,            \* how long a prompt that was clicked may stay, 0: it goes at once
  ClickTime,       \* how long a click that finds nothing takes
  Null

Prompts == Announcements \cup QuickPasswords

EightXBetPromptsAssumption ==
  /\ Order \in Seq(Prompts) /\ IsInjective(Order)
  /\ Announcements \cap QuickPasswords = {}
  /\ {PopupWait, Timeout, Quiet, Fade} \subseteq Nat /\ ClickTime \in Nat \ {0}
  /\ PopupWait <= Timeout

VARIABLES
  pc,         \* where the loop is
  view,       \* the prompts in view, in the order of the document
  coming,     \* the prompts still to come
  shownAt, clickedAt,
  clock,
  deadline,
  target,     \* the prompt found: its place among its kind, and its task id
  handled,    \* handledTaskIds
  noticed,    \* announcementHandled
  last,       \* lastDismissedAt
  clicks      \* history: how often each prompt was clicked

prompts == <<view, coming, shownAt, clickedAt, clicks>>
loop == <<deadline, handled, noticed, last>>
vars == <<pc, prompts, clock, target, loop>>

Least(a, b) == IF a < b THEN a ELSE b

Init ==
  /\ pc = "announcement"
  /\ view = <<>> /\ coming = Order
  /\ shownAt = [p \in Prompts |-> Null] /\ clickedAt = [p \in Prompts |-> Null]
  /\ clicks = [p \in Prompts |-> 0]
  /\ clock = 0 /\ deadline = PopupWait
  /\ target = Null /\ handled = {} /\ noticed = FALSE /\ last = Null

OfKind(kind) == SelectSeq(view, LAMBDA p : p \in kind)

(* Wrong: a prompt that was clicked and still fades is found again.          *)
FoundAgain(kind) ==
  LET found == OfKind(kind)
  IN IF found # <<>> THEN [place |-> Len(found), task |-> Last(found)] ELSE Null

(* The last visible prompt of a kind, unless it was handled: findVisible...  *)
Found(kind) ==
  LET found == OfKind(kind)
  IN IF found # <<>> /\ Last(found) \notin handled
       THEN [place |-> Len(found), task |-> Last(found)]
       ELSE Null

-----------------------------------------------------------------------------
(* The loop.                                                                 *)

LookForAnnouncement ==
  /\ pc = "announcement"
  /\ IF clock < deadline /\ clock < Timeout
       THEN /\ target' = Found(Announcements)
            /\ pc' = IF target' # Null THEN "close" ELSE "quickPassword"
       ELSE pc' = "done" /\ UNCHANGED target
  /\ UNCHANGED <<prompts, clock, loop>>

LookForQuickPassword ==
  /\ pc = "quickPassword"
  /\ target' = Found(QuickPasswords)
  /\ pc' = IF target' # Null THEN "cancel" ELSE "quiet"
  /\ UNCHANGED <<prompts, clock, loop>>

Dismissed ==
  /\ handled' = handled \cup {target.task}
  /\ last' = clock
  /\ deadline' = Least(clock + PopupWait, Timeout)
  /\ pc' = "announcement"

(* The click on the prompt that is at the target's place by now.             *)
Click(kind) ==
  /\ target.place <= Len(OfKind(kind))
  /\ LET p == OfKind(kind)[target.place]
     IN /\ clickedAt' = [clickedAt EXCEPT ![p] = IF @ = Null THEN clock ELSE @]
        /\ clicks' = [clicks EXCEPT ![p] = @ + 1]
        /\ view' = IF Fade = 0 THEN SelectSeq(view, LAMBDA q : q # p) ELSE view
  /\ Dismissed
  /\ UNCHANGED <<coming, shownAt, clock>>

(* There is none, which takes the click its time.                            *)
Miss(kind) ==
  /\ target.place > Len(OfKind(kind))
  /\ \E d \in 0..ClickTime : clock' = clock + d
  /\ UNCHANGED <<prompts, loop>>

Close ==
  /\ pc = "close"
  /\ \/ Click(Announcements) /\ noticed' = TRUE
     \/ Miss(Announcements) /\ pc' = "quickPassword"
  /\ target' = Null

Cancel ==
  /\ pc = "cancel"
  /\ \/ Click(QuickPasswords) /\ UNCHANGED noticed
     \/ Miss(QuickPasswords) /\ pc' = "quiet"
  /\ target' = Null

(* An announcement handled, and none since for a while, ends the stage.      *)
QuietEnough ==
  /\ pc = "quiet"
  /\ pc' = IF noticed /\ last # Null /\ clock - last >= Quiet THEN "done" ELSE "wait"
  /\ UNCHANGED <<prompts, clock, target, loop>>

Fading(p) == clickedAt[p] # Null

Wait ==
  /\ pc = "wait"
  /\ \A p \in ToSet(view) : Fading(p) => clock - clickedAt[p] < Fade
  /\ pc' = "announcement"
  /\ clock' = clock + 1
  /\ UNCHANGED <<prompts, target, loop>>

-----------------------------------------------------------------------------
(* The site (external).                                                      *)

Show ==
  /\ coming # <<>>
  /\ coming' = Tail(coming)
  /\ view' = Append(view, Head(coming))
  /\ shownAt' = [shownAt EXCEPT ![Head(coming)] = clock]
  /\ UNCHANGED <<pc, clickedAt, clicks, clock, target, loop>>

(* A prompt that was clicked goes.                                           *)
Vanish(p) ==
  /\ p \in ToSet(view) /\ Fading(p)
  /\ view' = SelectSeq(view, LAMBDA q : q # p)
  /\ UNCHANGED <<pc, coming, shownAt, clickedAt, clicks, clock, target, loop>>

Next ==
  \/ LookForAnnouncement \/ LookForQuickPassword \/ Close \/ Cancel
  \/ QuietEnough \/ Wait
  \/ Show \/ \E p \in Prompts : Vanish(p)

Spec == Init /\ [][Next]_vars

-----------------------------------------------------------------------------
(* Properties.                                                               *)

(* The view, the clock and the target have their types.                      *)
TypeOK ==
  /\ pc \in {"announcement", "close", "quickPassword", "cancel", "quiet", "wait", "done"}
  /\ view \in Seq(Prompts) /\ coming \in Seq(Prompts) /\ IsInjective(view \o coming)
  /\ clickedAt \in [Prompts -> {Null} \cup 0..clock]
  /\ deadline <= Timeout /\ handled \subseteq Prompts
  /\ target # Null => pc \in {"close", "cancel"} /\ target.place >= 1

(* A click goes once to a prompt: one that is still fading is not clicked    *)
(* again, nor cancelled for the one that follows it.                         *)
ClickedOnce == \A p \in Prompts : clicks[p] <= 1

(* "The announcement shown after the quick-password prompt must be closed":  *)
(* at the end of the stage no announcement is left that was in view for more *)
(* than a unit of time.                                                      *)
AnnouncementsClosed ==
  pc = "done" =>
    \A p \in ToSet(view) \cap Announcements : Fading(p) \/ shownAt[p] + 1 >= clock

(* "The post-login quick-password prompt must be dismissed with Cancel": a   *)
(* prompt that comes while the popups are waited for after the last one is   *)
(* dismissed, whatever came before it.                                       *)
PromptsAwaited ==
  pc = "done" /\ clock < deadline => \A p \in ToSet(view) : Fading(p)
=============================================================================
