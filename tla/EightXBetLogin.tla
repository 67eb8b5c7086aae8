---------------------------- MODULE EightXBetLogin ----------------------------
(* How the 8xbet runtime gets an authenticated page in play: it submits the  *)
(* login form, waits until the page has looked authenticated for a while,    *)
(* leaves the sports home with its observers attached, and navigates until   *)
(* the page gives a sign of the fixtures in play.  The collector looks at    *)
(* the page one fact after another, and the site changes it between any two  *)
(* looks.  One unit of time is the 100 ms between two looks.                 *)
EXTENDS Naturals

CONSTANTS
  LoginTimeout,   \* EIGHTXBET_LOGIN_TIMEOUT_MS
  Stable,         \* EIGHTXBET_LOGIN_STABLE_MS
  Attempts,       \* EIGHTXBET_NAVIGATION_ATTEMPTS
  MaxChanges,     \* bound: what the site does of its own
  MaxLag,         \* bound: the time the looks themselves take
  Null

EightXBetLoginAssumption ==
  /\ LoginTimeout \in Nat /\ Stable \in Nat \ {0} /\ Attempts \in Nat \ {0}
  /\ MaxChanges \in Nat /\ MaxLag \in Nat

Places == {"login", "home", "inplay", "other"}

VARIABLES
  pc,         \* where the runtime is
  place,      \* what the address of the page is
  form,       \* the password field is visible
  account,    \* a balance is visible
  alert,      \* an error text is in the page
  refused,    \* the site refused the credentials
  clock,      \* time since the wait for the authentication began
  sample,     \* readEightXBetLoginState: the facts looked at so far
  stage,      \* of the wait: "main" loop, "last" look, "final" window
  since,      \* authenticatedSince
  until,      \* finalStabilityDeadline
  attempt,    \* of waitForEightXBetReady, 0 before the first
  attached,   \* the observers are attached to the page
  asked,      \* the page has asked for the fixtures in play
  listed,     \* the page shows fixtures
  metadata,   \* the feed has heard the fixtures in play
  changes, lag,   \* bounds
  lastBad,    \* history: when the last look found the page not authenticated
  steady,     \* history: since when the page has been authenticated
  own         \* history: the site went in play of its own

page == <<place, form, account, alert, refused>>
wait == <<clock, sample, stage, since, until>>
feed == <<attached, asked, listed, metadata>>
bounds == <<changes, lag>>
vars == <<pc, page, wait, attempt, feed, bounds, lastBad, steady, own>>

NoSample == [login |-> FALSE, form |-> FALSE, account |-> FALSE]

Init ==
  /\ pc = "open"
  /\ place = "other" /\ form = FALSE /\ account = FALSE /\ alert = FALSE /\ refused = FALSE
  /\ clock = 0 /\ sample = NoSample /\ stage = "main" /\ since = Null /\ until = 0
  /\ attempt = 0
  /\ attached = FALSE /\ asked = FALSE /\ listed = FALSE /\ metadata = FALSE
  /\ changes = MaxChanges /\ lag = MaxLag
  /\ lastBad = 0 /\ steady = Null /\ own = FALSE

(* The page as it is, beside the page as the looks put it together.          *)
Authenticated(p, f, a) == p # "login" /\ ~f /\ a

Good == ~sample.login /\ ~sample.form /\ sample.account

Tracked ==
  steady' = IF ~Authenticated(place', form', account') THEN Null
            ELSE IF steady = Null THEN clock ELSE steady

(* What a page is after it has been loaded at p.                             *)
Loaded(p) ==
  /\ place' = p
  /\ form' = (p = "login") /\ alert' = FALSE
  /\ asked' = (p = "inplay") /\ listed' = FALSE

-----------------------------------------------------------------------------
(* ensureEightXBetLogin, up to the click that submits.                       *)

OpenLogin ==
  /\ pc = "open"
  /\ pc' = "fields"
  /\ \E p \in {"login", "home"} : Loaded(p)
  /\ UNCHANGED <<account, refused, wait, attempt, attached, metadata, bounds, lastBad, own>>
  /\ Tracked

(* The fields are shown by an entry button, if they are not visible.         *)
PressEntry ==
  /\ pc = "fields"
  /\ ~form
  /\ form' = TRUE
  /\ UNCHANGED <<pc, place, account, alert, refused, wait, attempt, feed, bounds, lastBad, own>>
  /\ Tracked

Submit ==
  /\ pc = "fields"
  /\ form
  /\ pc' = "url"
  /\ refused' \in BOOLEAN
  /\ UNCHANGED <<place, form, account, alert, wait, attempt, feed, bounds, lastBad, steady, own>>

(* A navigation fails, an element does not show up, the page is closed: the  *)
(* whole attempt to get a page fails.                                        *)
GiveUp ==
  /\ pc \in {"open", "fields", "redirect"}
  /\ pc' = "broken"
  /\ UNCHANGED <<page, wait, attempt, feed, bounds, lastBad, steady, own>>

-----------------------------------------------------------------------------
(* waitForEightXBetAuthenticated.                                            *)

LookAtUrl ==
  /\ pc = "url"
  /\ pc' = "form"
  /\ sample' = [sample EXCEPT !.login = (place = "login")]
  /\ UNCHANGED <<page, clock, stage, since, until, attempt, feed, bounds, lastBad, steady, own>>

LookAtForm ==
  /\ pc = "form"
  /\ pc' = "account"
  /\ sample' = [sample EXCEPT !.form = form]
  /\ UNCHANGED <<page, clock, stage, since, until, attempt, feed, bounds, lastBad, steady, own>>

LookAtAccount ==
  /\ pc = "account"
  /\ sample' = [sample EXCEPT !.account = account]
  /\ pc' = IF stage = "main" /\ sample.login /\ sample.form THEN "error" ELSE "decide"
  /\ UNCHANGED <<page, clock, stage, since, until, attempt, feed, bounds, lastBad, steady, own>>

(* An error text on a login form ends the wait.                              *)
LookForError ==
  /\ pc = "error"
  /\ pc' = IF alert THEN "rejected" ELSE "decide"
  /\ UNCHANGED <<page, wait, attempt, feed, bounds, lastBad, steady, own>>

Since == IF ~Good THEN Null ELSE IF since = Null THEN clock ELSE since

Deadline(s) == IF s # Null THEN s + Stable + 1 ELSE LoginTimeout

Looked == lastBad' = IF Good THEN lastBad ELSE clock

Decide ==
  /\ pc = "decide" /\ stage = "main"
  /\ since' = Since
  /\ IF Good /\ clock - since' >= Stable THEN pc' = "redirect" /\ UNCHANGED stage
     ELSE IF clock < Deadline(since') THEN pc' = "wait" /\ UNCHANGED stage
     ELSE pc' = "url" /\ stage' = "last"
  /\ Looked
  /\ UNCHANGED <<page, clock, sample, until, attempt, feed, bounds, steady, own>>

(* After the deadline one more look, ...                                     *)
DecideLast ==
  /\ pc = "decide" /\ stage = "last"
  /\ IF Good THEN pc' = "wait" /\ stage' = "final" /\ until' = clock + Stable
     ELSE pc' = "rejected" /\ UNCHANGED <<stage, until>>
  /\ Looked
  /\ UNCHANGED <<page, clock, sample, since, attempt, feed, bounds, steady, own>>

(* ... and if it is good, a window of its own.                               *)
DecideFinal ==
  /\ pc = "decide" /\ stage = "final"
  /\ pc' = IF ~Good THEN "rejected" ELSE IF clock < until THEN "wait" ELSE "redirect"
  /\ Looked
  /\ UNCHANGED <<page, wait, attempt, feed, bounds, steady, own>>

Wait ==
  /\ pc = "wait"
  /\ pc' = "url"
  /\ clock' = clock + 1
  /\ UNCHANGED <<page, sample, stage, since, until, attempt, feed, bounds, lastBad, steady, own>>

(* The looks take time as well.                                              *)
Latency ==
  /\ pc \in {"url", "form", "account", "error"}
  /\ lag > 0
  /\ lag' = lag - 1
  /\ clock' = clock + 1
  /\ UNCHANGED <<pc, page, sample, stage, since, until, attempt, feed, changes, lastBad, steady, own>>

-----------------------------------------------------------------------------
(* redirectEightXBetSportsHomeToInplay; the prompts are EightXBetPrompts.    *)

Redirect ==
  /\ pc = "redirect"
  /\ pc' = "attach"
  /\ IF place = "home"
       THEN attached' = TRUE /\ \E p \in Places : Loaded(p)
       ELSE UNCHANGED <<place, form, alert, attached, asked, listed>>
  /\ UNCHANGED <<account, refused, wait, attempt, metadata, bounds, lastBad, own>>
  /\ Tracked

(* ensurePage: attachSportsObservers, if the redirect did not.               *)
Attach ==
  /\ pc = "attach"
  /\ pc' = IF place = "inplay" THEN "signal" ELSE "goto"
  /\ attached' = TRUE
  /\ UNCHANGED <<page, wait, attempt, asked, listed, metadata, bounds, lastBad, steady, own>>

-----------------------------------------------------------------------------
(* waitForEightXBetReady.                                                    *)

(* A navigation that is interrupted leaves the page somewhere.               *)
GotoInplay ==
  /\ pc = "goto"
  /\ IF attempt < Attempts
       THEN /\ attempt' = attempt + 1
            /\ pc' = "settle"
            /\ \E p \in Places : Loaded(p)
       ELSE /\ pc' = "broken"
            /\ UNCHANGED <<place, form, alert, asked, listed, attempt>>
  /\ UNCHANGED <<account, refused, wait, attached, metadata, bounds, lastBad, own>>
  /\ Tracked

Settled ==
  /\ pc = "settle"
  /\ pc' = IF place = "inplay" THEN "signal" ELSE "goto"
  /\ UNCHANGED <<page, wait, attempt, feed, bounds, lastBad, steady, own>>

(* waitForEightXBetPageSignal.                                               *)
Signal == metadata \/ listed

Signalled ==
  /\ pc = "signal" /\ Signal
  /\ pc' = "ready"
  /\ UNCHANGED <<page, wait, attempt, feed, bounds, lastBad, steady, own>>

NoSignal ==
  /\ pc = "signal" /\ ~Signal
  /\ pc' = "goto"
  /\ UNCHANGED <<page, wait, attempt, feed, bounds, lastBad, steady, own>>

-----------------------------------------------------------------------------
(* The site (external).                                                      *)

Underway == pc \notin {"open", "rejected", "broken", "ready"}

(* One of the facts of the page changes.                                     *)
Change ==
  /\ Underway /\ changes > 0
  /\ changes' = changes - 1
  /\ \/ form' = ~form /\ UNCHANGED <<place, account, alert, asked, listed>>
     \/ account' = ~account /\ UNCHANGED <<place, form, alert, asked, listed>>
     \/ alert' = ~alert /\ UNCHANGED <<place, form, account, asked, listed>>
     \/ /\ place' \in Places \ {place}
        /\ asked' = (place' = "inplay")
        /\ alert' = FALSE /\ listed' = FALSE
        /\ UNCHANGED <<form, account>>
  /\ refused => ~account' /\ form'
  /\ own' = (own \/ (place # "inplay" /\ place' = "inplay"))
  /\ UNCHANGED <<pc, refused, wait, attempt, attached, metadata, lag, lastBad>>
  /\ Tracked

(* The fixtures arrive, and are heard by the observers there are.            *)
Answer ==
  /\ Underway /\ asked
  /\ asked' = FALSE
  /\ listed' = TRUE
  /\ metadata' = (metadata \/ attached)
  /\ UNCHANGED <<pc, page, wait, attempt, attached, bounds, lastBad, steady, own>>

Next ==
  \/ OpenLogin \/ PressEntry \/ Submit \/ GiveUp
  \/ LookAtUrl \/ LookAtForm \/ LookAtAccount \/ LookForError
  \/ Decide \/ DecideLast \/ DecideFinal \/ Wait \/ Latency
  \/ Redirect \/ Attach \/ GotoInplay \/ Settled \/ Signalled \/ NoSignal
  \/ Change \/ Answer

Spec == Init /\ [][Next]_vars

-----------------------------------------------------------------------------
(* Properties.                                                               *)

(* The facts, the clock and the counters have their types.                   *)
TypeOK ==
  /\ pc \in {"open", "fields", "url", "form", "account", "error", "decide", "wait", "redirect",
             "attach", "goto", "settle", "signal", "ready", "rejected", "broken"}
  /\ place \in Places
  /\ {form, account, alert, refused, attached, asked, listed, metadata} \subseteq BOOLEAN
  /\ sample \in [login : BOOLEAN, form : BOOLEAN, account : BOOLEAN]
  /\ stage \in {"main", "last", "final"}
  /\ since \in {Null} \cup 0..clock /\ steady \in {Null} \cup 0..clock
  /\ lastBad \in 0..clock /\ until <= clock + Stable
  /\ attempt \in 0..Attempts

(* The login is accepted only if no look of the last Stable units found the  *)
(* page not authenticated, in the main loop and in the final window alike.   *)
AcceptedIsSteady == pc = "redirect" => clock - lastBad >= Stable

(* "A late authenticated signal must receive its full stability window": the *)
(* deadline rejects a login only if the page was not authenticated all the   *)
(* time from before the deadline on.                                         *)
LateSignalSuffices ==
  pc = "rejected" /\ stage # "main" => steady = Null \/ steady >= LoginTimeout

(* The loop without a condition of its own ends: a window past the deadline, *)
(* a final window, and the time the looks took.                              *)
WaitIsBounded == clock <= LoginTimeout + 2 * Stable + 1 + MaxLag

(* The fixtures in play are not missed: once the page is ready the feed has  *)
(* heard them, or is there to hear the answer, unless the site went in play  *)
(* before the observers were attached.                                       *)
ReadyIsHeard == pc = "ready" => metadata \/ (attached /\ asked) \/ own
=============================================================================
