---------------------------- MODULE LogonWatchdog ----------------------------
(***************************************************************************)
(* StarCraft II's sign-in and the thread that watches it: LogonWatchdog    *)
(* and the lines of connect_once around authenticate_cached, in            *)
(* core/src/session/worker.rs.                                             *)
(*                                                                         *)
(* The sign-in reads from a socket below the TLS layer, where no timeout   *)
(* reaches it.  A second thread counts beats and shuts the socket down;    *)
(* the two share three atomics.  Every load and store of an atomic is a    *)
(* step of its own.  Time is the watchdog's beats: `spent` counts them.    *)
(***************************************************************************)
EXTENDS Naturals

CONSTANT Patience   \* beats of silence before the connection is cut

ASSUME PatienceAssumption == Patience \in Nat \ {0}

VARIABLES
  worker,         \* where the sign-in is
  outcome,        \* what authenticate_cached returned
  report,         \* what connect_once makes of it
  challenged,     \* the service has asked for a web sign-in
  watchdog,       \* where the watchdog thread is, "none" if it never started
  spent,          \* beats since the clock was last held
  waiting,        \* the atomics
  at_login_page,
  fired,
  cut             \* the socket is shut down

signIn == <<worker, outcome, report, challenged>>
clock == <<watchdog, spent, fired, cut>>
watchVars == <<signIn, clock, waiting, at_login_page>>

WatchTypeOK ==
  /\ worker \in {"reading", "asking", "page", "answered", "returned", "disarmed", "done"}
  /\ outcome \in {"none", "ok", "error", "severed"}
  /\ report \in {"none", "ok", "error", "unanswered"}
  /\ challenged \in BOOLEAN
  /\ watchdog \in {"none", "loop", "sleep", "look", "recheck", "fire", "cut", "exit"}
  /\ spent \in 0 .. Patience
  /\ waiting \in BOOLEAN
  /\ at_login_page \in BOOLEAN
  /\ fired \in BOOLEAN
  /\ cut \in BOOLEAN

\* arm, whose thread may fail to start, and the call of authenticate_cached.
WatchInit ==
  /\ worker = "reading"
  /\ outcome = "none"
  /\ report = "none"
  /\ challenged = FALSE
  /\ \/ watchdog = "loop" /\ waiting = TRUE
     \/ watchdog = "none" /\ waiting = FALSE
  /\ spent = 0
  /\ at_login_page = FALSE
  /\ fired = FALSE
  /\ cut = FALSE

-----------------------------------------------------------------------------
(* The sign-in.                                                            *)

Returns(result) == worker' = "returned" /\ outcome' = result /\ UNCHANGED <<report, challenged>>

\* The service answers what was asked of it, well or badly; it may never do so.
ServiceAnswers ==
  /\ worker = "reading"
  /\ ~cut
  /\ \E result \in {"ok", "error"} : Returns(result)
  /\ UNCHANGED <<clock, waiting, at_login_page>>

\* A second challenge is an error: ServiceAnswers.
ServiceChallenges ==
  /\ worker = "reading"
  /\ ~cut
  /\ ~challenged
  /\ worker' = "asking"
  /\ challenged' = TRUE
  /\ UNCHANGED <<outcome, report, clock, waiting, at_login_page>>

\* The read of a socket that is shut down returns an error.
ReadSevered ==
  /\ worker = "reading"
  /\ cut
  /\ Returns("severed")
  /\ UNCHANGED <<clock, waiting, at_login_page>>

\* The application has dropped its end of the events: the callback returns
\* before it holds the clock.
AskFails ==
  /\ worker = "asking"
  /\ Returns("error")
  /\ UNCHANGED <<clock, waiting, at_login_page>>

\* The Authentication event is out, and the page may be on screen already.
HoldClock ==
  /\ worker = "asking"
  /\ worker' = "page"
  /\ at_login_page' = TRUE
  /\ UNCHANGED <<outcome, report, challenged, clock, waiting>>

\* response.recv() returns, or the application has dropped its end.
PageAnswered ==
  /\ worker = "page"
  /\ worker' = "answered"
  /\ UNCHANGED <<outcome, report, challenged, clock, waiting, at_login_page>>

PageDropped ==
  /\ worker = "page"
  /\ Returns("error")
  /\ UNCHANGED <<clock, waiting, at_login_page>>

\* Mutant: the flag is left up after the page was answered.
ReleaseClockNever ==
  /\ worker = "answered"
  /\ \/ worker' = "reading" /\ UNCHANGED <<outcome, report, challenged>>
     \/ Returns("error")
  /\ UNCHANGED <<clock, waiting, at_login_page>>

\* The answer was a credential, which is sent to be verified, or an error.
ReleaseClock ==
  /\ worker = "answered"
  /\ at_login_page' = FALSE
  /\ \/ worker' = "reading" /\ UNCHANGED <<outcome, report, challenged>>
     \/ Returns("error")
  /\ UNCHANGED <<clock, waiting>>

Disarm ==
  /\ worker = "returned"
  /\ worker' = "disarmed"
  /\ waiting' = FALSE
  /\ UNCHANGED <<outcome, report, challenged, clock, at_login_page>>

\* map_err: an error is put down to the watchdog if it has fired.
Report ==
  /\ worker = "disarmed"
  /\ worker' = "done"
  /\ report' = IF outcome = "ok" THEN "ok" ELSE IF fired THEN "unanswered" ELSE "error"
  /\ UNCHANGED <<outcome, challenged, clock, waiting, at_login_page>>

-----------------------------------------------------------------------------
(* The watchdog.                                                           *)

Ticks(next) == watchdog' = next /\ UNCHANGED <<signIn, waiting, at_login_page>>

LoopTest ==
  /\ watchdog = "loop"
  /\ Ticks(IF waiting THEN "sleep" ELSE "exit")
  /\ UNCHANGED <<spent, fired, cut>>

Sleep ==
  /\ watchdog = "sleep"
  /\ Ticks("look")
  /\ UNCHANGED <<spent, fired, cut>>

\* Mutant: the clock is tested before the beat is counted.
LookLate ==
  /\ watchdog = "look"
  /\ Ticks(IF ~at_login_page /\ spent >= Patience THEN "recheck" ELSE "loop")
  /\ spent' = IF at_login_page THEN 0 ELSE spent + 1
  /\ UNCHANGED <<fired, cut>>

Look ==
  /\ watchdog = "look"
  /\ IF at_login_page
       THEN spent' = 0 /\ Ticks("loop")
       ELSE /\ spent' = spent + 1
            /\ Ticks(IF spent + 1 >= Patience THEN "recheck" ELSE "loop")
  /\ UNCHANGED <<fired, cut>>

Recheck ==
  /\ watchdog = "recheck"
  /\ Ticks(IF waiting THEN "fire" ELSE "exit")
  /\ UNCHANGED <<spent, fired, cut>>

\* Mutant: the connection is cut first and accounted for after.
FireCuttingFirst ==
  /\ watchdog = "fire"
  /\ cut' = TRUE
  /\ Ticks("cut")
  /\ UNCHANGED <<spent, fired>>

Fire ==
  /\ watchdog = "fire"
  /\ fired' = TRUE
  /\ Ticks("cut")
  /\ UNCHANGED <<spent, cut>>

Cut ==
  /\ watchdog = "cut"
  /\ cut' = TRUE
  /\ Ticks("exit")
  /\ UNCHANGED <<spent, fired>>

Watchdog == LoopTest \/ Sleep \/ Look \/ Recheck \/ Fire \/ Cut

\* What the worker's thread does without anybody else.
SignInThread == ReadSevered \/ HoldClock \/ ReleaseClock \/ Disarm \/ Report

Over == worker = "done" /\ watchdog \in {"none", "exit"} /\ UNCHANGED watchVars

WatchNext ==
  \/ SignInThread
  \/ ServiceAnswers
  \/ ServiceChallenges
  \/ AskFails
  \/ PageAnswered
  \/ PageDropped
  \/ Watchdog
  \/ Over

WatchSpec == WatchInit /\ [][WatchNext]_watchVars

(***************************************************************************)
(* Fairness.  Both threads are scheduled.  Nothing is assumed of the       *)
(* service, which may fall silent at any point, or of the person at the    *)
(* login page.                                                             *)
(***************************************************************************)
WatchFairness == WF_watchVars(SignInThread) /\ WF_watchVars(Watchdog)
FairWatchSpec == WatchSpec /\ WatchFairness

-----------------------------------------------------------------------------
\* A sign-in that the watchdog severed is reported as one the service never
\* answered, never as the transport error that the cut produced: whenever the
\* worker looks, `fired` is already up.
SeveredIsExplained ==
  worker = "done" /\ outcome = "severed" => report = "unanswered"

\* A sign-in ends by itself, however silent the service is, unless a person
\* never leaves the login page or the watchdog's thread could not be started.
SignInEnds ==
  watchdog # "none" => <>(worker = "done") \/ <>[](worker = "page")
=============================================================================
