---------------------------- MODULE UpdateDialog ----------------------------
(***************************************************************************)
(* Software updates up to the installer: the dialog of the application     *)
(* (app/src/app/update.rs, app/src/app/client/sessions/updates.rs) and the *)
(* updater's worker thread (updater/src/engine.rs).  They share a queue of *)
(* commands, a queue of events and the flag `cancelled'; the worker does   *)
(* one command at a time, and a command may take as long as the network    *)
(* does.                                                                   *)
(*                                                                         *)
(* Releases are numbered, 0 is the one that runs.  Progress reports are    *)
(* abstracted to the first of each kind, and times to whether a deadline   *)
(* has passed.  A command remembers the stage whose button it was, which   *)
(* the code does not: only properties look at it.                          *)
(***************************************************************************)
EXTENDS Naturals, Sequences

CONSTANTS
  Releases,      \* releases newer than the one that runs
  MaxClicks      \* bound on what the user does

ASSUME ReleasesAssumption == Releases \subseteq Nat \ {0}
ASSUME ClicksAssumption == MaxClicks \in Nat

VARIABLES
  ui,            \* the dialog and what waits for it
  commands,      \* to the worker
  events,        \* from the worker
  cancelled,
  engine,        \* the worker: its state, the release it is about and what it is doing
  archive,       \* Downloads: what is stored for each release
  feed,          \* the newest release of the appcast, 0 when there is none newer
  quit,
  clicks

vars == <<ui, commands, events, cancelled, engine, archive, feed, quit, clicks>>

None == 0
Stages == {"Idle", "Checking", "Available", "Downloading", "Extracting", "Ready", "Installing",
           "Current", "Error"}
Kinds == {"checking", "available", "downloading", "extracting", "ready", "installing",
          "not_found", "error", "dismissed", "focus", "quit_requested"}
Jobs == {"none", "fetch", "connect", "download", "extract", "launch"}
Dialogs == [stage : Stages, shown : Releases \cup {None}, visible : BOOLEAN, closing : BOOLEAN,
            startup : BOOLEAN, started : BOOLEAN, connect : BOOLEAN, deadline : BOOLEAN]

Event(kind) == [kind |-> kind, release |-> None]
Available(r) == [kind |-> "available", release |-> r]

TypeOK ==
  /\ ui \in Dialogs
  /\ commands \in Seq([kind : {"Check", "PrimaryAction", "Dismiss"}, button : Stages])
  /\ events \in Seq([kind : Kinds, release : Releases \cup {None}])
  /\ cancelled \in BOOLEAN
  /\ engine \in [state : {"Idle", "Available", "Ready", "Installing"},
                 release : Releases \cup {None}, job : Jobs]
  /\ (engine.state # "Idle") <=> (engine.release # None)
  /\ archive \in [Releases -> {"absent", "bad", "good"}]
  /\ feed \in Releases \cup {None}
  /\ quit \in BOOLEAN
  /\ clicks \in 0 .. MaxClicks

\* The connection waits for the startup check.  An archive may be there from
\* an earlier run, whole or not.
Init ==
  /\ ui = [stage |-> "Idle", shown |-> None, visible |-> FALSE, closing |-> FALSE,
           startup |-> TRUE, started |-> FALSE, connect |-> TRUE, deadline |-> FALSE]
  /\ commands = <<>>
  /\ events = <<>>
  /\ cancelled = FALSE
  /\ engine = [state |-> "Idle", release |-> None, job |-> "none"]
  /\ archive \in [Releases -> {"absent", "bad", "good"}]
  /\ feed \in Releases \cup {None}
  /\ quit = FALSE
  /\ clicks = 0

-----------------------------------------------------------------------------
(* The dialog.                                                             *)

begin_check(u) == [u EXCEPT !.stage = "Checking", !.shown = None]
show_unavailable(u) == [u EXCEPT !.stage = "Error", !.shown = None]
Show(u) == [u EXCEPT !.visible = TRUE, !.closing = FALSE]
Hide(u) == [u EXCEPT !.closing = TRUE]
begin_startup_connection(u) == [u EXCEPT !.connect = FALSE]

apply_event(u, e) ==
  CASE e.kind = "checking"    -> begin_check(u)
    [] e.kind = "available"   -> [u EXCEPT !.stage = "Available", !.shown = e.release]
    [] e.kind = "downloading" -> [u EXCEPT !.stage = "Downloading"]
    [] e.kind = "extracting"  -> [u EXCEPT !.stage = "Extracting"]
    [] e.kind = "ready"       -> [u EXCEPT !.stage = "Ready"]
    [] e.kind = "installing"  -> [u EXCEPT !.stage = "Installing"]
    [] e.kind = "not_found"   -> [u EXCEPT !.stage = "Current", !.shown = None]
    [] e.kind = "error"       -> show_unavailable(u)
    [] OTHER                  -> u

\* Mutant: a dismissal presents the dialog again.
PresentUnlessQuitting(e) == e.kind # "quit_requested"

should_present(e) == e.kind \notin {"dismissed", "quit_requested"}
Waiting(e) == e.kind \in {"checking", "focus"}

\* One event, in the order of poll_update_events: the model, the deadline of
\* a manual check, and then the startup check or the dialog.
OnEvent(u, e) ==
  LET applied == apply_event(u, e)
      heard == IF Waiting(e) THEN applied ELSE [applied EXCEPT !.deadline = FALSE]
      ended == [heard EXCEPT !.startup = FALSE, !.started = FALSE]
  IN CASE heard.startup /\ Waiting(e) -> heard
       [] heard.startup /\ e.kind = "available" -> Show(ended)
       [] heard.startup /\ ~Waiting(e) /\ e.kind # "available" -> begin_startup_connection(ended)
       [] ~heard.startup /\ should_present(e) -> Show(heard)
       [] OTHER ->
            IF ~heard.startup /\ heard.visible /\ ~heard.closing
               /\ heard.stage \notin {"Current", "Error"}
            THEN Hide(heard) ELSE heard

StartupTimeout(u) ==
  LET ended == [u EXCEPT !.startup = FALSE, !.started = FALSE]
  IN begin_startup_connection(IF u.visible THEN show_unavailable(ended) ELSE ended)

ManualTimeout(u) == Show(show_unavailable([u EXCEPT !.deadline = FALSE]))

Send(kind) ==
  /\ commands' = Append(commands, [kind |-> kind, button |-> ui.stage])
  /\ cancelled' = (kind = "Dismiss")

Late(u, startupLate, manualLate) ==
  LET started == IF startupLate /\ u.startup THEN StartupTimeout(u) ELSE u
  IN IF manualLate /\ started.deadline THEN ManualTimeout(started) ELSE started

\* poll_update_events, when no event has come through or the next one has; and
\* whether the twelve seconds of the startup check, or of a manual one, have
\* passed.  A poll that finds several events is as many polls that find one.
Poll(arrived, startupLate, manualLate) ==
  LET ask == ui.startup /\ ~ui.started
      asked == [ui EXCEPT !.started = ui.startup]
      polled == IF arrived THEN OnEvent(asked, Head(events)) ELSE asked
      quits == arrived /\ Head(events).kind = "quit_requested"
  IN /\ ~quit
     /\ arrived => events # <<>>
     /\ ui' = IF quits THEN polled ELSE Late(polled, startupLate /\ ~ask, manualLate)
     /\ quit' = quits
     /\ events' = IF arrived THEN Tail(events) ELSE events
     /\ IF ask THEN Send("Check") ELSE UNCHANGED <<commands, cancelled>>
     /\ UNCHANGED <<engine, archive, feed, clicks>>

\* Mutant: hiding the dialog does not start the connection it held back.
HideOnly ==
  /\ ~quit /\ ui.closing
  /\ ui' = [ui EXCEPT !.visible = FALSE, !.closing = FALSE]
  /\ UNCHANGED <<commands, events, cancelled, engine, archive, feed, quit, clicks>>

\* The closing animation has ended.
HideDue ==
  /\ ~quit /\ ui.closing
  /\ ui' = begin_startup_connection([ui EXCEPT !.visible = FALSE, !.closing = FALSE])
  /\ UNCHANGED <<commands, events, cancelled, engine, archive, feed, quit, clicks>>

Click ==
  /\ ~quit /\ clicks < MaxClicks
  /\ clicks' = clicks + 1
  /\ UNCHANGED <<events, engine, archive, feed, quit>>

\* The menu entry.  A check that startup has asked for is not asked for again.
check_for_updates ==
  /\ Click
  /\ ~ui.visible
  /\ ui' = [Show(begin_check(ui)) EXCEPT !.deadline = ui.deadline \/ ~ui.startup]
  /\ IF ui.startup THEN UNCHANGED <<commands, cancelled>> ELSE Send("Check")

perform_update_primary_action ==
  /\ Click
  /\ ui.visible
  /\ \/ /\ ui.stage \in {"Current", "Error"}
        /\ ui' = [begin_check(ui) EXCEPT !.deadline = TRUE]
        /\ Send("Check")
     \/ /\ ui.stage \in {"Available", "Ready"}
        /\ Send("PrimaryAction")
        /\ UNCHANGED ui

close_update_dialog ==
  /\ Click
  /\ ui.visible /\ ~ui.closing
  /\ ui' = Hide([ui EXCEPT !.deadline = FALSE])
  /\ Send("Dismiss")

-----------------------------------------------------------------------------
(* The worker thread.                                                      *)

Emit(kinds) == events' = events \o kinds
Worker == UNCHANGED <<ui, cancelled, feed, quit, clicks>>
Rest == [state |-> "Idle", release |-> None, job |-> "none"]

Take(kind) ==
  /\ ~quit /\ engine.job = "none"
  /\ commands # <<>> /\ Head(commands).kind = kind
  /\ commands' = Tail(commands)
  /\ UNCHANGED archive
  /\ Worker

\* Mutant: a prepared update survives its dismissal.
TakeDismissKeepingReady ==
  /\ Take("Dismiss")
  /\ engine' = IF engine.state = "Ready" THEN engine ELSE Rest
  /\ Emit(<<Event("dismissed")>>)

\* The directory of a prepared update is removed with it.
TakeDismiss ==
  /\ Take("Dismiss")
  /\ engine' = Rest
  /\ Emit(<<Event("dismissed")>>)

TakeCheck ==
  /\ Take("Check")
  /\ \/ /\ engine.state # "Idle"
        /\ Emit(<<Event("focus")>>)
        /\ UNCHANGED engine
     \/ /\ engine.state = "Idle" /\ cancelled
        /\ Emit(<<Event("checking"), Event("dismissed")>>)
        /\ UNCHANGED engine
     \/ /\ engine.state = "Idle" /\ ~cancelled
        /\ Emit(<<Event("checking")>>)
        /\ engine' = [engine EXCEPT !.job = "fetch"]

\* An archive that an earlier run left, and that verifies, is not fetched again.
TakePrimaryAction ==
  /\ ~quit /\ engine.job = "none"
  /\ commands # <<>> /\ Head(commands).kind = "PrimaryAction"
  /\ commands' = Tail(commands)
  /\ Worker
  /\ \/ /\ engine.state = "Idle"
        /\ Emit(<<Event("error")>>)
        /\ UNCHANGED <<engine, archive>>
     \/ /\ engine.state = "Installing"
        /\ Emit(<<Event("focus")>>)
        /\ UNCHANGED <<engine, archive>>
     \/ /\ engine.state = "Ready"
        /\ engine' = [engine EXCEPT !.job = "launch"]
        /\ UNCHANGED <<events, archive>>
     \/ /\ engine.state = "Available" /\ archive[engine.release] = "good"
        /\ Emit(<<Event("downloading"), Event("extracting")>>)
        /\ engine' = [engine EXCEPT !.job = "extract"]
        /\ UNCHANGED archive
     \/ /\ engine.state = "Available" /\ archive[engine.release] # "good"
        /\ archive' = [archive EXCEPT ![engine.release] = "absent"]
        /\ IF cancelled THEN engine' = Rest /\ Emit(<<Event("dismissed")>>)
           ELSE engine' = [engine EXCEPT !.job = "connect"] /\ UNCHANGED events

\* The end of the job under way: what was cancelled ends as dismissed, and what
\* fails as an error.
Ends(job, next, kinds) ==
  /\ ~quit /\ engine.job = job
  /\ engine' = next
  /\ Emit(kinds)
  /\ UNCHANGED commands
  /\ Worker

Abandon(job) ==
  /\ UNCHANGED archive
  /\ \/ cancelled /\ Ends(job, Rest, <<Event("dismissed")>>)
     \/ Ends(job, Rest, <<Event("error")>>)

FetchDone ==
  \/ Abandon("fetch")
  \/ /\ ~cancelled
     /\ UNCHANGED archive
     /\ IF feed = None THEN Ends("fetch", Rest, <<Event("not_found")>>)
        ELSE Ends("fetch", [state |-> "Available", release |-> feed, job |-> "none"],
                  <<Available(feed)>>)

Connected ==
  \/ Abandon("connect")
  \/ /\ Ends("connect", [engine EXCEPT !.job = "download"], <<Event("downloading")>>)
     /\ UNCHANGED archive

\* Mutant: what was downloaded is not verified.
DownloadDoneUnverified ==
  \/ Abandon("download")
  \/ /\ Ends("download", [engine EXCEPT !.job = "extract"], <<Event("extracting")>>)
     /\ \E state \in {"bad", "good"} : archive' = [archive EXCEPT ![engine.release] = state]

\* The download is renamed into place and then verified.
DownloadDone ==
  \/ Abandon("download")
  \/ /\ Ends("download", [engine EXCEPT !.job = "extract"], <<Event("extracting")>>)
     /\ archive' = [archive EXCEPT ![engine.release] = "good"]
  \/ /\ Ends("download", Rest, <<Event("error")>>)
     /\ archive' = [archive EXCEPT ![engine.release] = "bad"]

ExtractDone ==
  \/ Abandon("extract")
  \/ /\ Ends("extract", [engine EXCEPT !.state = "Ready", !.job = "none"], <<Event("ready")>>)
     /\ UNCHANGED archive

\* launch_agent returns when the agent has said READY, or has not.
LaunchDone ==
  /\ UNCHANGED archive
  /\ \/ Ends("launch", [engine EXCEPT !.job = "none"], <<Event("error")>>)
     \/ Ends("launch", [engine EXCEPT !.state = "Installing", !.job = "none"],
             <<Event("installing"), Event("quit_requested")>>)

Publish ==
  /\ \E r \in Releases : r > feed /\ feed' = r
  /\ UNCHANGED <<ui, commands, events, cancelled, engine, archive, quit, clicks>>

-----------------------------------------------------------------------------
Interface ==
  \/ \E arrived, startupLate, manualLate \in BOOLEAN : Poll(arrived, startupLate, manualLate)
  \/ HideDue
  \/ check_for_updates
  \/ perform_update_primary_action
  \/ close_update_dialog

Engine ==
  \/ TakeDismiss \/ TakeCheck \/ TakePrimaryAction
  \/ FetchDone \/ Connected \/ DownloadDone \/ ExtractDone \/ LaunchDone

Next == Interface \/ Engine \/ Publish

Spec == Init /\ [][Next]_vars

\* The application polls for as long as it runs, time passes, and what was
\* sent comes through.  The worker has no such promise: http_agent sets no
\* timeout, so a request may hang for good.
FairSpec ==
  /\ Spec
  /\ WF_vars(Poll(events # <<>>, TRUE, TRUE))
  /\ WF_vars(HideDue)

-----------------------------------------------------------------------------
(* Properties.                                                             *)

Quiet == commands = <<>> /\ events = <<>> /\ engine.job = "none" /\ ~quit

\* With nothing under way, a dialog that offers to download or to relaunch
\* offers what the worker would do, for the release in its headline: UpdateModel
\* and State are kept by two threads and agree only through the queues.
OfferIsReal ==
  (Quiet /\ ui.visible /\ ~ui.closing /\ ui.stage \in {"Available", "Ready"})
    => /\ engine.state = ui.stage
       /\ engine.release = ui.shown

\* With nothing under way and the dialog gone, no update is left selected or
\* prepared: dismissing reached the worker whatever it was doing.
HiddenMeansIdle == (Quiet /\ ~ui.visible) => engine.state = "Idle"

\* What is ready to install was verified, also when the archive was already
\* there, and nothing has replaced it since.
ReadyIsVerified ==
  (engine.state \in {"Ready", "Installing"} \/ engine.job = "extract")
    => archive[engine.release] = "good"

\* The deferred connection to Battle.net begins, or the user has the dialog
\* in front of them, however long the update service takes.
StartupConnects == ui.connect ~> (~ui.connect \/ ui.visible \/ quit)

\* A button does what it says: UPDATE NOW downloads, RELAUNCH installs, TRY
\* AGAIN and CHECK AGAIN check.  Does not hold: two quick presses of UPDATE NOW
\* are two commands, and the second finds the update ready.
ButtonDoesWhatItSays ==
  [][/\ (engine.job # "launch" /\ engine'.job = "launch") => Head(commands).button = "Ready"
     /\ (engine.job = "none" /\ engine'.job = "connect") => Head(commands).button = "Available"
    ]_vars

\* TRY AGAIN checks again: with nothing under way, a dialog that shows an error
\* has a worker that would run the check and not only answer with Focus.  Does
\* not hold: a launch that failed leaves the worker in Ready.
TryAgainChecks ==
  (Quiet /\ ui.visible /\ ~ui.closing /\ ui.stage = "Error") => engine.state = "Idle"
=============================================================================
