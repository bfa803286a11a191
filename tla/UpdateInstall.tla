--------------------------- MODULE UpdateInstall ---------------------------
(***************************************************************************)
(* The installation of a prepared update: the updater's agent and, where   *)
(* the installation belongs to an administrator, its privileged worker     *)
(* (updater/src/bin/superiority-updater-agent.rs), the plan they carry out *)
(* (updater/src/install.rs, updater/src/platform/macos.rs and windows.rs)  *)
(* and the launcher of Windows (superiority-launcher.rs).  The application *)
(* launches the agent and quits; who installs waits for that, replaces the *)
(* installation and the agent launches the application again.  Any step    *)
(* may fail, and a process may be killed at any step.  The user may quit   *)
(* the application and start it again at any time, in the middle of an     *)
(* installation too: where two instances run the model follows one.        *)
(*                                                                         *)
(* An installation is a bundle on macOS, and on Windows directories of     *)
(* versions and the manifest current.json.  A directory is absent, partial *)
(* or whole; what is prepared is whole: it is extracted from a verified    *)
(* archive for every attempt.  The launcher and the agent of Windows, each *)
(* replaced by one atomic move, are left out.                              *)
(***************************************************************************)
EXTENDS Naturals

CONSTANTS
  Platforms,     \* among "macos" and "windows"
  Builds,
  First,         \* the build installed first
  MaxFaults,     \* bound on failing steps, killed processes and timeouts
  MaxAttempts    \* bound on the updates the user asks for

None == 0

ASSUME PlatformsAssumption == Platforms \subseteq {"macos", "windows"}
ASSUME BuildsAssumption == Builds \subseteq Nat \ {None} /\ First \in Builds
ASSUME BoundsAssumption == MaxFaults \in Nat /\ MaxAttempts \in Nat

VARIABLES
  platform,
  elevated,      \* whether the installation needs authorization
  app,           \* the application: running, launching the agent, quitting, gone
  running,       \* the build that runs, or ran last
  quit,          \* whether the instance that launched the agent has quit
  at,            \* the steps of the agent and of the worker
  build,         \* the build that the plan installs
  result,        \* install-result.json
  bundle,        \* macOS: the bundle
  backup,        \* macOS: its backup
  versions,      \* Windows: the directories of the versions
  current,       \* Windows: current.json
  faults,
  attempts,
  \* what has happened so far
  raced,         \* a process looked for an application that had gone already
  overwritten,   \* an update was installed over a build that current.json names
  interrupted    \* a process ended between the two renames of replace_bundle

plan == <<platform, elevated, build>>
disk == <<bundle, backup, versions, current>>
application == <<app, running, quit>>
slips == <<raced, overwritten, interrupted>>
vars == <<application, at, result, plan, disk, faults, attempts, slips>>

Processes == {"agent", "worker"}
Over == {"none", "done", "failed"}
Working == {"execute", "removing", "moving", "activate", "cleanup", "rename", "delete"}
Steps == Over \cup Working \cup
  {"validate", "ready", "prepare", "wait", "opened", "installed", "rejected", "result", "relaunch"}

TypeOK ==
  /\ platform \in Platforms
  /\ elevated \in BOOLEAN
  /\ app \in {"running", "launching", "quitting", "gone"}
  /\ running \in Builds
  /\ quit \in BOOLEAN
  /\ at \in [Processes -> Steps]
  /\ at["worker"] # "none" => elevated
  /\ at["agent"] \in Working => ~elevated
  /\ build \in Builds
  /\ result \in {"absent", "ok", "error"}
  /\ bundle \in Builds \cup {None}
  /\ backup \in Builds \cup {None}
  /\ versions \in [Builds -> {"absent", "partial", "whole"}]
  /\ current \in [executable : Builds, previous : Builds \cup {None}]
  /\ faults \in 0 .. MaxFaults
  /\ attempts \in 0 .. MaxAttempts
  /\ raced \in BOOLEAN /\ overwritten \in BOOLEAN /\ interrupted \in BOOLEAN

Init ==
  /\ platform \in Platforms
  /\ elevated \in BOOLEAN
  /\ app = "running"
  /\ running = First
  /\ quit = FALSE
  /\ at = [p \in Processes |-> "none"]
  /\ build = First
  /\ result = "absent"
  /\ bundle = First
  /\ backup = None
  /\ versions = [b \in Builds |-> IF b = First THEN "whole" ELSE "absent"]
  /\ current = [executable |-> First, previous |-> None]
  /\ faults = 0
  /\ attempts = 0
  /\ raced = FALSE /\ overwritten = FALSE /\ interrupted = FALSE

-----------------------------------------------------------------------------
(* The application.                                                        *)

Whole(b) == b # None /\ versions[b] = "whole"

\* What starting the installation starts: the launcher tries the manifest's
\* executable and then the one before it.
Launched ==
  CASE platform = "macos" -> bundle
    [] platform = "windows" /\ Whole(current.executable) -> current.executable
    [] platform = "windows" /\ ~Whole(current.executable) /\ Whole(current.previous) ->
         current.previous
    [] OTHER -> None

AllOver == \A p \in Processes : at[p] \in Over

\* The user starts the application again.
StartApp ==
  /\ app = "gone"
  /\ Launched # None
  /\ app' = "running"
  /\ running' = Launched
  /\ UNCHANGED <<quit, at, result, plan, disk, faults, attempts, slips>>

Asks ==
  /\ app = "running" /\ attempts < MaxAttempts /\ AllOver
  /\ app' = "launching"
  /\ quit' = FALSE
  /\ at' = [agent |-> "validate", worker |-> "none"]
  /\ result' = "absent"
  /\ attempts' = attempts + 1
  /\ UNCHANGED <<platform, elevated, running, disk, faults, slips>>

\* Mutant: any other build is offered, an older one too.
LaunchAgentOther == Asks /\ build' \in Builds \ {running}

\* The user relaunches into the newest build, which is newer than the one that
\* runs: launch_agent writes the plan into a session directory of its own and
\* launches the agent.  One session at a time is a bound of the model.
LaunchAgent == Asks /\ build' \in {b \in Builds : b > running /\ b >= build}

Exits ==
  /\ app' = "gone"
  /\ quit' = TRUE
  /\ UNCHANGED <<running, at, result, plan, disk, faults, attempts, slips>>

\* QuitRequested has come through.
Quit == app = "quitting" /\ Exits

\* The user quits without being asked to.
UserQuits == app \in {"running", "launching"} /\ Exits

-----------------------------------------------------------------------------
(* The agent and the worker.                                               *)

Goes(p, from, to) == at[p] = from /\ at' = [at EXCEPT ![p] = to]

Fault == faults < MaxFaults /\ faults' = faults + 1

\* validate_install_target: there is an installation to replace.
TargetIsValid == platform = "macos" => bundle # None

\* run_user_agent up to READY: the worker is launched and not waited for.
LaunchWorker ==
  /\ elevated
  /\ at["agent"] = "validate" /\ TargetIsValid
  /\ at' = [agent |-> "ready", worker |-> "prepare"]
  /\ UNCHANGED <<application, result, plan, disk, faults, attempts, slips>>

\* READY, which nobody reads once the application is gone.
SayReady ==
  /\ at["agent"] = "ready" \/ (at["agent"] = "validate" /\ ~elevated /\ TargetIsValid)
  /\ \/ /\ app = "launching"
        /\ app' = "quitting"
        /\ at' = [at EXCEPT !["agent"] = "wait"]
     \/ /\ app # "launching"
        /\ at' = [at EXCEPT !["agent"] = "failed"]
        /\ UNCHANGED app
  /\ UNCHANGED <<running, quit, result, plan, disk, faults, attempts, slips>>

\* An application that waits for READY goes on when the agent ends.
Hears == app' = IF app = "launching" THEN "running" ELSE app

\* The archive has changed or the authorization was refused: the application
\* hears ERROR.  A worker that is already launched goes on.
NotReady ==
  /\ at["agent"] \in {"validate", "ready"}
  /\ at' = [at EXCEPT !["agent"] = "failed"]
  /\ IF TargetIsValid THEN Fault ELSE UNCHANGED faults
  /\ Hears
  /\ UNCHANGED <<running, quit, result, plan, disk, attempts, slips>>

Others == UNCHANGED <<application, result, plan, faults, attempts, slips>>

\* prepare_for_privileged_install: the worker copies, verifies and extracts
\* the archive once more.
Prepare ==
  /\ Goes("worker", "prepare", IF TargetIsValid THEN "wait" ELSE "rejected")
  /\ UNCHANGED disk
  /\ Others

Executes(p) == IF p = "agent" /\ elevated THEN "result" ELSE "execute"
Rejects(p) == IF p = "agent" THEN "failed" ELSE "rejected"

\* wait_for_process.  macOS asks until there is no such process.  Windows first
\* opens the process, and a process that has gone cannot be opened.
OpenProcess(p) ==
  /\ platform = "windows"
  /\ IF quit THEN Goes(p, "wait", Rejects(p)) /\ raced' = TRUE
     ELSE Goes(p, "wait", "opened") /\ UNCHANGED raced
  /\ UNCHANGED <<application, result, plan, disk, faults, attempts, overwritten, interrupted>>

Waited(p) ==
  /\ quit
  /\ Goes(p, IF platform = "macos" THEN "wait" ELSE "opened", Executes(p))
  /\ UNCHANGED disk
  /\ Others

Installed(p) == IF p = "agent" THEN "relaunch" ELSE "installed"

\* replace_bundle: one atomic swap where the file system has it, and otherwise
\* two renames with a backup between them.
Swap(p) ==
  /\ platform = "macos"
  /\ Goes(p, "execute", Installed(p))
  /\ bundle' = build
  /\ UNCHANGED <<backup, versions, current>>
  /\ Others

BackUp(p) ==
  /\ platform = "macos"
  /\ Goes(p, "execute", "rename")
  /\ backup' = bundle
  /\ bundle' = None
  /\ UNCHANGED <<versions, current>>
  /\ Others

Rename(p) ==
  /\ Goes(p, "rename", "delete")
  /\ bundle' = build
  /\ UNCHANGED <<backup, versions, current>>
  /\ Others

\* A rename that fails takes the backup back, if it can.
RenameFails(p) ==
  /\ Goes(p, "rename", Rejects(p))
  /\ Fault
  /\ \/ bundle' = backup /\ backup' = None /\ UNCHANGED interrupted
     \/ interrupted' = TRUE /\ UNCHANGED <<bundle, backup>>
  /\ UNCHANGED <<application, result, plan, versions, current, attempts, raced, overwritten>>

DeleteBackup(p) ==
  /\ Goes(p, "delete", Installed(p))
  /\ backup' = None
  /\ UNCHANGED <<bundle, versions, current>>
  /\ Others

\* Mutant: the version to roll back to is obsolete.
KeptCurrent == {current.executable}

Kept == {current.executable, current.previous}

\* execute_install of Windows: a directory of that build that is there already
\* is removed first, and until it is gone it is partial.  An application that
\* was started in the middle of an installation offers the same build again,
\* and the directory is then one that current.json names.
ClearDestination(p) ==
  /\ platform = "windows"
  /\ \/ /\ Goes(p, "execute", IF versions[build] = "absent" THEN "moving" ELSE "removing")
        /\ versions' = [versions EXCEPT ![build] = IF @ = "absent" THEN "absent" ELSE "partial"]
        /\ overwritten' = (overwritten \/ build \in Kept)
     \/ /\ Goes(p, "removing", "moving")
        /\ versions' = [versions EXCEPT ![build] = "absent"]
        /\ UNCHANGED overwritten
  /\ UNCHANGED <<bundle, backup, current>>
  /\ UNCHANGED <<application, result, plan, faults, attempts, raced, interrupted>>

\* move_or_copy_directory: renamed, or copied where a rename cannot be.
Move(p) ==
  /\ at[p] = "moving"
  /\ \/ /\ versions[build] = "absent"
        /\ versions' = [versions EXCEPT ![build] = "partial"]
        /\ UNCHANGED at
     \/ /\ Goes(p, "moving", "activate")
        /\ versions' = [versions EXCEPT ![build] = "whole"]
  /\ UNCHANGED <<bundle, backup, current>>
  /\ Others

\* write_current_version replaces the manifest by one atomic, durable move.
Activate(p) ==
  /\ Goes(p, "activate", "cleanup")
  /\ current' = [executable |-> build, previous |-> current.executable]
  /\ UNCHANGED <<bundle, backup, versions>>
  /\ Others

\* remove_obsolete_versions, which leaves what it cannot remove.
RemoveObsolete(p) ==
  /\ Goes(p, "cleanup", Installed(p))
  /\ \E left \in SUBSET (Builds \ Kept) :
       versions' = [b \in Builds |->
         IF b \in Kept \/ versions[b] = "absent" THEN versions[b]
         ELSE IF b \in left THEN "partial" ELSE "absent"]
  /\ UNCHANGED <<bundle, backup, current>>
  /\ Others

\* Mutant: the worker reports that it ended, not how.
ReportEnded ==
  /\ \/ Goes("worker", "installed", "done")
     \/ Goes("worker", "rejected", "failed")
  /\ result' = "ok"
  /\ UNCHANGED <<application, plan, disk, faults, attempts, slips>>

\* write_install_result.
Report ==
  /\ \/ Goes("worker", "installed", "done") /\ result' = "ok"
     \/ Goes("worker", "rejected", "failed") /\ result' = "error"
  /\ UNCHANGED <<application, plan, disk, faults, attempts, slips>>

\* Mutant: the agent leaves the relaunch to the worker.
ReadResultOnly ==
  /\ \/ result = "ok" /\ Goes("agent", "result", "done")
     \/ result = "error" /\ Goes("agent", "result", "failed")
  /\ UNCHANGED disk
  /\ Others

\* wait_for_install_result; that it gives up after half an hour is a failure.
ReadResult ==
  /\ \/ result = "ok" /\ Goes("agent", "result", "relaunch")
     \/ result = "error" /\ Goes("agent", "result", "failed")
  /\ UNCHANGED disk
  /\ Others

\* The agent starts an instance of its own beside one that the user started.
Relaunch ==
  /\ Goes("agent", "relaunch", "done")
  /\ Launched # None
  /\ app' = "running"
  /\ running' \in {Launched} \cup (IF app = "running" THEN {running} ELSE {})
  /\ UNCHANGED <<quit, result, plan, disk, faults, attempts, slips>>

\* Any other call fails; remove_obsolete_versions swallows its errors.
Fails(p) ==
  /\ at[p] \notin Over \cup {"validate", "ready", "installed", "rejected", "rename", "cleanup"}
  /\ at' = [at EXCEPT ![p] = Rejects(p)]
  /\ Fault
  /\ UNCHANGED <<application, result, plan, disk, attempts, slips>>

\* The process ends where it is; an agent that has not said READY is heard to
\* close its pipe.
Killed(p) ==
  /\ at[p] \notin Over
  /\ at' = [at EXCEPT ![p] = "failed"]
  /\ Fault
  /\ IF at[p] \in {"validate", "ready"} THEN Hears ELSE UNCHANGED app
  /\ interrupted' = (interrupted \/ at[p] = "rename")
  /\ UNCHANGED <<running, quit, result, plan, disk, attempts, raced, overwritten>>

-----------------------------------------------------------------------------
Install(p) ==
  \/ OpenProcess(p) \/ Waited(p)
  \/ Swap(p) \/ BackUp(p) \/ Rename(p) \/ DeleteBackup(p)
  \/ ClearDestination(p) \/ Move(p) \/ Activate(p) \/ RemoveObsolete(p)

Progress ==
  \/ Quit \/ LaunchWorker \/ SayReady \/ Prepare \/ Report \/ ReadResult \/ Relaunch
  \/ \E p \in Processes : Install(p)

Trouble == NotReady \/ \E p \in Processes : RenameFails(p) \/ Fails(p) \/ Killed(p)

Next == Progress \/ Trouble \/ StartApp \/ LaunchAgent \/ UserQuits

Spec == Init /\ [][Next]_vars

\* A process that is neither killed nor failing goes on, and the application
\* quits when it is asked to.
FairSpec ==
  /\ Spec
  /\ WF_vars(Quit)
  /\ WF_vars(LaunchWorker \/ SayReady \/ ReadResult \/ Relaunch)
  /\ WF_vars(Prepare \/ Report)
  /\ \A p \in Processes : WF_vars(Install(p))

-----------------------------------------------------------------------------
(* Properties.                                                             *)

\* Whatever fails and wherever a process is killed, current.json names whole
\* builds only, the one to roll back to included, unless an update was installed
\* over one of them; on macOS the bundle is in its place, except between the two
\* renames of an installation without an atomic swap: if that ends there only a
\* backup is left, which nothing in the code puts back.
NeverLost ==
  IF platform = "windows"
  THEN \/ overwritten
       \/ Whole(current.executable) /\ (Whole(current.previous) \/ current.previous = None)
  ELSE \/ bundle # None
       \/ backup # None /\ (interrupted \/ \E p \in Processes : at[p] = "rename")

\* The agent relaunches only what was installed, and what the worker reports is
\* what it did, though they share nothing but a file.
ResultIsTrue ==
  /\ (result = "ok" \/ at["agent"] = "relaunch") => Launched = build
  /\ (result = "error" /\ ~raced) => faults > 0

\* An update replaces what starts by a newer build: on Windows in one step, until
\* one was installed over a build that current.json names, and on macOS in one
\* step or in two, with nothing to start in between.
OnDisk == IF Launched # None THEN Launched ELSE backup
Version ==
  INSTANCE InstalledVersion
  WITH installed <- Launched, kept <- OnDisk, atomic <- (platform = "windows")
ImplementsVersion == Version!Init /\ [][Version!Next \/ overwritten']_Version!vars

\* "installs it, and relaunches the app": without a failure an application that
\* has quit for its update comes back.  Does not hold on Windows: see OpenProcess.
RelaunchFollows == (app = "quitting" /\ faults = 0) ~> (app = "running" \/ faults > 0)

\* The only other way not to come back is to have quit before a process of
\* Windows has opened the application's.
RelaunchUnlessRaced ==
  (app = "quitting" /\ faults = 0) ~> (app = "running" \/ faults > 0 \/ raced)
=============================================================================
