------------------------ MODULE UpdateInstallProofs ------------------------
(***************************************************************************)
(* Proofs about UpdateInstall.  The inductive invariant relates where the  *)
(* processes are to what the disk holds: until an installation takes       *)
(* effect, the plan's build is not older than the one that is held, and on *)
(* Windows, until an update was installed over a build that current.json   *)
(* names, the steps in between touch neither that one nor the one to roll  *)
(* back to.                                                                *)
(***************************************************************************)
EXTENDS UpdateInstall, TLAPS

-----------------------------------------------------------------------------
(* The inductive invariant.                                                *)

\* The build that the installation holds, without reference to the launcher.
Holds == IF platform = "windows" THEN current.executable
         ELSE IF bundle # None THEN bundle ELSE backup

\* Who installs, and the steps before it begins to.
Installer == IF elevated THEN "worker" ELSE "agent"
Before == {"prepare", "wait", "opened", "execute"}

\* The steps of the agent and of the worker differ.
Roles ==
  /\ at["worker"] \notin {"validate", "ready", "result", "relaunch"}
  /\ at["agent"] \notin {"prepare", "installed", "rejected"}
  /\ at["agent"] = "validate" => at["worker"] = "none"
  /\ at["agent"] = "ready" => elevated
  /\ at["agent"] = "relaunch" => at["worker"] \in Over
  /\ result = "ok" => at["worker"] = "done"
  /\ at["worker"] = "rejected" \/ result = "error" => raced \/ faults > 0

\* What each step finds on the disk; the plan's build is never an older one.
Order ==
  /\ Holds <= build
  /\ at[Installer] \in Before => (platform = "macos" => bundle # None)
  /\ at[Installer] = "rename" => platform = "macos" /\ bundle = None
  /\ at[Installer] = "delete" => platform = "macos"
  /\ at[Installer] \in {"removing", "moving", "activate", "cleanup"} => platform = "windows"
  /\ at[Installer] = "activate" => versions[build] = "whole"

\* While current.json names nothing that was installed over, the build to come is
\* a newer one than it names.
Fresh ==
  ~overwritten =>
    /\ current.previous < current.executable
    /\ at[Installer] \in {"removing", "moving", "activate"} => build > current.executable

\* An installation that has taken effect.
Effect ==
  (\/ result = "ok" \/ at["agent"] = "relaunch"
   \/ at[Installer] \in {"cleanup", "delete", "installed", "relaunch"}) =>
    IF platform = "windows" THEN current.executable = build /\ versions[build] = "whole"
                            ELSE bundle = build

IInv == TypeOK /\ NeverLost /\ Roles /\ Order /\ Fresh /\ Effect

-----------------------------------------------------------------------------
(* What the launcher finds is what the installation holds.                 *)

LEMMA OneOfTwoPlatforms == IInv => platform \in {"macos", "windows"}
  BY PlatformsAssumption DEF IInv, TypeOK

\* NeverLost is why: the executable that current.json names is whole, so the
\* launcher does not fall back to the one before it.
Maps ==
  /\ platform = "macos" => Launched = bundle /\ OnDisk = Holds
  /\ platform = "windows" /\ ~overwritten => Launched = Holds /\ OnDisk = Holds

LEMMA LaunchedIsHolds ==
  ASSUME IInv
  PROVE  /\ Maps
         /\ Launched \in Builds \cup {None}
         /\ Holds \in Builds
<1>1. CASE platform = "macos"
  <2>1. Launched = bundle
    BY <1>1, Zenon DEF Launched
  <2>2. QED
    BY <1>1, <2>1, BuildsAssumption DEF IInv, TypeOK, NeverLost, OnDisk, Holds, None, Maps
<1>2. CASE platform = "windows"
  <2>1. Launched \in {current.executable, current.previous, None}
    BY <1>2, Zenon DEF Launched
  <2>2. CASE ~overwritten
    <3>1. Whole(current.executable)
      BY <1>2, <2>2 DEF IInv, NeverLost
    <3>2. Launched = current.executable
      BY <1>2, <3>1, Zenon DEF Launched
    <3>3. QED
      BY <1>2, <3>1, <3>2, BuildsAssumption DEF IInv, TypeOK, OnDisk, Holds, Whole, None, Maps
  <2>3. QED
    BY <1>2, <2>1, <2>2 DEF IInv, TypeOK, Holds, Maps
<1>3. QED
  BY <1>1, <1>2, OneOfTwoPlatforms DEF Maps

\* Until it takes effect, an installation on Windows may do what it likes to the
\* directory of its own build: current.json does not name it.
LEMMA PlanSparesTheRest ==
  ASSUME IInv, platform = "windows",
         ~overwritten' => ~overwritten /\ build > current.executable,
         \A b \in Builds \ {build} : versions'[b] = versions[b],
         UNCHANGED <<platform, current>>
  PROVE  NeverLost'
<1>1. CASE ~overwritten'
  <2>1. build > current.executable /\ current.previous < current.executable
    BY <1>1 DEF IInv, Fresh
  <2>2. build \in Nat /\ current.executable \in Builds /\ current.executable \in Nat
          /\ current.previous \in Builds \cup {None}
    BY BuildsAssumption DEF IInv, TypeOK
  <2>3. current.executable # build /\ current.previous # build
    BY <2>1, <2>2, BuildsAssumption DEF None
  <2>4. QED
    BY <1>1, <2>2, <2>3 DEF IInv, NeverLost, Whole
<1>2. QED
  BY <1>1 DEF NeverLost

-----------------------------------------------------------------------------
(* One lemma for each action, with one step for each conjunct of IInv.     *)

LEMMA StartAppKeeps ==
  ASSUME IInv, StartApp
  PROVE  IInv'
<1>1. TypeOK'
  BY LaunchedIsHolds, BoundsAssumption, BuildsAssumption
  DEF StartApp, plan, disk, application, slips, Others, IInv, TypeOK, Steps,
      Processes, Over, Working
<1>2. NeverLost'
  BY OneOfTwoPlatforms, BuildsAssumption
  DEF StartApp, plan, disk, application, slips, Others, IInv, TypeOK, NeverLost,
      Whole, Order, Fresh, Installer, Before, Holds, Processes, Working
<1>3. Roles'
  BY OneOfTwoPlatforms, BoundsAssumption
  DEF StartApp, plan, disk, application, slips, Others, IInv, TypeOK, Roles, Order,
      Installer, Before, Processes, Over, Working
<1>4. Order'
  BY OneOfTwoPlatforms, BuildsAssumption
  DEF StartApp, plan, disk, application, slips, Others, IInv, TypeOK, NeverLost,
      Order, Effect, Installer, Before, Holds, Roles, Processes, Working, Over
<1>5. Fresh'
  BY OneOfTwoPlatforms, BuildsAssumption
  DEF StartApp, plan, disk, application, slips, Others, IInv, TypeOK, Order, Fresh,
      Installer, Before, Holds, Processes, Working, Roles, Over
<1>6. Effect'
  BY OneOfTwoPlatforms, BuildsAssumption
  DEF StartApp, plan, disk, application, slips, Others, IInv, TypeOK, Order, Effect,
      Installer, Before, Holds, Roles, Processes, Working, Over
<1>7. QED
  BY <1>1, <1>2, <1>3, <1>4, <1>5, <1>6 DEF IInv

LEMMA LaunchAgentKeeps ==
  ASSUME IInv, LaunchAgent
  PROVE  IInv'
<1>1. TypeOK'
  <2>1. at' \in [Processes -> Steps] /\ at'["worker"] = "none" /\ at'["agent"] = "validate"
    BY DEF LaunchAgent, Asks, Steps, Processes, Over
  <2>2. attempts' \in 0 .. MaxAttempts /\ build' \in Builds
    BY BoundsAssumption DEF LaunchAgent, Asks, IInv, TypeOK
  <2>3. QED
    BY <2>1, <2>2 DEF LaunchAgent, Asks, disk, slips, IInv, TypeOK, Working
<1>2. NeverLost'
  BY DEF LaunchAgent, Asks, AllOver, disk, slips, IInv, NeverLost, Whole, Over
<1>3. Roles'
  BY OneOfTwoPlatforms, BoundsAssumption
  DEF LaunchAgent, Asks, AllOver, plan, disk, application, slips, Others, IInv,
      TypeOK, Roles, Order, Installer, Before, Processes, Over, Working
<1>4. Order'
  <2>1. Holds' = Holds /\ at'["worker"] = "none" /\ at'["agent"] = "validate"
    BY DEF LaunchAgent, Asks, disk, Holds
  <2>2. UNCHANGED <<elevated, platform>>
    BY DEF LaunchAgent, Asks
  <2>3. Holds \in Nat /\ build \in Nat /\ build' \in Nat
    BY LaunchedIsHolds, BuildsAssumption DEF LaunchAgent, IInv, TypeOK
  <2>4. Holds <= build /\ build <= build'
    BY DEF LaunchAgent, IInv, Order
  <2>5. Holds' <= build'
    BY <2>1, <2>3, <2>4
  <2>6. QED
    BY <2>1, <2>2, <2>5 DEF Order, Installer, Before
<1>5. Fresh'
  BY OneOfTwoPlatforms, BuildsAssumption
  DEF LaunchAgent, Asks, AllOver, plan, disk, application, slips, Others, IInv,
      TypeOK, Order, Fresh, Installer, Before, Holds, Processes, Working, Roles, Over
<1>6. Effect'
  BY OneOfTwoPlatforms, BuildsAssumption
  DEF LaunchAgent, Asks, AllOver, plan, disk, application, slips, Others, IInv,
      TypeOK, Order, Effect, Installer, Before, Holds, Roles, Processes, Working, Over
<1>7. QED
  BY <1>1, <1>2, <1>3, <1>4, <1>5, <1>6 DEF IInv

LEMMA QuitKeeps ==
  ASSUME IInv, Quit
  PROVE  IInv'
<1>1. TypeOK'
  BY BoundsAssumption, BuildsAssumption
  DEF Quit, Exits, plan, disk, application, slips, Others, IInv, TypeOK, Steps,
      Processes, Over, Working
<1>2. NeverLost'
  BY OneOfTwoPlatforms, BuildsAssumption
  DEF Quit, Exits, plan, disk, application, slips, Others, IInv, TypeOK, NeverLost,
      Whole, Order, Fresh, Installer, Before, Holds, Processes, Working
<1>3. Roles'
  BY OneOfTwoPlatforms, BoundsAssumption
  DEF Quit, Exits, plan, disk, application, slips, Others, IInv, TypeOK, Roles,
      Order, Installer, Before, Processes, Over, Working
<1>4. Order'
  BY OneOfTwoPlatforms, BuildsAssumption
  DEF Quit, Exits, plan, disk, application, slips, Others, IInv, TypeOK, NeverLost,
      Order, Effect, Installer, Before, Holds, Roles, Processes, Working, Over
<1>5. Fresh'
  BY OneOfTwoPlatforms, BuildsAssumption
  DEF Quit, Exits, plan, disk, application, slips, Others, IInv, TypeOK, Order,
      Fresh, Installer, Before, Holds, Processes, Working, Roles, Over
<1>6. Effect'
  BY OneOfTwoPlatforms, BuildsAssumption
  DEF Quit, Exits, plan, disk, application, slips, Others, IInv, TypeOK, Order,
      Effect, Installer, Before, Holds, Roles, Processes, Working, Over
<1>7. QED
  BY <1>1, <1>2, <1>3, <1>4, <1>5, <1>6 DEF IInv

LEMMA UserQuitsKeeps ==
  ASSUME IInv, UserQuits
  PROVE  IInv'
<1>1. TypeOK'
  BY BoundsAssumption, BuildsAssumption
  DEF UserQuits, Exits, plan, disk, application, slips, Others, IInv, TypeOK, Steps,
      Processes, Over, Working
<1>2. NeverLost'
  BY OneOfTwoPlatforms, BuildsAssumption
  DEF UserQuits, Exits, plan, disk, application, slips, Others, IInv, TypeOK,
      NeverLost, Whole, Order, Fresh, Installer, Before, Holds, Processes, Working
<1>3. Roles'
  BY OneOfTwoPlatforms, BoundsAssumption
  DEF UserQuits, Exits, plan, disk, application, slips, Others, IInv, TypeOK, Roles,
      Order, Installer, Before, Processes, Over, Working
<1>4. Order'
  BY OneOfTwoPlatforms, BuildsAssumption
  DEF UserQuits, Exits, plan, disk, application, slips, Others, IInv, TypeOK,
      NeverLost, Order, Effect, Installer, Before, Holds, Roles, Processes, Working,
      Over
<1>5. Fresh'
  BY OneOfTwoPlatforms, BuildsAssumption
  DEF UserQuits, Exits, plan, disk, application, slips, Others, IInv, TypeOK, Order,
      Fresh, Installer, Before, Holds, Processes, Working, Roles, Over
<1>6. Effect'
  BY OneOfTwoPlatforms, BuildsAssumption
  DEF UserQuits, Exits, plan, disk, application, slips, Others, IInv, TypeOK, Order,
      Effect, Installer, Before, Holds, Roles, Processes, Working, Over
<1>7. QED
  BY <1>1, <1>2, <1>3, <1>4, <1>5, <1>6 DEF IInv

LEMMA LaunchWorkerKeeps ==
  ASSUME IInv, LaunchWorker
  PROVE  IInv'
<1>1. TypeOK'
  BY BoundsAssumption, BuildsAssumption
  DEF LaunchWorker, TargetIsValid, plan, disk, application, slips, Others, IInv,
      TypeOK, Steps, Processes, Over, Working
<1>2. NeverLost'
  BY OneOfTwoPlatforms, BuildsAssumption
  DEF LaunchWorker, TargetIsValid, plan, disk, application, slips, Others, IInv,
      TypeOK, NeverLost, Whole, Order, Fresh, Installer, Before, Holds, Processes,
      Working
<1>3. Roles'
  BY OneOfTwoPlatforms, BoundsAssumption
  DEF LaunchWorker, TargetIsValid, plan, disk, application, slips, Others, IInv,
      TypeOK, Roles, Order, Installer, Before, Processes, Over, Working
<1>4. Order'
  BY OneOfTwoPlatforms, BuildsAssumption
  DEF LaunchWorker, TargetIsValid, plan, disk, application, slips, Others, IInv,
      TypeOK, NeverLost, Order, Effect, Installer, Before, Holds, Roles, Processes,
      Working, Over
<1>5. Fresh'
  BY OneOfTwoPlatforms, BuildsAssumption
  DEF LaunchWorker, TargetIsValid, plan, disk, application, slips, Others, IInv,
      TypeOK, Order, Fresh, Installer, Before, Holds, Processes, Working, Roles, Over
<1>6. Effect'
  BY OneOfTwoPlatforms, BuildsAssumption
  DEF LaunchWorker, TargetIsValid, plan, disk, application, slips, Others, IInv,
      TypeOK, Order, Effect, Installer, Before, Holds, Roles, Processes, Working, Over
<1>7. QED
  BY <1>1, <1>2, <1>3, <1>4, <1>5, <1>6 DEF IInv

LEMMA SayReadyKeeps ==
  ASSUME IInv, SayReady
  PROVE  IInv'
<1>1. TypeOK'
  BY BoundsAssumption, BuildsAssumption
  DEF SayReady, TargetIsValid, plan, disk, application, slips, Others, IInv, TypeOK,
      Steps, Processes, Over, Working
<1>2. NeverLost'
  BY OneOfTwoPlatforms, BuildsAssumption
  DEF SayReady, TargetIsValid, plan, disk, application, slips, Others, IInv, TypeOK,
      NeverLost, Whole, Order, Fresh, Installer, Before, Holds, Processes, Working
<1>3. Roles'
  BY OneOfTwoPlatforms, BoundsAssumption
  DEF SayReady, TargetIsValid, plan, disk, application, slips, Others, IInv, TypeOK,
      Roles, Order, Installer, Before, Processes, Over, Working
<1>4. Order'
  BY OneOfTwoPlatforms, BuildsAssumption
  DEF SayReady, TargetIsValid, plan, disk, application, slips, Others, IInv, TypeOK,
      NeverLost, Order, Effect, Installer, Before, Holds, Roles, Processes, Working,
      Over
<1>5. Fresh'
  BY OneOfTwoPlatforms, BuildsAssumption
  DEF SayReady, TargetIsValid, plan, disk, application, slips, Others, IInv, TypeOK,
      Order, Fresh, Installer, Before, Holds, Processes, Working, Roles, Over
<1>6. Effect'
  BY OneOfTwoPlatforms, BuildsAssumption
  DEF SayReady, TargetIsValid, plan, disk, application, slips, Others, IInv, TypeOK,
      Order, Effect, Installer, Before, Holds, Roles, Processes, Working, Over
<1>7. QED
  BY <1>1, <1>2, <1>3, <1>4, <1>5, <1>6 DEF IInv

LEMMA NotReadyKeeps ==
  ASSUME IInv, NotReady
  PROVE  IInv'
<1>1. TypeOK'
  BY BoundsAssumption, BuildsAssumption
  DEF NotReady, Fault, Hears, TargetIsValid, plan, disk, application, slips, Others,
      IInv, TypeOK, Steps, Processes, Over, Working
<1>2. NeverLost'
  BY OneOfTwoPlatforms, BuildsAssumption
  DEF NotReady, Fault, Hears, TargetIsValid, plan, disk, application, slips, Others,
      IInv, TypeOK, NeverLost, Whole, Order, Fresh, Installer, Before, Holds, Processes,
      Working
<1>3. Roles'
  BY OneOfTwoPlatforms, BoundsAssumption
  DEF NotReady, Fault, Hears, TargetIsValid, plan, disk, application, slips, Others,
      IInv, TypeOK, Roles, Order, Installer, Before, Processes, Over, Working
<1>4. Order'
  BY OneOfTwoPlatforms, BuildsAssumption
  DEF NotReady, Fault, Hears, TargetIsValid, plan, disk, application, slips, Others,
      IInv, TypeOK, NeverLost, Order, Effect, Installer, Before, Holds, Roles,
      Processes, Working, Over
<1>5. Fresh'
  BY OneOfTwoPlatforms, BuildsAssumption
  DEF NotReady, Fault, Hears, TargetIsValid, plan, disk, application, slips, Others,
      IInv, TypeOK, Order, Fresh, Installer, Before, Holds, Processes, Working, Roles,
      Over
<1>6. Effect'
  BY OneOfTwoPlatforms, BuildsAssumption
  DEF NotReady, Fault, Hears, TargetIsValid, plan, disk, application, slips, Others,
      IInv, TypeOK, Order, Effect, Installer, Before, Holds, Roles, Processes, Working,
      Over
<1>7. QED
  BY <1>1, <1>2, <1>3, <1>4, <1>5, <1>6 DEF IInv

LEMMA PrepareKeeps ==
  ASSUME IInv, Prepare
  PROVE  IInv'
<1>1. TypeOK'
  BY BoundsAssumption, BuildsAssumption
  DEF Prepare, Goes, TargetIsValid, plan, disk, application, slips, Others, IInv,
      TypeOK, Steps, Processes, Over, Working
<1>2. NeverLost'
  BY OneOfTwoPlatforms, BuildsAssumption
  DEF Prepare, Goes, TargetIsValid, plan, disk, application, slips, Others, IInv,
      TypeOK, NeverLost, Whole, Order, Fresh, Installer, Before, Holds, Processes,
      Working
<1>3. Roles'
  BY OneOfTwoPlatforms, BoundsAssumption
  DEF Prepare, Goes, TargetIsValid, plan, disk, application, slips, Others, IInv,
      TypeOK, Roles, Order, Installer, Before, Processes, Over, Working
<1>4. Order'
  BY OneOfTwoPlatforms, BuildsAssumption
  DEF Prepare, Goes, TargetIsValid, plan, disk, application, slips, Others, IInv,
      TypeOK, NeverLost, Order, Effect, Installer, Before, Holds, Roles, Processes,
      Working, Over
<1>5. Fresh'
  BY OneOfTwoPlatforms, BuildsAssumption
  DEF Prepare, Goes, TargetIsValid, plan, disk, application, slips, Others, IInv,
      TypeOK, Order, Fresh, Installer, Before, Holds, Processes, Working, Roles, Over
<1>6. Effect'
  BY OneOfTwoPlatforms, BuildsAssumption
  DEF Prepare, Goes, TargetIsValid, plan, disk, application, slips, Others, IInv,
      TypeOK, Order, Effect, Installer, Before, Holds, Roles, Processes, Working, Over
<1>7. QED
  BY <1>1, <1>2, <1>3, <1>4, <1>5, <1>6 DEF IInv

LEMMA OpenProcessKeeps ==
  ASSUME IInv, NEW p \in Processes, OpenProcess(p)
  PROVE  IInv'
<1>1. TypeOK'
  <2>1. at' \in [Processes -> Steps] /\ (at'["worker"] # "none" => elevated)
          /\ (at'["agent"] \in Working => ~elevated)
    BY DEF OpenProcess, Goes, Rejects, IInv, TypeOK, Steps, Processes, Over, Working
  <2>2. raced' \in BOOLEAN
    BY DEF OpenProcess, IInv, TypeOK
  <2>3. QED
    BY <2>1, <2>2 DEF OpenProcess, plan, disk, application, IInv, TypeOK
<1>2. NeverLost'
  BY OneOfTwoPlatforms, BuildsAssumption
  DEF OpenProcess, Goes, Rejects, plan, disk, application, slips, Others, IInv,
      TypeOK, NeverLost, Whole, Order, Fresh, Installer, Before, Holds, Processes,
      Working
<1>3. Roles'
  BY OneOfTwoPlatforms, BoundsAssumption
  DEF OpenProcess, Goes, Rejects, plan, disk, application, slips, Others, IInv,
      TypeOK, Roles, Order, Installer, Before, Processes, Over, Working
<1>4. Order'
  BY OneOfTwoPlatforms, BuildsAssumption
  DEF OpenProcess, Goes, Rejects, plan, disk, application, slips, Others, IInv,
      TypeOK, NeverLost, Order, Effect, Installer, Before, Holds, Roles, Processes,
      Working, Over
<1>5. Fresh'
  BY OneOfTwoPlatforms, BuildsAssumption
  DEF OpenProcess, Goes, Rejects, plan, disk, application, slips, Others, IInv,
      TypeOK, Order, Fresh, Installer, Before, Holds, Processes, Working, Roles, Over
<1>6. Effect'
  BY OneOfTwoPlatforms, BuildsAssumption
  DEF OpenProcess, Goes, Rejects, plan, disk, application, slips, Others, IInv,
      TypeOK, Order, Effect, Installer, Before, Holds, Roles, Processes, Working, Over
<1>7. QED
  BY <1>1, <1>2, <1>3, <1>4, <1>5, <1>6 DEF IInv

LEMMA WaitedKeeps ==
  ASSUME IInv, NEW p \in Processes, Waited(p)
  PROVE  IInv'
<1>1. TypeOK'
  BY BoundsAssumption, BuildsAssumption
  DEF Waited, Goes, Executes, plan, disk, application, slips, Others, IInv, TypeOK,
      Steps, Processes, Over, Working
<1>2. NeverLost'
  BY OneOfTwoPlatforms, BuildsAssumption
  DEF Waited, Goes, Executes, plan, disk, application, slips, Others, IInv, TypeOK,
      NeverLost, Whole, Order, Fresh, Installer, Before, Holds, Processes, Working
<1>3. Roles'
  BY OneOfTwoPlatforms, BoundsAssumption
  DEF Waited, Goes, Executes, plan, disk, application, slips, Others, IInv, TypeOK,
      Roles, Order, Installer, Before, Processes, Over, Working
<1>4. Order'
  BY OneOfTwoPlatforms, BuildsAssumption
  DEF Waited, Goes, Executes, plan, disk, application, slips, Others, IInv, TypeOK,
      NeverLost, Order, Effect, Installer, Before, Holds, Roles, Processes, Working,
      Over
<1>5. Fresh'
  BY OneOfTwoPlatforms, BuildsAssumption
  DEF Waited, Goes, Executes, plan, disk, application, slips, Others, IInv, TypeOK,
      Order, Fresh, Installer, Before, Holds, Processes, Working, Roles, Over
<1>6. Effect'
  BY OneOfTwoPlatforms, BuildsAssumption
  DEF Waited, Goes, Executes, plan, disk, application, slips, Others, IInv, TypeOK,
      Order, Effect, Installer, Before, Holds, Roles, Processes, Working, Over
<1>7. QED
  BY <1>1, <1>2, <1>3, <1>4, <1>5, <1>6 DEF IInv

LEMMA SwapKeeps ==
  ASSUME IInv, NEW p \in Processes, Swap(p)
  PROVE  IInv'
<1>1. TypeOK'
  BY BoundsAssumption, BuildsAssumption
  DEF Swap, Goes, Installed, plan, disk, application, slips, Others, IInv, TypeOK,
      Steps, Processes, Over, Working
<1>2. NeverLost'
  BY OneOfTwoPlatforms, BuildsAssumption
  DEF Swap, Goes, Installed, plan, disk, application, slips, Others, IInv, TypeOK,
      NeverLost, Whole, Order, Fresh, Installer, Before, Holds, Processes, Working
<1>3. Roles'
  BY OneOfTwoPlatforms, BoundsAssumption
  DEF Swap, Goes, Installed, plan, disk, application, slips, Others, IInv, TypeOK,
      Roles, Order, Installer, Before, Processes, Over, Working
<1>4. Order'
  BY OneOfTwoPlatforms, BuildsAssumption
  DEF Swap, Goes, Installed, plan, disk, application, slips, Others, IInv, TypeOK,
      NeverLost, Order, Effect, Installer, Before, Holds, Roles, Processes, Working,
      Over
<1>5. Fresh'
  BY OneOfTwoPlatforms, BuildsAssumption
  DEF Swap, Goes, Installed, plan, disk, application, slips, Others, IInv, TypeOK,
      Order, Fresh, Installer, Before, Holds, Processes, Working, Roles, Over
<1>6. Effect'
  BY OneOfTwoPlatforms, BuildsAssumption
  DEF Swap, Goes, Installed, plan, disk, application, slips, Others, IInv, TypeOK,
      Order, Effect, Installer, Before, Holds, Roles, Processes, Working, Over
<1>7. QED
  BY <1>1, <1>2, <1>3, <1>4, <1>5, <1>6 DEF IInv

LEMMA BackUpKeeps ==
  ASSUME IInv, NEW p \in Processes, BackUp(p)
  PROVE  IInv'
<1>1. TypeOK'
  BY BoundsAssumption, BuildsAssumption
  DEF BackUp, Goes, plan, disk, application, slips, Others, IInv, TypeOK, Steps,
      Processes, Over, Working
<1>2. NeverLost'
  BY OneOfTwoPlatforms, BuildsAssumption
  DEF BackUp, Goes, plan, disk, application, slips, Others, IInv, TypeOK, NeverLost,
      Whole, Order, Fresh, Installer, Before, Holds, Processes, Working
<1>3. Roles'
  BY OneOfTwoPlatforms, BoundsAssumption
  DEF BackUp, Goes, plan, disk, application, slips, Others, IInv, TypeOK, Roles,
      Order, Installer, Before, Processes, Over, Working
<1>4. Order'
  BY OneOfTwoPlatforms, BuildsAssumption
  DEF BackUp, Goes, plan, disk, application, slips, Others, IInv, TypeOK, NeverLost,
      Order, Effect, Installer, Before, Holds, Roles, Processes, Working, Over
<1>5. Fresh'
  BY OneOfTwoPlatforms, BuildsAssumption
  DEF BackUp, Goes, plan, disk, application, slips, Others, IInv, TypeOK, Order,
      Fresh, Installer, Before, Holds, Processes, Working, Roles, Over
<1>6. Effect'
  BY OneOfTwoPlatforms, BuildsAssumption
  DEF BackUp, Goes, plan, disk, application, slips, Others, IInv, TypeOK, Order,
      Effect, Installer, Before, Holds, Roles, Processes, Working, Over
<1>7. QED
  BY <1>1, <1>2, <1>3, <1>4, <1>5, <1>6 DEF IInv

LEMMA RenameKeeps ==
  ASSUME IInv, NEW p \in Processes, Rename(p)
  PROVE  IInv'
<1>1. TypeOK'
  BY BoundsAssumption, BuildsAssumption
  DEF Rename, Goes, plan, disk, application, slips, Others, IInv, TypeOK, Steps,
      Processes, Over, Working
<1>2. NeverLost'
  BY OneOfTwoPlatforms, BuildsAssumption
  DEF Rename, Goes, plan, disk, application, slips, Others, IInv, TypeOK, NeverLost,
      Whole, Order, Fresh, Installer, Before, Holds, Processes, Working
<1>3. Roles'
  BY OneOfTwoPlatforms, BoundsAssumption
  DEF Rename, Goes, plan, disk, application, slips, Others, IInv, TypeOK, Roles,
      Order, Installer, Before, Processes, Over, Working
<1>4. Order'
  BY OneOfTwoPlatforms, BuildsAssumption
  DEF Rename, Goes, plan, disk, application, slips, Others, IInv, TypeOK, NeverLost,
      Order, Effect, Installer, Before, Holds, Roles, Processes, Working, Over
<1>5. Fresh'
  BY OneOfTwoPlatforms, BuildsAssumption
  DEF Rename, Goes, plan, disk, application, slips, Others, IInv, TypeOK, Order,
      Fresh, Installer, Before, Holds, Processes, Working, Roles, Over
<1>6. Effect'
  BY OneOfTwoPlatforms, BuildsAssumption
  DEF Rename, Goes, plan, disk, application, slips, Others, IInv, TypeOK, Order,
      Effect, Installer, Before, Holds, Roles, Processes, Working, Over
<1>7. QED
  BY <1>1, <1>2, <1>3, <1>4, <1>5, <1>6 DEF IInv

LEMMA RenameFailsKeeps ==
  ASSUME IInv, NEW p \in Processes, RenameFails(p)
  PROVE  IInv'
<1>1. TypeOK'
  <2>1. at' \in [Processes -> Steps] /\ (at'["worker"] # "none" => elevated)
          /\ (at'["agent"] \in Working => ~elevated)
    BY DEF RenameFails, Goes, Rejects, IInv, TypeOK, Steps, Processes, Over, Working
  <2>2. faults' \in 0 .. MaxFaults
    BY BoundsAssumption DEF RenameFails, Fault, IInv, TypeOK
  <2>3. bundle' \in Builds \cup {None} /\ backup' \in Builds \cup {None} /\ interrupted' \in BOOLEAN
    BY DEF RenameFails, IInv, TypeOK
  <2>4. QED
    BY <2>1, <2>2, <2>3 DEF RenameFails, plan, application, IInv, TypeOK
<1>2. NeverLost'
  BY OneOfTwoPlatforms, BuildsAssumption
  DEF RenameFails, Goes, Fault, Rejects, plan, disk, application, slips, Others,
      IInv, TypeOK, NeverLost, Whole, Order, Fresh, Installer, Before, Holds, Processes,
      Working
<1>3. Roles'
  BY OneOfTwoPlatforms, BoundsAssumption
  DEF RenameFails, Goes, Fault, Rejects, plan, disk, application, slips, Others,
      IInv, TypeOK, Roles, Order, Installer, Before, Processes, Over, Working
<1>4. Order'
  BY OneOfTwoPlatforms, BuildsAssumption
  DEF RenameFails, Goes, Fault, Rejects, plan, disk, application, slips, Others,
      IInv, TypeOK, NeverLost, Order, Effect, Installer, Before, Holds, Roles,
      Processes, Working, Over
<1>5. Fresh'
  BY OneOfTwoPlatforms, BuildsAssumption
  DEF RenameFails, Goes, Fault, Rejects, plan, disk, application, slips, Others,
      IInv, TypeOK, Order, Fresh, Installer, Before, Holds, Processes, Working, Roles,
      Over
<1>6. Effect'
  BY OneOfTwoPlatforms, BuildsAssumption
  DEF RenameFails, Goes, Fault, Rejects, plan, disk, application, slips, Others,
      IInv, TypeOK, Order, Effect, Installer, Before, Holds, Roles, Processes, Working,
      Over
<1>7. QED
  BY <1>1, <1>2, <1>3, <1>4, <1>5, <1>6 DEF IInv

LEMMA DeleteBackupKeeps ==
  ASSUME IInv, NEW p \in Processes, DeleteBackup(p)
  PROVE  IInv'
<1>1. TypeOK'
  BY BoundsAssumption, BuildsAssumption
  DEF DeleteBackup, Goes, Installed, plan, disk, application, slips, Others, IInv,
      TypeOK, Steps, Processes, Over, Working
<1>2. NeverLost'
  BY BuildsAssumption
  DEF DeleteBackup, Goes, plan, Others, IInv, TypeOK, NeverLost, Order, Effect,
      Installer, Processes, Working, None
<1>3. Roles'
  BY OneOfTwoPlatforms, BoundsAssumption
  DEF DeleteBackup, Goes, Installed, plan, disk, application, slips, Others, IInv,
      TypeOK, Roles, Order, Installer, Before, Processes, Over, Working
<1>4. Order'
  BY OneOfTwoPlatforms, BuildsAssumption
  DEF DeleteBackup, Goes, Installed, plan, disk, application, slips, Others, IInv,
      TypeOK, NeverLost, Order, Effect, Installer, Before, Holds, Roles, Processes,
      Working, Over
<1>5. Fresh'
  BY OneOfTwoPlatforms, BuildsAssumption
  DEF DeleteBackup, Goes, Installed, plan, disk, application, slips, Others, IInv,
      TypeOK, Order, Fresh, Installer, Before, Holds, Processes, Working, Roles, Over
<1>6. Effect'
  BY OneOfTwoPlatforms, BuildsAssumption
  DEF DeleteBackup, Goes, Installed, plan, disk, application, slips, Others, IInv,
      TypeOK, Order, Effect, Installer, Before, Holds, Roles, Processes, Working, Over
<1>7. QED
  BY <1>1, <1>2, <1>3, <1>4, <1>5, <1>6 DEF IInv

LEMMA ClearDestinationKeeps ==
  ASSUME IInv, NEW p \in Processes, ClearDestination(p)
  PROVE  IInv'
<1>1. /\ platform = "windows" /\ UNCHANGED <<platform, current, build>>
      /\ \A b \in Builds \ {build} : versions'[b] = versions[b]
      /\ p = Installer
  BY DEF ClearDestination, Goes, plan, IInv, TypeOK, Installer, Processes, Working
<1>2. ~overwritten' => ~overwritten /\ build > current.executable
  <2> SUFFICES ASSUME ~overwritten' PROVE ~overwritten /\ build > current.executable
    OBVIOUS
  <2>1. CASE at[p] = "execute"
    <3>1. build # current.executable /\ ~overwritten
      BY <2>1 DEF ClearDestination, Goes, Kept
    <3>2. current.executable <= build
      BY <1>1 DEF IInv, Order, Holds
    <3>3. build \in Nat /\ current.executable \in Nat
      BY BuildsAssumption DEF IInv, TypeOK
    <3>4. QED
      BY <3>1, <3>2, <3>3
  <2>2. CASE at[p] = "removing"
    BY <1>1, <2>2 DEF ClearDestination, Goes, IInv, Fresh
  <2>3. QED
    BY <2>1, <2>2 DEF ClearDestination, Goes
<1>3. at' \in [Processes -> Steps] /\ (at'["worker"] # "none" => elevated)
        /\ (at'["agent"] \in Working => ~elevated)
        /\ at'[p] \in {"removing", "moving"} /\ \A q \in Processes \ {p} : at'[q] = at[q]
  BY DEF ClearDestination, Goes, IInv, TypeOK, Steps, Processes, Over, Working
<1>4. TypeOK'
  <2>1. versions' \in [Builds -> {"absent", "partial", "whole"}]
    BY DEF ClearDestination, IInv, TypeOK
  <2>2. overwritten' \in BOOLEAN
    BY DEF ClearDestination, IInv, TypeOK
  <2>3. QED
    BY <1>3, <2>1, <2>2 DEF ClearDestination, plan, application, IInv, TypeOK
<1>5. NeverLost'
  <2>1. CASE overwritten'
    BY <1>1, <2>1 DEF NeverLost
  <2>2. CASE ~overwritten'
    BY <1>1, <1>2, <2>2, PlanSparesTheRest
  <2>3. QED
    BY <2>1, <2>2
<1>6. Roles'
  BY <1>1, <1>3
  DEF ClearDestination, Goes, plan, application, IInv, TypeOK, Roles, Installer, Processes, Over
<1>7. Order'
  BY <1>1, <1>3
  DEF ClearDestination, plan, IInv, TypeOK, Order, Installer, Before, Holds, Processes
<1>8. Fresh'
  BY <1>1, <1>2 DEF IInv, Fresh
<1>9. Effect'
  BY <1>1, <1>3
  DEF ClearDestination, Goes, plan, IInv, TypeOK, Roles, Effect, Installer, Processes, Over
<1>10. QED
  BY <1>4, <1>5, <1>6, <1>7, <1>8, <1>9 DEF IInv

LEMMA MoveKeeps ==
  ASSUME IInv, NEW p \in Processes, Move(p)
  PROVE  IInv'
<1>1. TypeOK'
  BY BoundsAssumption, BuildsAssumption
  DEF Move, Goes, plan, disk, application, slips, Others, IInv, TypeOK, Steps,
      Processes, Over, Working
<1>2. NeverLost'
  <2>1. platform = "windows" /\ at[p] \in {"removing", "moving"}
    BY DEF Move, Goes, IInv, TypeOK, Order, Installer, Processes, Working
  <2>2. \A b \in Builds \ {build} : versions'[b] = versions[b]
    BY DEF Move, Goes, IInv, TypeOK
  <2>3. UNCHANGED <<platform, current>>
    BY DEF Move, Others, plan
  <2>4. ~overwritten' => ~overwritten /\ build > current.executable
    BY <2>1 DEF Move, Others, slips, IInv, TypeOK, Fresh, Installer, Processes, Working
  <2>5. QED
    BY <2>1, <2>2, <2>3, <2>4, PlanSparesTheRest
<1>3. Roles'
  BY OneOfTwoPlatforms, BoundsAssumption
  DEF Move, Goes, plan, disk, application, slips, Others, IInv, TypeOK, Roles,
      Order, Installer, Before, Processes, Over, Working
<1>4. Order'
  BY OneOfTwoPlatforms, BuildsAssumption
  DEF Move, Goes, plan, disk, application, slips, Others, IInv, TypeOK, NeverLost,
      Order, Effect, Installer, Before, Holds, Roles, Processes, Working, Over
<1>5. Fresh'
  BY OneOfTwoPlatforms, BuildsAssumption
  DEF Move, Goes, plan, disk, application, slips, Others, IInv, TypeOK, Order,
      Fresh, Installer, Before, Holds, Processes, Working, Roles, Over
<1>6. Effect'
  BY OneOfTwoPlatforms, BuildsAssumption
  DEF Move, Goes, plan, disk, application, slips, Others, IInv, TypeOK, Order,
      Effect, Installer, Before, Holds, Roles, Processes, Working, Over
<1>7. QED
  BY <1>1, <1>2, <1>3, <1>4, <1>5, <1>6 DEF IInv

LEMMA ActivateKeeps ==
  ASSUME IInv, NEW p \in Processes, Activate(p)
  PROVE  IInv'
<1>1. TypeOK'
  BY BoundsAssumption, BuildsAssumption
  DEF Activate, Goes, plan, disk, application, slips, Others, IInv, TypeOK, Steps,
      Processes, Over, Working
<1>2. NeverLost'
  BY OneOfTwoPlatforms, BuildsAssumption
  DEF Activate, Goes, plan, disk, application, slips, Others, IInv, TypeOK,
      NeverLost, Whole, Order, Fresh, Installer, Before, Holds, Processes, Working
<1>3. Roles'
  BY OneOfTwoPlatforms, BoundsAssumption
  DEF Activate, Goes, plan, disk, application, slips, Others, IInv, TypeOK, Roles,
      Order, Installer, Before, Processes, Over, Working
<1>4. Order'
  BY OneOfTwoPlatforms, BuildsAssumption
  DEF Activate, Goes, plan, disk, application, slips, Others, IInv, TypeOK,
      NeverLost, Order, Effect, Installer, Before, Holds, Roles, Processes, Working,
      Over
<1>5. Fresh'
  BY OneOfTwoPlatforms, BuildsAssumption
  DEF Activate, Goes, plan, disk, application, slips, Others, IInv, TypeOK, Order,
      Fresh, Installer, Before, Holds, Processes, Working, Roles, Over
<1>6. Effect'
  BY OneOfTwoPlatforms, BuildsAssumption
  DEF Activate, Goes, plan, disk, application, slips, Others, IInv, TypeOK, Order,
      Effect, Installer, Before, Holds, Roles, Processes, Working, Over
<1>7. QED
  BY <1>1, <1>2, <1>3, <1>4, <1>5, <1>6 DEF IInv

LEMMA RemoveObsoleteKeeps ==
  ASSUME IInv, NEW p \in Processes, RemoveObsolete(p)
  PROVE  IInv'
<1>1. TypeOK'
  BY BoundsAssumption, BuildsAssumption
  DEF RemoveObsolete, Goes, Kept, Installed, plan, disk, application, slips, Others,
      IInv, TypeOK, Steps, Processes, Over, Working
<1>2. NeverLost'
  BY OneOfTwoPlatforms, BuildsAssumption
  DEF RemoveObsolete, Goes, Kept, Installed, plan, disk, application, slips, Others,
      IInv, TypeOK, NeverLost, Whole, Order, Fresh, Installer, Before, Holds, Processes,
      Working
<1>3. Roles'
  BY OneOfTwoPlatforms, BoundsAssumption
  DEF RemoveObsolete, Goes, Kept, Installed, plan, disk, application, slips, Others,
      IInv, TypeOK, Roles, Order, Installer, Before, Processes, Over, Working
<1>4. Order'
  BY OneOfTwoPlatforms, BuildsAssumption
  DEF RemoveObsolete, Goes, Kept, Installed, plan, disk, application, slips, Others,
      IInv, TypeOK, NeverLost, Order, Effect, Installer, Before, Holds, Roles,
      Processes, Working, Over
<1>5. Fresh'
  BY OneOfTwoPlatforms, BuildsAssumption
  DEF RemoveObsolete, Goes, Kept, Installed, plan, disk, application, slips, Others,
      IInv, TypeOK, Order, Fresh, Installer, Before, Holds, Processes, Working, Roles,
      Over
<1>6. Effect'
  BY OneOfTwoPlatforms, BuildsAssumption
  DEF RemoveObsolete, Goes, Kept, Installed, plan, disk, application, slips, Others,
      IInv, TypeOK, Order, Effect, Installer, Before, Holds, Roles, Processes, Working,
      Over
<1>7. QED
  BY <1>1, <1>2, <1>3, <1>4, <1>5, <1>6 DEF IInv

LEMMA ReportKeeps ==
  ASSUME IInv, Report
  PROVE  IInv'
<1>1. TypeOK'
  BY BoundsAssumption, BuildsAssumption
  DEF Report, Goes, plan, disk, application, slips, Others, IInv, TypeOK, Steps,
      Processes, Over, Working
<1>2. NeverLost'
  BY OneOfTwoPlatforms, BuildsAssumption
  DEF Report, Goes, plan, disk, application, slips, Others, IInv, TypeOK, NeverLost,
      Whole, Order, Fresh, Installer, Before, Holds, Processes, Working
<1>3. Roles'
  BY OneOfTwoPlatforms, BoundsAssumption
  DEF Report, Goes, plan, disk, application, slips, Others, IInv, TypeOK, Roles,
      Order, Installer, Before, Processes, Over, Working
<1>4. Order'
  BY OneOfTwoPlatforms, BuildsAssumption
  DEF Report, Goes, plan, disk, application, slips, Others, IInv, TypeOK, NeverLost,
      Order, Effect, Installer, Before, Holds, Roles, Processes, Working, Over
<1>5. Fresh'
  BY OneOfTwoPlatforms, BuildsAssumption
  DEF Report, Goes, plan, disk, application, slips, Others, IInv, TypeOK, Order,
      Fresh, Installer, Before, Holds, Processes, Working, Roles, Over
<1>6. Effect'
  BY OneOfTwoPlatforms, BuildsAssumption
  DEF Report, Goes, plan, disk, application, slips, Others, IInv, TypeOK, Order,
      Effect, Installer, Before, Holds, Roles, Processes, Working, Over
<1>7. QED
  BY <1>1, <1>2, <1>3, <1>4, <1>5, <1>6 DEF IInv

LEMMA ReadResultKeeps ==
  ASSUME IInv, ReadResult
  PROVE  IInv'
<1>1. TypeOK'
  BY BoundsAssumption, BuildsAssumption
  DEF ReadResult, Goes, plan, disk, application, slips, Others, IInv, TypeOK, Steps,
      Processes, Over, Working
<1>2. NeverLost'
  BY OneOfTwoPlatforms, BuildsAssumption
  DEF ReadResult, Goes, plan, disk, application, slips, Others, IInv, TypeOK,
      NeverLost, Whole, Order, Fresh, Installer, Before, Holds, Processes, Working
<1>3. Roles'
  BY OneOfTwoPlatforms, BoundsAssumption
  DEF ReadResult, Goes, plan, disk, application, slips, Others, IInv, TypeOK, Roles,
      Order, Installer, Before, Processes, Over, Working
<1>4. Order'
  BY OneOfTwoPlatforms, BuildsAssumption
  DEF ReadResult, Goes, plan, disk, application, slips, Others, IInv, TypeOK,
      NeverLost, Order, Effect, Installer, Before, Holds, Roles, Processes, Working,
      Over
<1>5. Fresh'
  BY OneOfTwoPlatforms, BuildsAssumption
  DEF ReadResult, Goes, plan, disk, application, slips, Others, IInv, TypeOK, Order,
      Fresh, Installer, Before, Holds, Processes, Working, Roles, Over
<1>6. Effect'
  BY OneOfTwoPlatforms, BuildsAssumption
  DEF ReadResult, Goes, plan, disk, application, slips, Others, IInv, TypeOK, Order,
      Effect, Installer, Before, Holds, Roles, Processes, Working, Over
<1>7. QED
  BY <1>1, <1>2, <1>3, <1>4, <1>5, <1>6 DEF IInv

LEMMA RelaunchKeeps ==
  ASSUME IInv, Relaunch
  PROVE  IInv'
<1>1. TypeOK'
  BY LaunchedIsHolds, BoundsAssumption, BuildsAssumption
  DEF Relaunch, Goes, plan, disk, application, slips, Others, IInv, TypeOK, Steps,
      Processes, Over, Working
<1>2. NeverLost'
  BY OneOfTwoPlatforms, BuildsAssumption
  DEF Relaunch, Goes, plan, disk, application, slips, Others, IInv, TypeOK,
      NeverLost, Whole, Order, Fresh, Installer, Before, Holds, Processes, Working
<1>3. Roles'
  BY OneOfTwoPlatforms, BoundsAssumption
  DEF Relaunch, Goes, plan, disk, application, slips, Others, IInv, TypeOK, Roles,
      Order, Installer, Before, Processes, Over, Working
<1>4. Order'
  BY OneOfTwoPlatforms, BuildsAssumption
  DEF Relaunch, Goes, plan, disk, application, slips, Others, IInv, TypeOK,
      NeverLost, Order, Effect, Installer, Before, Holds, Roles, Processes, Working,
      Over
<1>5. Fresh'
  BY OneOfTwoPlatforms, BuildsAssumption
  DEF Relaunch, Goes, plan, disk, application, slips, Others, IInv, TypeOK, Order,
      Fresh, Installer, Before, Holds, Processes, Working, Roles, Over
<1>6. Effect'
  BY OneOfTwoPlatforms, BuildsAssumption
  DEF Relaunch, Goes, plan, disk, application, slips, Others, IInv, TypeOK, Order,
      Effect, Installer, Before, Holds, Roles, Processes, Working, Over
<1>7. QED
  BY <1>1, <1>2, <1>3, <1>4, <1>5, <1>6 DEF IInv

LEMMA FailsKeeps ==
  ASSUME IInv, NEW p \in Processes, Fails(p)
  PROVE  IInv'
<1>1. TypeOK'
  BY BoundsAssumption, BuildsAssumption
  DEF Fails, Fault, Rejects, plan, disk, application, slips, Others, IInv, TypeOK,
      Steps, Processes, Over, Working
<1>2. NeverLost'
  BY OneOfTwoPlatforms, BuildsAssumption
  DEF Fails, Fault, Rejects, plan, disk, application, slips, Others, IInv, TypeOK,
      NeverLost, Whole, Order, Fresh, Installer, Before, Holds, Processes, Working
<1>3. Roles'
  BY OneOfTwoPlatforms, BoundsAssumption
  DEF Fails, Fault, Rejects, plan, disk, application, slips, Others, IInv, TypeOK,
      Roles, Order, Installer, Before, Processes, Over, Working
<1>4. Order'
  BY OneOfTwoPlatforms, BuildsAssumption
  DEF Fails, Fault, Rejects, plan, disk, application, slips, Others, IInv, TypeOK,
      NeverLost, Order, Effect, Installer, Before, Holds, Roles, Processes, Working,
      Over
<1>5. Fresh'
  BY OneOfTwoPlatforms, BuildsAssumption
  DEF Fails, Fault, Rejects, plan, disk, application, slips, Others, IInv, TypeOK,
      Order, Fresh, Installer, Before, Holds, Processes, Working, Roles, Over
<1>6. Effect'
  BY OneOfTwoPlatforms, BuildsAssumption
  DEF Fails, Fault, Rejects, plan, disk, application, slips, Others, IInv, TypeOK,
      Order, Effect, Installer, Before, Holds, Roles, Processes, Working, Over
<1>7. QED
  BY <1>1, <1>2, <1>3, <1>4, <1>5, <1>6 DEF IInv

LEMMA KilledKeeps ==
  ASSUME IInv, NEW p \in Processes, Killed(p)
  PROVE  IInv'
<1>1. TypeOK'
  BY BoundsAssumption, BuildsAssumption
  DEF Killed, Fault, Hears, plan, disk, application, slips, Others, IInv, TypeOK,
      Steps, Processes, Over, Working
<1>2. NeverLost'
  BY OneOfTwoPlatforms, BuildsAssumption
  DEF Killed, Fault, Hears, plan, disk, application, slips, Others, IInv, TypeOK,
      NeverLost, Whole, Order, Fresh, Installer, Before, Holds, Processes, Working
<1>3. Roles'
  BY OneOfTwoPlatforms, BoundsAssumption
  DEF Killed, Fault, Hears, plan, disk, application, slips, Others, IInv, TypeOK,
      Roles, Order, Installer, Before, Processes, Over, Working
<1>4. Order'
  BY OneOfTwoPlatforms, BuildsAssumption
  DEF Killed, Fault, Hears, plan, disk, application, slips, Others, IInv, TypeOK,
      NeverLost, Order, Effect, Installer, Before, Holds, Roles, Processes, Working,
      Over
<1>5. Fresh'
  BY OneOfTwoPlatforms, BuildsAssumption
  DEF Killed, Fault, Hears, plan, disk, application, slips, Others, IInv, TypeOK,
      Order, Fresh, Installer, Before, Holds, Processes, Working, Roles, Over
<1>6. Effect'
  BY OneOfTwoPlatforms, BuildsAssumption
  DEF Killed, Fault, Hears, plan, disk, application, slips, Others, IInv, TypeOK,
      Order, Effect, Installer, Before, Holds, Roles, Processes, Working, Over
<1>7. QED
  BY <1>1, <1>2, <1>3, <1>4, <1>5, <1>6 DEF IInv

-----------------------------------------------------------------------------
(* The theorems.                                                           *)

LEMMA InitIInv ==
  ASSUME Init
  PROVE  IInv
<1>1. TypeOK
  <2>1. at \in [Processes -> Steps] /\ versions \in [Builds -> {"absent", "partial", "whole"}]
    BY DEF Init, Steps, Over
  <2>2. faults \in 0 .. MaxFaults /\ attempts \in 0 .. MaxAttempts
    BY BoundsAssumption DEF Init
  <2>3. at["worker"] = "none" /\ at["agent"] = "none"
    BY DEF Init, Processes
  <2>4. QED
    BY <2>1, <2>2, <2>3, BuildsAssumption DEF Init, TypeOK, Working
<1>2. NeverLost
  BY BuildsAssumption DEF Init, NeverLost, Whole, None
<1>3. Roles
  BY BuildsAssumption DEF Init, Roles, Processes
<1>4. Order /\ Fresh /\ Effect
  BY BuildsAssumption DEF Init, Order, Fresh, Effect, Installer, Before, Holds, Processes, None
<1>5. QED
  BY <1>1, <1>2, <1>3, <1>4 DEF IInv

LEMMA StutterKeeps ==
  ASSUME IInv, UNCHANGED vars
  PROVE  IInv'
  BY DEF vars, plan, disk, application, slips, IInv, TypeOK, NeverLost, Whole, Roles, Order,
         Fresh, Effect, Installer, Holds

LEMMA InstallKeeps ==
  ASSUME IInv, NEW p \in Processes, Install(p)
  PROVE  IInv'
  BY OpenProcessKeeps, WaitedKeeps, SwapKeeps, BackUpKeeps, RenameKeeps, DeleteBackupKeeps,
     ClearDestinationKeeps, MoveKeeps, ActivateKeeps, RemoveObsoleteKeeps
  DEF Install

LEMMA NextKeeps ==
  ASSUME IInv, [Next]_vars
  PROVE  IInv'
<1>1. CASE Progress
  BY <1>1, QuitKeeps, LaunchWorkerKeeps, SayReadyKeeps, PrepareKeeps, ReportKeeps,
     ReadResultKeeps, RelaunchKeeps, InstallKeeps
  DEF Progress
<1>2. CASE Trouble
  BY <1>2, NotReadyKeeps, RenameFailsKeeps, FailsKeeps, KilledKeeps DEF Trouble
<1>3. CASE StartApp \/ LaunchAgent \/ UserQuits
  BY <1>3, StartAppKeeps, LaunchAgentKeeps, UserQuitsKeeps
<1>4. CASE UNCHANGED vars
  BY <1>4, StutterKeeps
<1>5. QED
  BY <1>1, <1>2, <1>3, <1>4 DEF Next

\* Every state the installation reaches satisfies the invariant.
LEMMA InvariantHolds == Spec => []IInv
<1>1. Init => IInv
  BY InitIInv
<1>2. IInv /\ [Next]_vars => IInv'
  BY NextKeeps
<1>3. QED
  BY <1>1, <1>2, PTL DEF Spec

\* The processes, the files and the counters stay within their types: among
\* others, a worker runs only where authorization is needed, and then the agent
\* installs nothing itself.
THEOREM TypeCorrect == Spec => []TypeOK
<1>1. IInv => TypeOK
  BY DEF IInv
<1>2. QED
  BY InvariantHolds, <1>1, PTL

\* Whatever step fails, wherever the agent or the worker is killed and whenever the
\* user starts the application, current.json names whole builds only, unless an
\* update was installed over one of them, and a bundle is missing only between the
\* two renames, or for good when a process ended there.
THEOREM InstallationNeverLost == Spec => []NeverLost
<1>1. IInv => NeverLost
  BY DEF IInv
<1>2. QED
  BY InvariantHolds, <1>1, PTL

\* The result file says what the worker did, and the agent relaunches only the
\* build that it was asked to install.
THEOREM ReportedIsTrue == Spec => []ResultIsTrue
<1>1. IInv => ResultIsTrue
  <2> SUFFICES ASSUME IInv PROVE ResultIsTrue
    OBVIOUS
  <2>1. ASSUME result = "ok" \/ at["agent"] = "relaunch"
        PROVE  Launched = build
    <3>1. CASE platform = "macos"
      BY <2>1, <3>1, LaunchedIsHolds DEF IInv, Effect, Maps
    <3>2. CASE platform = "windows"
      <4>1. current.executable = build /\ versions[build] = "whole"
        BY <2>1, <3>2 DEF IInv, Effect
      <4>2. Whole(current.executable)
        BY <4>1, BuildsAssumption DEF Whole, IInv, TypeOK, None
      <4>3. QED
        BY <3>2, <4>1, <4>2, Zenon DEF Launched
    <3>3. QED
      BY <3>1, <3>2, OneOfTwoPlatforms
  <2>2. result = "error" /\ ~raced => faults > 0
    BY DEF IInv, Roles
  <2>3. QED
    BY <2>1, <2>2 DEF ResultIsTrue
<1>2. QED
  BY InvariantHolds, <1>1, PTL

\* On Windows only write_current_version changes what the installation holds.
LEMMA WindowsUpgrades ==
  ASSUME IInv, [Next]_vars, platform = "windows", ~overwritten
  PROVE  Holds' = Holds \/ (Holds' \in Builds /\ Holds' > Holds)
<1>1. CASE \E p \in Processes : Activate(p)
  <2>1. PICK p \in Processes : Activate(p)
    BY <1>1
  <2>2. QED
    BY <2>1 DEF Activate, Goes, Others, plan, IInv, TypeOK, Fresh, Installer, Holds, Processes,
                Working
<1>2. CASE ~\E p \in Processes : Activate(p)
  <2>1. UNCHANGED <<platform, current>>
    BY <1>2
    DEF Next, Progress, Trouble, Install, Quit, UserQuits, Exits, LaunchWorker, SayReady, Prepare,
        Report, ReadResult, Relaunch, NotReady, StartApp, LaunchAgent, Asks, OpenProcess, Waited,
        Swap, BackUp, Rename, RenameFails, DeleteBackup, ClearDestination, Move, RemoveObsolete,
        Fails, Killed, vars, Others, plan, disk
  <2>2. QED
    BY <2>1 DEF Holds
<1>3. QED
  BY <1>1, <1>2

\* On macOS the bundle is swapped, or set aside and brought or taken back.
LEMMA MacReplaces ==
  ASSUME IInv, [Next]_vars, platform = "macos"
  PROVE  /\ platform' = "macos"
         /\ \/ bundle' = bundle /\ Holds' = Holds
            \/ bundle # None /\ bundle' \in Builds /\ bundle' > bundle /\ Holds' = bundle'
            \/ bundle # None /\ bundle' = None /\ Holds' = Holds
            \/ bundle = None /\ bundle' \in Builds /\ bundle' >= Holds /\ Holds' = bundle'
<1>1. CASE \E p \in Processes : Swap(p) \/ BackUp(p) \/ Rename(p) \/ RenameFails(p) \/ DeleteBackup(p)
  <2>1. PICK p \in Processes : Swap(p) \/ BackUp(p) \/ Rename(p) \/ RenameFails(p) \/ DeleteBackup(p)
    BY <1>1
  <2>2. CASE Swap(p)
    BY <2>2, BuildsAssumption
    DEF Swap, Goes, Others, plan, IInv, TypeOK, Order, Installer, Before, Holds, Processes,
        Working, None
  <2>3. CASE BackUp(p)
    BY <2>3, BuildsAssumption
    DEF BackUp, Goes, Others, plan, IInv, TypeOK, Order, Installer, Before, Holds, Processes,
        Working, None
  <2>4. CASE Rename(p)
    BY <2>4, BuildsAssumption
    DEF Rename, Goes, Others, plan, IInv, TypeOK, Order, Installer, Before, Holds, Processes,
        Working, None
  <2>5. CASE RenameFails(p)
    BY <2>5, BuildsAssumption
    DEF RenameFails, Goes, plan, IInv, TypeOK, NeverLost, Order, Installer, Before, Holds,
        Processes, Working, None
  <2>6. CASE DeleteBackup(p)
    BY <2>6, BuildsAssumption
    DEF DeleteBackup, Goes, Others, plan, IInv, TypeOK, Effect, Installer, Before, Holds,
        Processes, Working, None
  <2>7. QED
    BY <2>1, <2>2, <2>3, <2>4, <2>5, <2>6
<1>2. CASE ~\E p \in Processes : Swap(p) \/ BackUp(p) \/ Rename(p) \/ RenameFails(p) \/ DeleteBackup(p)
  <2>1. UNCHANGED <<platform, bundle, backup>>
    BY <1>2
    DEF Next, Progress, Trouble, Install, Quit, UserQuits, Exits, LaunchWorker, SayReady, Prepare,
        Report, ReadResult, Relaunch, NotReady, StartApp, LaunchAgent, Asks, OpenProcess, Waited,
        ClearDestination, Move, Activate, RemoveObsolete, Fails, Killed, vars, Others, plan, disk
  <2>2. QED
    BY <2>1 DEF Holds
<1>3. QED
  BY <1>1, <1>2

\* The installation implements InstalledVersion: an update that takes effect replaces
\* the build that starts by a newer one, on Windows in a single step, until one is
\* installed over a build that current.json names; on macOS a build may be set aside
\* in between, and where it is cut off there it stays so.
THEOREM InstallImplementsVersion == Spec => ImplementsVersion
<1>1. IInv => Maps
  BY LaunchedIsHolds
<1>2. IInv' => Maps'
  BY <1>1, PTL
<1>3. Init => Version!Init
  <2> SUFFICES ASSUME Init PROVE Version!Init
    OBVIOUS
  <2>1. IInv /\ ~overwritten
    BY InitIInv DEF Init
  <2>2. Launched = Holds /\ OnDisk = Holds /\ Holds \in Builds
    BY <2>1, LaunchedIsHolds, OneOfTwoPlatforms, BuildsAssumption DEF Init, Maps, Holds, None
  <2>3. QED
    BY <2>2 DEF Version!Init
<1>4. IInv /\ IInv' /\ [Next]_vars => [Version!Next \/ overwritten']_Version!vars
  <2> SUFFICES ASSUME IInv, IInv', [Next]_vars, ~overwritten'
               PROVE  Version!Next \/ UNCHANGED Version!vars
    OBVIOUS
  <2>1. platform' = platform /\ ~overwritten
    BY DEF IInv, TypeOK, Next, Progress, Trouble, Install, Quit, UserQuits, Exits, LaunchWorker,
           SayReady, Prepare, Report, ReadResult, Relaunch, NotReady, StartApp, LaunchAgent, Asks,
           OpenProcess, Waited, Swap, BackUp, Rename, RenameFails, DeleteBackup,
           ClearDestination, Move, Activate, RemoveObsolete, Fails, Killed, vars, Others, plan,
           slips
  <2>2. CASE platform = "windows"
    <3>1. Launched = Holds /\ OnDisk = Holds /\ Holds \in Builds
      BY <2>1, <2>2, LaunchedIsHolds DEF Maps
    <3>2. Launched' = Holds' /\ OnDisk' = Holds'
      BY <2>1, <2>2, <1>2 DEF Maps
    <3>3. Holds' = Holds \/ (Holds' \in Builds /\ Holds' > Holds)
      BY <2>1, <2>2, WindowsUpgrades
    <3>4. Holds # None
      BY <3>1, BuildsAssumption DEF None
    <3>5. QED
      BY <2>1, <3>1, <3>2, <3>3, <3>4
      DEF Version!Next, Version!Upgrade, Version!Replace, Version!vars
  <2>3. CASE platform = "macos"
    <3>1. Launched = bundle /\ OnDisk = Holds /\ Holds \in Builds
      BY <2>3, LaunchedIsHolds DEF Maps
    <3>2. Launched' = bundle' /\ OnDisk' = Holds'
      BY <2>1, <2>3, <1>2 DEF Maps
    <3>3. bundle # None => Holds = bundle
      BY <2>3 DEF Holds
    <3>4. QED
      BY <2>1, <2>3, <3>1, <3>2, <3>3, MacReplaces
      DEF Version!Next, Version!Upgrade, Version!SetAside, Version!Arrive, Version!Replace,
          Version!vars
  <2>4. QED
    BY <2>2, <2>3, OneOfTwoPlatforms
<1>5. QED
  BY InvariantHolds, <1>3, <1>4, PTL DEF Spec, ImplementsVersion
=============================================================================
