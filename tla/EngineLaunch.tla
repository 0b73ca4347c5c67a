------------------------------ MODULE EngineLaunch ------------------------------
(***************************************************************************)
(* One launch of the engine (launchEngine and launchValidatedEngine in     *)
(* engine/launch.ts), from the creation of the containment to the exit of  *)
(* the launcher (cli.ts).  The engine's exit, an error of its spawn, a     *)
(* signal, the opening of the privacy session and the containment's        *)
(* release are callbacks that come in any order; each is one action.  Of   *)
(* the session this module keeps what CredentialLoan promises.             *)
(***************************************************************************)
EXTENDS EngineContainment

VARIABLES
  mode,        \* of the privacy session; "lazy" is reached by launchValidatedEngine only
  pc,          \* how far the launch is, until its listeners are there
  child,       \* what the launcher knows of the engine
  listeners,   \* for signals and for the launcher's own exit
  session,     \* how far the privacy session is
  settled,
  outcome      \* of the promise

launchVars == <<containment, mode, pc, child, listeners, session, settled, outcome>>

LaunchTypeOK ==
  /\ ContainmentTypeOK
  /\ mode \in {"none", "eager", "lazy"}
  /\ pc \in {"start", "init", "commit", "ready", "spawned", "throwing", "running", "done"}
  /\ child \in {"none", "failed", "started", "gone"}
  /\ listeners \in BOOLEAN
  /\ session \in {"none", "activation", "provider", "opening", "open", "closed"}
  /\ settled \in BOOLEAN
  /\ outcome \in {"pending", "resolved", "rejected"}

LaunchInit ==
  /\ ContainmentInit
  /\ mode \in {"none", "eager", "lazy"}
  /\ pc = "start" /\ child = "none" /\ listeners = FALSE /\ session = "none"
  /\ settled = FALSE /\ outcome = "pending"

(* What every step of the launcher before its listeners leaves alone.      *)
SameProcesses == UNCHANGED <<platform, alive, tree, stubborn>>
SameRun == UNCHANGED <<mode, listeners, session, settled>>

-----------------------------------------------------------------------------
(* launchEngine refuses before it starts anything: the arguments, the      *)
(* credential or the engine do not do.                                     *)
Refuse ==
  /\ alive /\ pc = "start"
  /\ pc' = "done" /\ outcome' = "rejected"
  /\ SameProcesses /\ SameRun
  /\ UNCHANGED <<guardVars, closing, child>>

(* createWindowsJobContainment, createMacOsProcessContainment.             *)
CreateContainment ==
  /\ alive /\ pc = "start"
  /\ guard' = "starting"
  /\ IF platform = "win32"
       THEN pc' = "init" /\ orders' = <<"INIT">>
       ELSE pc' = "commit" /\ orders' = <<>>
  /\ SameProcesses /\ SameRun
  /\ UNCHANGED <<guardExit, hung, closing, child, outcome>>

(* The line OPEN; COMMIT is written.                                       *)
GuardOpen ==
  /\ alive /\ pc = "init" /\ guard = "opened"
  /\ pc' = "commit" /\ orders' = <<"COMMIT">>
  /\ SameProcesses /\ SameRun
  /\ UNCHANGED <<guard, guardExit, hung, closing, child, outcome>>

(* The line READY.                                                         *)
GuardReady ==
  /\ alive /\ pc = "commit"
  /\ guard = IF platform = "win32" THEN "armed" ELSE "opened"
  /\ pc' = "ready"
  /\ SameProcesses /\ SameRun
  /\ UNCHANGED <<guardVars, closing, child, outcome>>

WrongContainmentWaits ==
  /\ alive /\ pc \in {"init", "commit"} /\ guard = "gone"
  /\ pc' = "done" /\ outcome' = "rejected"
  /\ SameRun /\ SameProcesses
  /\ UNCHANGED <<guardVars, closing, child>>

(* The guard is late or gone: a late one is killed, also when the job      *)
(* holds the launcher already.                                             *)
ContainmentFails ==
  /\ alive /\ pc \in {"init", "commit"}
  /\ IF guard = "gone" THEN UNCHANGED <<guardVars, alive, tree>> ELSE hung /\ GuardEnds("failed")
  /\ pc' = "done" /\ outcome' = "rejected"
  /\ SameRun
  /\ UNCHANGED <<platform, stubborn, closing, child>>

-----------------------------------------------------------------------------
Spawn ==
  /\ alive /\ pc = "ready"
  /\ pc' = "spawned" /\ child' = "started"
  /\ tree' = {"engine"}
  /\ SameRun
  /\ UNCHANGED <<platform, alive, stubborn, guardVars, closing, outcome>>

(* The child has no pid, and its error event is to come: Node reports      *)
(* ENOENT, EACCES and EAGAIN this way.                                     *)
SpawnFailsLater ==
  /\ alive /\ pc = "ready"
  /\ pc' = "spawned" /\ child' = "failed"
  /\ SameProcesses /\ SameRun
  /\ UNCHANGED <<guardVars, closing, outcome>>

(* The native spawner, used with pipes on win32, throws also when the      *)
(* process runs and its pipes cannot be attached; it ends the process, not *)
(* what that has started.                                                  *)
LeftBySpawn == IF platform = "win32" /\ mode # "none" THEN SUBSET Helpers ELSE {{}}

(* spawn throws.                                                           *)
SpawnThrows ==
  /\ alive /\ pc = "ready"
  /\ pc' = "throwing"
  /\ tree' \in LeftBySpawn
  /\ BeginRelease
  /\ SameRun
  /\ UNCHANGED <<platform, alive, stubborn, guard, guardExit, hung, child, outcome>>

Attach ==
  /\ pc' = "running" /\ listeners' = TRUE
  /\ session' = CASE mode = "none" -> "none"
                  [] mode = "eager" -> "opening"
                  [] mode = "lazy" -> "activation"
  /\ UNCHANGED <<child, outcome>>

(* On win32 the launcher's job is the engine's, there is nothing to bind.  *)
AttachListeners ==
  /\ alive /\ pc = "spawned"
  /\ IF platform = "win32"
       THEN UNCHANGED orders
       ELSE child = "started" /\ guard # "gone" /\ orders' = <<"BIND">>
  /\ Attach
  /\ SameProcesses
  /\ UNCHANGED <<guard, guardExit, hung, closing, mode, settled>>

(* bind throws for a child without a pid and for a watchdog that is known  *)
(* to be gone: before there is any listener.                               *)
BindFails ==
  /\ alive /\ pc = "spawned" /\ platform = "darwin"
  /\ child = "failed" \/ guard = "gone"
  /\ tree' \in AfterSignal
  /\ BeginTermination
  /\ pc' = "done" /\ outcome' = "rejected"
  /\ SameRun
  /\ UNCHANGED <<platform, alive, stubborn, guard, guardExit, hung, child>>

(* An error event that nothing listens to: the child's after BindFails, or *)
(* that of a pipe to a watchdog whose death is not known yet, when BIND or *)
(* RELEASE is written to it.  Node ends the launcher, with its listener    *)
(* for the exit if that is attached, as it is after BIND.                  *)
NotTaken(order) == guardExit = "failed" /\ \A i \in DOMAIN orders : orders[i] # order

ErrorUnheard ==
  /\ alive /\ platform = "darwin"
  /\ \/ pc = "done" /\ child = "failed" /\ UNCHANGED tree
     \/ pc = "spawned" /\ child = "started" /\ guard = "gone" /\ tree' \in AfterSignal
     \/ pc = "running" /\ closing = "releasing" /\ NotTaken("RELEASE") /\ UNCHANGED tree
  /\ alive' = FALSE
  /\ UNCHANGED <<platform, stubborn, guardVars, closing, mode, pc, child, listeners, session,
                 settled, outcome>>

-----------------------------------------------------------------------------
(* cleanup: the listeners go, the session is disposed or its opening       *)
(* aborted, its transport closed.  A credential provider runs on.          *)
Cleanup ==
  /\ listeners' = FALSE
  /\ session' = IF session \in {"none", "provider"} THEN session ELSE "closed"

Running == alive /\ pc = "running"

(* child.once("error").                                                    *)
ChildError ==
  /\ Running /\ child = "failed"
  /\ child' = "gone"
  /\ BeginRelease
  /\ settled' = TRUE
  /\ IF settled
       THEN UNCHANGED <<listeners, session, outcome>>
       ELSE Cleanup /\ outcome' = "rejected"
  /\ SameProcesses
  /\ UNCHANGED <<guard, guardExit, hung, mode, pc>>

(* child.once("exit"): on darwin what is left of the group is signalled.   *)
ChildExit ==
  /\ Running /\ child = "started" /\ "engine" \notin tree
  /\ child' = "gone"
  /\ IF platform = "darwin" THEN tree' \in AfterSignal ELSE UNCHANGED tree
  /\ BeginRelease
  /\ settled' = TRUE
  /\ IF settled THEN UNCHANGED <<listeners, session>> ELSE Cleanup
  /\ UNCHANGED <<platform, alive, stubborn, guard, guardExit, hung, mode, pc, outcome>>

(* The release that the exit or a throwing spawn waits for.                *)
Waiting == pc = "throwing" \/ (pc = "running" /\ settled)

WrongReleaseSettlesUnchecked ==
  /\ alive /\ Waiting /\ outcome = "pending" /\ guard = "gone"
  /\ outcome' = IF pc = "running" THEN "resolved" ELSE "rejected"
  /\ pc' = "done"
  /\ SameProcesses /\ SameRun
  /\ UNCHANGED <<guardVars, closing, child>>

ReleaseSettles ==
  /\ alive /\ Waiting /\ outcome = "pending" /\ guard = "gone"
  /\ outcome' = IF pc = "running" /\ guardExit = "clean" THEN "resolved" ELSE "rejected"
  /\ pc' = "done"
  /\ SameProcesses /\ SameRun
  /\ UNCHANGED <<guardVars, closing, child>>

(* The guard does not end in time and is killed.                           *)
ReleaseTimesOut ==
  /\ alive /\ closing # "none" /\ guard # "gone"
  /\ platform = "win32" \/ closing = "releasing"
  /\ hung
  /\ GuardEnds("failed")
  /\ SameRun
  /\ UNCHANGED <<platform, stubborn, closing, pc, child, outcome>>

(* A forwarded signal.  An interrupt on win32 closes the job instead.      *)
ForwardSignal(signal) ==
  /\ Running /\ listeners
  /\ IF platform = "win32" /\ signal = "SIGINT"
       THEN BeginTermination /\ UNCHANGED tree
       ELSE tree' \in AfterSignal /\ UNCHANGED <<closing, orders>>
  /\ UNCHANGED <<platform, alive, stubborn, guard, guardExit, hung, mode, pc, child, listeners, session,
                 settled, outcome>>

-----------------------------------------------------------------------------
(* A lazy session waits for the engine to ask, then for the credential.    *)
Activates ==
  /\ Running /\ session = "activation" /\ "engine" \in tree
  /\ session' = "provider"
  /\ SameProcesses
  /\ UNCHANGED <<guardVars, closing, mode, pc, child, listeners, settled, outcome>>

WrongProviderReturnsUnchecked ==
  /\ Running /\ session = "provider"
  /\ session' = "opening"
  /\ SameProcesses
  /\ UNCHANGED <<guardVars, closing, mode, pc, child, listeners, settled, outcome>>

(* The provider may answer after the launch has settled: the lifetime is   *)
(* aborted then, and openLauncherIpcSession disposes at once.              *)
ProviderReturns ==
  /\ Running /\ session = "provider"
  /\ session' = IF settled THEN "closed" ELSE "opening"
  /\ SameProcesses
  /\ UNCHANGED <<guardVars, closing, mode, pc, child, listeners, settled, outcome>>

SessionOpens ==
  /\ Running /\ session = "opening" /\ child = "started"
  /\ session' = "open"
  /\ SameProcesses
  /\ UNCHANGED <<guardVars, closing, mode, pc, child, listeners, settled, outcome>>

(* The session cannot be established: the end of a lazy one is the end of  *)
(* its transport, the end of an eager one that of the launch.              *)
SessionFails ==
  /\ Running /\ session \in {"activation", "provider", "opening"}
  /\ IF mode = "lazy" \/ settled
       THEN /\ session' = "closed"
            /\ UNCHANGED <<tree, listeners, settled, outcome>>
       ELSE /\ settled' = TRUE /\ Cleanup
            /\ tree' \in AfterSignal
            /\ outcome' = "rejected"
  /\ UNCHANGED <<platform, alive, stubborn, guardVars, closing, mode, pc, child>>

-----------------------------------------------------------------------------
(* runCli exits, or kills itself with the engine's signal, when the        *)
(* promise is settled.  An error event that is due comes first.            *)
Exit ==
  /\ alive /\ outcome # "pending" /\ ~(pc = "done" /\ child = "failed")
  /\ alive' = FALSE
  /\ UNCHANGED <<platform, tree, stubborn, guardVars, closing, mode, pc, child, listeners, session,
                 settled, outcome>>

(* The launcher is killed.                                                 *)
Crash ==
  /\ alive
  /\ alive' = FALSE
  /\ UNCHANGED <<platform, tree, stubborn, guardVars, closing, mode, pc, child, listeners, session,
                 settled, outcome>>

(* Something ends or stops the guard.                                      *)
GuardDies ==
  /\ guard \notin {"none", "gone"}
  /\ \/ GuardEnds("failed")
     \/ ~hung /\ hung' = TRUE /\ UNCHANGED <<alive, tree, guard, guardExit, orders>>
  /\ UNCHANGED <<platform, stubborn, closing, mode, pc, child, listeners, session, settled, outcome>>

SameLauncher ==
  UNCHANGED <<mode, pc, child, listeners, session, settled, outcome>>

Spawns == Spawn \/ SpawnFailsLater \/ SpawnThrows

Starts ==
  Refuse \/ CreateContainment \/ GuardOpen \/ GuardReady \/ ContainmentFails \/ Spawns
  \/ AttachListeners \/ BindFails

Handlers == ChildError \/ ChildExit \/ ReleaseSettles \/ ReleaseTimesOut

Sessions == Activates \/ ProviderReturns \/ SessionOpens \/ SessionFails

LaunchNext ==
  \/ Starts \/ Handlers \/ Sessions
  \/ ErrorUnheard \/ Exit \/ Crash \/ GuardDies
  \/ \E signal \in {"SIGINT", "SIGTERM"} : ForwardSignal(signal)
  \/ Guard /\ SameLauncher
  \/ Forks /\ SameLauncher
  \/ (\E p \in Processes : Ends(p)) /\ SameLauncher

LaunchSpec == LaunchInit /\ [][LaunchNext]_launchVars

(* The launcher's callbacks and timers and a guard that is not stopped get *)
(* their turn; nothing makes the engine end.                               *)
FairSpec ==
  /\ LaunchSpec
  /\ WF_launchVars(Starts) /\ WF_launchVars(Handlers) /\ WF_launchVars(Exit)
  /\ WF_launchVars(Guard /\ SameLauncher)

-----------------------------------------------------------------------------
(* ArmedWhileRunning: on win32 the job stays armed as long as any process  *)
(* of the engine's tree runs: no order of release, termination, time-out   *)
(* and exit disarms it early (GoatJobGuard, createWindowsJobContainment).  *)
ArmedWhileRunning == platform = "win32" /\ tree # {} => guard = "armed"

(* ResolvedMeansClosed: a launch that resolves and goes on has an engine   *)
(* that ended and a guard that ended by itself; on win32 nothing of the    *)
(* tree is left, on darwin what ignores the signal (launchValidatedEngine).*)
ResolvedMeansClosed ==
  outcome = "resolved" =>
    /\ child = "gone" /\ guard = "gone" /\ guardExit = "clean"
    /\ tree \subseteq (IF platform = "win32" THEN {} ELSE stubborn)

(* SettledIsClean: once settled, the launch has no listener on the process *)
(* and no session, not even one whose credential came late (cleanup).      *)
SettledIsClean ==
  settled => ~listeners /\ session \in {"none", "provider", "closed"}

(* LaunchAnswers: a launch waits for nothing but a running engine: a guard *)
(* that is late, stopped or gone, at the start or at the release, does not *)
(* hold it up (expectGuardLine, waitForGuardExit).                         *)
LaunchAnswers ==
  alive ~> (outcome # "pending" \/ ~alive \/ (pc = "running" /\ "engine" \in tree))

(* NoOrphans: when the launcher is gone, however it went, the tree ends.   *)
(* Excepted are a guard that was stopped and, on darwin, a watchdog that   *)
(* was lost, that had not heard of the group, or that had released it.     *)
NoOrphans ==
  ~alive ~> \/ tree = {} \/ hung
            \/ platform = "darwin" /\ (guardExit = "failed" \/ pc # "running" \/ child = "gone")
=============================================================================
