--------------------------- MODULE EngineContainment ---------------------------
(***************************************************************************)
(* The processes beside a launcher that runs the engine: the engine's      *)
(* tree, and the guard that ends the tree when the launcher cannot.        *)
(*   win32   a PowerShell guard puts the launcher into a kill-on-close job *)
(*           (engine/process-containment.ts), and the guard holds the only *)
(*           handle: when it goes for whatever reason while the job is     *)
(*           armed, launcher and tree go with it;                          *)
(*   darwin  a watchdog is told the engine's process group and signals it  *)
(*           when its stdin says so or ends                                *)
(*           (engine/macos-process-containment.ts).                        *)
(***************************************************************************)
EXTENDS Naturals, Sequences, FiniteSets

CONSTANT Processes   \* what the engine's tree can consist of: the engine and what it starts

ASSUME ContainmentAssumption == "engine" \in Processes

VARIABLES
  platform,
  alive,       \* the launcher
  tree,        \* the running processes of the engine's tree
  stubborn,    \* those that outlive a signal which can be ignored
  guard,
  guardExit,   \* how the guard's process ended
  hung,        \* the guard does not get on
  orders,      \* what the launcher wrote to the guard and it has not read
  closing      \* what the launcher has begun: nothing, release() or terminate()

guardVars == <<guard, guardExit, hung, orders>>
containment == <<platform, alive, tree, stubborn, guardVars, closing>>

Helpers == Processes \ {"engine"}
Orders == {"INIT", "COMMIT", "BIND", "RELEASE", "KILL"}

ContainmentTypeOK ==
  /\ platform \in {"win32", "darwin"}
  /\ alive \in BOOLEAN
  /\ tree \in SUBSET Processes /\ stubborn \in SUBSET Processes
  /\ guard \in {"none", "starting", "opened", "armed", "killing", "gone"}
  /\ guardExit \in {"no", "clean", "failed"} /\ hung \in BOOLEAN
  /\ orders \in Seq(Orders) /\ Len(orders) <= 2
  /\ closing \in {"none", "releasing", "terminating"}

ContainmentInit ==
  /\ platform \in {"win32", "darwin"}
  /\ alive = TRUE
  /\ tree = {} /\ stubborn \in SUBSET Processes
  /\ guard = "none" /\ guardExit = "no" /\ hung = FALSE /\ orders = <<>>
  /\ closing = "none"

-----------------------------------------------------------------------------
(* On win32 the launcher is in the job as long as this holds.              *)
Armed == platform = "win32" /\ guard = "armed"

(* The guard's process ends; its handle was the last one of the job.       *)
GuardEnds(exit) ==
  /\ guard' = "gone" /\ guardExit' = exit /\ UNCHANGED <<hung, orders>>
  /\ IF Armed
       THEN alive' = FALSE /\ tree' = {}
       ELSE UNCHANGED <<alive, tree>>

(* The end of stdin, behind all that was written.                          *)
EndOfOrders == orders = <<>> /\ (closing # "none" \/ ~alive)

Reads(order) == orders # <<>> /\ Head(orders) = order

(* win32: the guard opens the launcher, then assigns it to the job.        *)
JobOpens ==
  /\ platform = "win32" /\ guard = "starting" /\ Reads("INIT") /\ alive
  /\ guard' = "opened" /\ orders' = Tail(orders)
  /\ UNCHANGED <<platform, alive, tree, stubborn, guardExit, hung, closing>>

JobArms ==
  /\ platform = "win32" /\ guard = "opened" /\ Reads("COMMIT") /\ alive
  /\ guard' = "armed" /\ orders' = Tail(orders)
  /\ UNCHANGED <<platform, alive, tree, stubborn, guardExit, hung, closing>>

WrongJobReleasesAtOnce ==
  /\ Armed /\ Reads("RELEASE")
  /\ guard' = "gone" /\ guardExit' = "clean" /\ orders' = Tail(orders)
  /\ UNCHANGED <<platform, alive, tree, stubborn, hung, closing>>

(* RELEASE disarms the job only when the launcher is alone in it.          *)
JobReleases ==
  /\ Armed /\ Reads("RELEASE")
  /\ IF tree = {} /\ alive
       THEN /\ guard' = "gone" /\ guardExit' = "clean" /\ orders' = Tail(orders)
            /\ UNCHANGED <<alive, tree, hung>>
       ELSE GuardEnds("clean")
  /\ UNCHANGED <<platform, stubborn, closing>>

JobCloses ==
  /\ Armed
  /\ Reads("KILL") \/ EndOfOrders \/ ~alive
  /\ GuardEnds("clean")
  /\ UNCHANGED <<platform, stubborn, closing>>

(* Before that, a guard without a launcher or with a stdin that ended.     *)
JobNeverArmed ==
  /\ platform = "win32" /\ guard \in {"starting", "opened"} /\ ~alive
  /\ GuardEnds("failed")
  /\ UNCHANGED <<platform, stubborn, closing>>

-----------------------------------------------------------------------------
(* darwin: "opened" is a watchdog without a group, "armed" one with it.    *)
WatchdogStarts ==
  /\ platform = "darwin" /\ guard = "starting"
  /\ guard' = "opened"
  /\ UNCHANGED <<platform, alive, tree, stubborn, guardExit, hung, orders, closing>>

WatchdogBinds ==
  /\ platform = "darwin" /\ guard = "opened" /\ Reads("BIND")
  /\ guard' = "armed" /\ orders' = Tail(orders)
  /\ UNCHANGED <<platform, alive, tree, stubborn, guardExit, hung, closing>>

WatchdogReleases ==
  /\ platform = "darwin"
  /\ \/ guard = "armed" /\ Reads("RELEASE")
     \/ guard = "opened" /\ EndOfOrders
  /\ GuardEnds("clean")
  /\ UNCHANGED <<platform, stubborn, closing>>

WrongWatchdogOnlyHangsUp ==
  /\ platform = "darwin" /\ guard = "armed"
  /\ Reads("KILL") \/ EndOfOrders
  /\ guard' = "gone" /\ guardExit' = "clean" /\ orders' = <<>>
  /\ tree' = tree \intersect stubborn
  /\ UNCHANGED <<platform, alive, stubborn, hung, closing>>

(* failClosed: a SIGHUP to the group, and 750 ms later a SIGKILL.          *)
WatchdogFailsClosed ==
  /\ platform = "darwin" /\ guard = "armed"
  /\ Reads("KILL") \/ EndOfOrders
  /\ guard' = "killing" /\ orders' = <<>>
  /\ tree' = tree \intersect stubborn
  /\ UNCHANGED <<platform, alive, stubborn, guardExit, hung, closing>>

WatchdogKills ==
  /\ platform = "darwin" /\ guard = "killing"
  /\ guard' = "gone" /\ guardExit' = "clean"
  /\ tree' = {}
  /\ UNCHANGED <<platform, alive, stubborn, hung, orders, closing>>

Guard ==
  /\ ~hung
  /\ \/ JobOpens \/ JobArms \/ JobReleases \/ JobCloses \/ JobNeverArmed
     \/ WatchdogStarts \/ WatchdogBinds \/ WatchdogReleases
     \/ WatchdogFailsClosed \/ WatchdogKills

-----------------------------------------------------------------------------
(* The launcher's side: release() and terminate(), each once, and a guard  *)
(* that already releases is not told to kill.                              *)
Unbound == platform = "darwin" /\ guard = "opened" /\ orders = <<>>

Tell(order) ==
  orders' = IF Unbound \/ guard = "gone" THEN orders ELSE Append(orders, order)

BeginRelease ==
  IF closing # "none"
    THEN UNCHANGED <<closing, orders>>
    ELSE closing' = "releasing" /\ Tell("RELEASE")

WrongTerminationRepeats == closing' = "terminating" /\ Tell("KILL")

BeginTermination ==
  IF closing # "none"
    THEN UNCHANGED <<closing, orders>>
    ELSE closing' = "terminating" /\ Tell("KILL")

(* terminateProcess: on darwin a signal to the group; on win32 taskkill on *)
(* the engine's tree, obeyed or not, then by force, or the engine alone.   *)
AfterSignal ==
  IF platform = "darwin" THEN {tree \intersect stubborn}
  ELSE IF "engine" \in tree THEN {tree \intersect stubborn, {}, tree \ {"engine"}}
  ELSE {tree}

-----------------------------------------------------------------------------
(* The engine, external: it starts processes, and they end.                *)
Forks ==
  /\ "engine" \in tree
  /\ \E p \in Helpers \ tree : tree' = tree \union {p}
  /\ UNCHANGED <<platform, alive, stubborn, guardVars, closing>>

Ends(p) ==
  /\ p \in tree
  /\ tree' = tree \ {p}
  /\ UNCHANGED <<platform, alive, stubborn, guardVars, closing>>
=============================================================================
