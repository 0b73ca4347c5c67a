-------------------------- MODULE EngineLaunch_proofs --------------------------
(***************************************************************************)
(* What a launch guarantees for every tree of processes an engine can      *)
(* start, whichever of them ignore a signal.  The argument: until the      *)
(* engine is spawned nothing is told to close, so that the job the engine  *)
(* starts in is armed; and what is settled with no outcome yet has seen    *)
(* the engine's exit, after which nothing is left that could fork.         *)
(***************************************************************************)
EXTENDS EngineLaunch, SequenceTheorems, TLAPS

-----------------------------------------------------------------------------
(* The inductive strengthening.                                            *)

Before == {"start", "init", "commit", "ready"}

(* An order to close is written once, behind at most one other.            *)
OrdersInv ==
  /\ pc \in Before \union {"spawned"} => closing = "none"
  /\ closing = "none" =>
       /\ Len(orders) <= 1
       /\ \A i \in DOMAIN orders : orders[i] \notin {"RELEASE", "KILL"}

(* The launcher spawns the engine only from within the job, and what is in *)
(* the job keeps it armed.                                                 *)
JobInv ==
  /\ ArmedWhileRunning
  /\ platform = "win32" /\ alive /\ pc = "ready" => guard = "armed"

(* What the launcher knows of the engine is true of the tree.              *)
ChildInv ==
  /\ pc \in Before => child = "none" /\ tree = {}
  /\ child = "failed" => tree = {}
  /\ child = "gone" => "engine" \notin tree /\ (platform = "darwin" => tree \subseteq stubborn)

(* How the promise comes to its outcome.                                   *)
OutcomeInv ==
  /\ settled => pc \in {"running", "done"}
  /\ settled /\ outcome = "pending" => child = "gone"
  /\ outcome = "resolved" => pc = "done" /\ child = "gone" /\ guard = "gone" /\ guardExit = "clean"

LaunchInv ==
  LaunchTypeOK /\ OrdersInv /\ JobInv /\ ChildInv /\ OutcomeInv /\ SettledIsClean

-----------------------------------------------------------------------------
(* Lemmas about the steps of the containment.                              *)

OrdersTyped == orders \in Seq(Orders) /\ Len(orders) <= 2

(* Lemma: an order to close is written once, and fits.                     *)
LEMMA ClosingKeepsOrders ==
  ASSUME LaunchTypeOK, OrdersInv, BeginRelease \/ BeginTermination
  PROVE  /\ OrdersTyped'
         /\ closing' \in {"releasing", "terminating"}
<1>1. orders \in Seq(Orders) /\ Len(orders) <= 2 /\ closing \in {"none", "releasing", "terminating"}
  BY DEF LaunchTypeOK, ContainmentTypeOK
<1>2. CASE closing # "none"
  BY <1>1, <1>2 DEF BeginRelease, BeginTermination, OrdersTyped
<1>3. CASE closing = "none"
  <2>1. Len(orders) <= 1
    BY <1>3 DEF OrdersInv
  <2>2. PICK order \in {"RELEASE", "KILL"} : Tell(order)
    BY <1>3 DEF BeginRelease, BeginTermination
  <2>3. closing' \in {"releasing", "terminating"}
    BY <1>3 DEF BeginRelease, BeginTermination
  <2>4. order \in Orders
    BY DEF Orders
  <2>5. Append(orders, order) \in Seq(Orders) /\ Len(Append(orders, order)) = Len(orders) + 1
    BY <1>1, <2>4
  <2>6. orders' = orders \/ orders' = Append(orders, order)
    BY <2>2 DEF Tell
  <2>7. Len(orders) \in Nat
    BY <1>1
  <2>8. QED
    BY <1>1, <2>1, <2>3, <2>5, <2>6, <2>7 DEF OrdersTyped
<1>4. QED
  BY <1>2, <1>3

(* Lemma: the guard reads orders in the order they were written.           *)
LEMMA ReadingKeepsOrders ==
  ASSUME LaunchTypeOK, OrdersInv, orders # <<>>, orders' = Tail(orders), closing' = closing
  PROVE  /\ OrdersTyped'
         /\ closing' = "none" =>
              /\ Len(orders') <= 1
              /\ \A i \in DOMAIN orders' : orders'[i] \notin {"RELEASE", "KILL"}
<1>1. orders \in Seq(Orders) /\ Len(orders) <= 2
  BY DEF LaunchTypeOK, ContainmentTypeOK
<1>2. orders' \in Seq(Orders) /\ Len(orders') = Len(orders) - 1 /\ Len(orders) \in Nat
  BY <1>1, HeadTailProperties
<1>3. Len(orders') <= 1 /\ OrdersTyped'
  BY <1>1, <1>2 DEF OrdersTyped
<1>4. ASSUME closing = "none", NEW i \in DOMAIN orders'
      PROVE  orders'[i] \notin {"RELEASE", "KILL"}
  <2>1. i \in 1 .. Len(orders') /\ i + 1 \in 1 .. Len(orders)
    BY <1>2, <1>4, LenProperties
  <2>2. orders'[i] = orders[i + 1]
    BY <1>1, <1>2, <2>1, HeadTailProperties
  <2>3. i + 1 \in DOMAIN orders
    BY <1>1, <2>1, LenProperties
  <2>4. QED
    BY <1>4, <2>2, <2>3 DEF OrdersInv
<1>5. QED
  BY <1>3, <1>4

(* Lemma: a signal only takes processes, and on darwin those that do not   *)
(* ignore it.                                                              *)
LEMMA AfterSignalProperties ==
  ASSUME NEW rest \in AfterSignal
  PROVE  rest \subseteq tree /\ (platform = "darwin" => rest \subseteq stubborn)
BY DEF AfterSignal

-----------------------------------------------------------------------------
(* The steps of a launch.                                                  *)

(* Theorem: nothing is told to close before the engine is spawned, and     *)
(* what is written to the guard stays typed.                               *)
THEOREM OrdersStep ==
  ASSUME LaunchInv, LaunchNext
  PROVE  OrdersTyped' /\ OrdersInv'
<1> USE DEF LaunchInv
<1>0. OrdersTyped /\ OrdersInv
  BY DEF LaunchTypeOK, ContainmentTypeOK, OrdersTyped
<1> DEFINE Early == Before \union {"spawned"}
<1> DEFINE Quiet == orders' = orders /\ closing' = closing /\ (pc' \in Early => pc \in Early)
<1>1. ASSUME Quiet
      PROVE  OrdersTyped' /\ OrdersInv'
  BY <1>0, <1>1 DEF OrdersTyped, OrdersInv
<1>2. ASSUME BeginRelease \/ BeginTermination, pc' \notin Early
      PROVE  OrdersTyped' /\ OrdersInv'
  BY <1>2, ClosingKeepsOrders DEF OrdersInv
<1>3. ASSUME orders # <<>>, orders' = Tail(orders), closing' = closing, pc' = pc
      PROVE  OrdersTyped' /\ OrdersInv'
  BY <1>3, ReadingKeepsOrders DEF OrdersInv
<1>4. ASSUME NEW order \in {"INIT", "COMMIT", "BIND"}, orders' = <<order>>, closing' = closing, pc \in Early
      PROVE  OrdersTyped' /\ OrdersInv'
  <2>1. orders' \in Seq(Orders) /\ Len(orders') = 1 /\ DOMAIN orders' = {1} /\ orders'[1] = order
    BY <1>4 DEF Orders
  <2>2. closing' = "none"
    BY <1>0, <1>4 DEF OrdersInv
  <2>3. QED
    BY <2>1, <2>2 DEF OrdersTyped, OrdersInv
<1>5. ASSUME orders' = <<>>, closing' = closing, pc \in Before \/ pc' = pc
      PROVE  OrdersTyped' /\ OrdersInv'
  <2>1. orders' \in Seq(Orders) /\ Len(orders') = 0 /\ DOMAIN orders' = {}
    BY <1>5
  <2>2. pc' \in Before \union {"spawned"} => closing' = "none"
    BY <1>0, <1>5 DEF OrdersInv
  <2>3. QED
    BY <2>1, <2>2 DEF OrdersTyped, OrdersInv
<1>6. CASE Refuse
  BY <1>6, <1>1 DEF Refuse, SameProcesses, SameRun, guardVars, Before
<1>7. CASE CreateContainment
  BY <1>7, <1>4, <1>5 DEF CreateContainment, SameProcesses, SameRun, Before
<1>8. CASE GuardOpen
  BY <1>8, <1>4 DEF GuardOpen, SameProcesses, SameRun, Before
<1>9. CASE GuardReady
  BY <1>9, <1>1 DEF GuardReady, SameProcesses, SameRun, guardVars, Before
<1>10. CASE ContainmentFails
  BY <1>10, <1>1 DEF ContainmentFails, SameRun, guardVars, GuardEnds, Before
<1>11. CASE Spawn
  BY <1>11, <1>1 DEF Spawn, SameRun, guardVars, Before
<1>12. CASE SpawnFailsLater
  BY <1>12, <1>1 DEF SpawnFailsLater, SameProcesses, SameRun, guardVars, Before
<1>13. CASE SpawnThrows
  BY <1>13, <1>2 DEF SpawnThrows, SameRun, Before
<1>14. CASE AttachListeners
  BY <1>14, <1>1, <1>4 DEF AttachListeners, SameProcesses, Attach, Before
<1>15. CASE BindFails
  BY <1>15, <1>2 DEF BindFails, SameRun, Before
<1>16. CASE ChildError
  BY <1>16, <1>2 DEF ChildError, SameProcesses, Running, Cleanup, Before
<1>17. CASE ChildExit
  BY <1>17, <1>2 DEF ChildExit, Running, Cleanup, Before
<1>18. CASE ReleaseSettles
  BY <1>18, <1>1 DEF ReleaseSettles, SameProcesses, SameRun, guardVars, Waiting, Before
<1>19. CASE ReleaseTimesOut
  BY <1>19, <1>1 DEF ReleaseTimesOut, SameRun, GuardEnds, Before
<1>20. CASE Activates
  BY <1>20, <1>1 DEF Activates, SameProcesses, guardVars, Running, Before
<1>21. CASE ProviderReturns
  BY <1>21, <1>1 DEF ProviderReturns, SameProcesses, guardVars, Running, Before
<1>22. CASE SessionOpens
  BY <1>22, <1>1 DEF SessionOpens, SameProcesses, guardVars, Running, Before
<1>23. CASE SessionFails
  BY <1>23, <1>1 DEF SessionFails, guardVars, Running, Cleanup, Before
<1>24. CASE ErrorUnheard
  BY <1>24, <1>1 DEF ErrorUnheard, guardVars, Before
<1>25. CASE Exit
  BY <1>25, <1>1 DEF Exit, guardVars, Before
<1>26. CASE Crash
  BY <1>26, <1>1 DEF Crash, guardVars, Before
<1>27. CASE GuardDies
  BY <1>27, <1>1 DEF GuardDies, GuardEnds, Before
<1>28. CASE \E signal \in {"SIGINT", "SIGTERM"} : ForwardSignal(signal)
  BY <1>28, <1>1, <1>2 DEF ForwardSignal, Running, Before
<1>29. CASE JobOpens /\ SameLauncher
  BY <1>29, <1>1, <1>3, <1>5 DEF JobOpens, SameLauncher, GuardEnds, Reads
<1>30. CASE JobArms /\ SameLauncher
  BY <1>30, <1>1, <1>3, <1>5 DEF JobArms, SameLauncher, GuardEnds, Reads
<1>31. CASE JobReleases /\ SameLauncher
  BY <1>31, <1>1, <1>3, <1>5 DEF JobReleases, SameLauncher, GuardEnds, Reads
<1>32. CASE JobCloses /\ SameLauncher
  BY <1>32, <1>1, <1>3, <1>5 DEF JobCloses, SameLauncher, GuardEnds, Reads
<1>33. CASE JobNeverArmed /\ SameLauncher
  BY <1>33, <1>1, <1>3, <1>5 DEF JobNeverArmed, SameLauncher, GuardEnds, Reads
<1>34. CASE WatchdogStarts /\ SameLauncher
  BY <1>34, <1>1, <1>3, <1>5 DEF WatchdogStarts, SameLauncher, GuardEnds, Reads
<1>35. CASE WatchdogBinds /\ SameLauncher
  BY <1>35, <1>1, <1>3, <1>5 DEF WatchdogBinds, SameLauncher, GuardEnds, Reads
<1>36. CASE WatchdogReleases /\ SameLauncher
  BY <1>36, <1>1, <1>3, <1>5 DEF WatchdogReleases, SameLauncher, GuardEnds, Reads
<1>37. CASE WatchdogFailsClosed /\ SameLauncher
  BY <1>37, <1>1, <1>3, <1>5 DEF WatchdogFailsClosed, SameLauncher, GuardEnds, Reads
<1>38. CASE WatchdogKills /\ SameLauncher
  BY <1>38, <1>1, <1>3, <1>5 DEF WatchdogKills, SameLauncher, GuardEnds, Reads
<1>39. CASE Forks /\ SameLauncher
  BY <1>39, <1>1 DEF Forks, SameLauncher, guardVars
<1>40. CASE (\E p \in Processes : Ends(p)) /\ SameLauncher
  BY <1>40, <1>1 DEF Ends, SameLauncher, guardVars
<1>41. QED
  BY <1>6, <1>7, <1>8, <1>9, <1>10, <1>11, <1>12, <1>13, <1>14, <1>15,
     <1>16, <1>17, <1>18, <1>19, <1>20, <1>21, <1>22, <1>23, <1>24, <1>25,
     <1>26, <1>27, <1>28, <1>29, <1>30, <1>31, <1>32, <1>33, <1>34, <1>35,
     <1>36, <1>37, <1>38, <1>39, <1>40
     DEF LaunchNext, Starts, Spawns, Handlers, Sessions, Guard

(* Theorem: on win32 the launcher spawns the engine from within the job,   *)
(* and the job stays armed while anything in it runs.                      *)
THEOREM JobStep ==
  ASSUME LaunchInv, LaunchNext
  PROVE  JobInv'
<1> USE DEF LaunchInv, JobInv, ArmedWhileRunning, ChildInv
<1>1. Reads("RELEASE") => pc \notin Before
  <2>1. orders \in Seq(Orders)
    BY DEF LaunchTypeOK, ContainmentTypeOK
  <2>2. orders # <<>> => 1 \in DOMAIN orders /\ Head(orders) = orders[1]
    BY <2>1, HeadTailProperties, LenProperties, EmptySeq
  <2>3. QED
    BY <2>2 DEF Reads, OrdersInv
<1>2. CASE Refuse
  BY <1>2 DEF Refuse, SameProcesses, SameRun, guardVars, Before
<1>3. CASE CreateContainment
  BY <1>3 DEF CreateContainment, SameProcesses, SameRun, Before
<1>4. CASE GuardOpen
  BY <1>4 DEF GuardOpen, SameProcesses, SameRun, Before
<1>5. CASE GuardReady
  BY <1>5 DEF GuardReady, SameProcesses, SameRun, guardVars, Before
<1>6. CASE ContainmentFails
  BY <1>6 DEF ContainmentFails, SameRun, guardVars, GuardEnds, Armed, Before
<1>7. CASE Spawn
  BY <1>7 DEF Spawn, SameRun, guardVars, Before
<1>8. CASE SpawnFailsLater
  BY <1>8 DEF SpawnFailsLater, SameProcesses, SameRun, guardVars, Before
<1>9. CASE SpawnThrows
  BY <1>9 DEF SpawnThrows, SameRun, LeftBySpawn, Before
<1>10. CASE AttachListeners
  BY <1>10 DEF AttachListeners, SameProcesses, Attach, Before
<1>11. CASE BindFails
  BY <1>11, AfterSignalProperties DEF BindFails, SameRun, Before
<1>12. CASE ChildError
  BY <1>12 DEF ChildError, SameProcesses, Running, Cleanup, Before
<1>13. CASE ChildExit
  BY <1>13, AfterSignalProperties DEF ChildExit, Running, Cleanup, Before
<1>14. CASE ReleaseSettles
  BY <1>14 DEF ReleaseSettles, SameProcesses, SameRun, guardVars, Waiting, Before
<1>15. CASE ReleaseTimesOut
  BY <1>15 DEF ReleaseTimesOut, SameRun, GuardEnds, Armed, Before
<1>16. CASE Activates
  BY <1>16 DEF Activates, SameProcesses, guardVars, Running, Before
<1>17. CASE ProviderReturns
  BY <1>17 DEF ProviderReturns, SameProcesses, guardVars, Running, Before
<1>18. CASE SessionOpens
  BY <1>18 DEF SessionOpens, SameProcesses, guardVars, Running, Before
<1>19. CASE SessionFails
  BY <1>19, AfterSignalProperties DEF SessionFails, guardVars, Running, Cleanup, Before
<1>20. CASE ErrorUnheard
  BY <1>20, AfterSignalProperties DEF ErrorUnheard, guardVars, Before
<1>21. CASE Exit
  BY <1>21 DEF Exit, guardVars, Before
<1>22. CASE Crash
  BY <1>22 DEF Crash, guardVars, Before
<1>23. CASE GuardDies
  BY <1>23 DEF GuardDies, GuardEnds, Armed, Before
<1>24. CASE \E signal \in {"SIGINT", "SIGTERM"} : ForwardSignal(signal)
  BY <1>24, AfterSignalProperties DEF ForwardSignal, Running, Before
<1>25. CASE JobOpens /\ SameLauncher
  BY <1>25 DEF JobOpens, SameLauncher, Before
<1>26. CASE JobArms /\ SameLauncher
  BY <1>26 DEF JobArms, SameLauncher, Before
<1>27. CASE JobReleases /\ SameLauncher
  BY <1>27, <1>1 DEF JobReleases, GuardEnds, Armed, SameLauncher, Before
<1>28. CASE JobCloses /\ SameLauncher
  BY <1>28 DEF JobCloses, GuardEnds, Armed, SameLauncher, Before
<1>29. CASE JobNeverArmed /\ SameLauncher
  BY <1>29 DEF JobNeverArmed, GuardEnds, Armed, SameLauncher, Before
<1>30. CASE WatchdogStarts /\ SameLauncher
  BY <1>30 DEF WatchdogStarts, SameLauncher, Before
<1>31. CASE WatchdogBinds /\ SameLauncher
  BY <1>31 DEF WatchdogBinds, SameLauncher, Before
<1>32. CASE WatchdogReleases /\ SameLauncher
  BY <1>32 DEF WatchdogReleases, GuardEnds, Armed, SameLauncher, Before
<1>33. CASE WatchdogFailsClosed /\ SameLauncher
  BY <1>33 DEF WatchdogFailsClosed, SameLauncher, Before
<1>34. CASE WatchdogKills /\ SameLauncher
  BY <1>34 DEF WatchdogKills, SameLauncher, Before
<1>35. CASE Forks /\ SameLauncher
  BY <1>35 DEF Forks, guardVars, SameLauncher, Before
<1>36. CASE (\E p \in Processes : Ends(p)) /\ SameLauncher
  BY <1>36 DEF Ends, guardVars, SameLauncher, Before
<1>37. QED
  BY <1>2, <1>3, <1>4, <1>5, <1>6, <1>7, <1>8, <1>9, <1>10, <1>11, <1>12,
     <1>13, <1>14, <1>15, <1>16, <1>17, <1>18, <1>19, <1>20, <1>21, <1>22,
     <1>23, <1>24, <1>25, <1>26, <1>27, <1>28, <1>29, <1>30, <1>31, <1>32,
     <1>33, <1>34, <1>35, <1>36
     DEF LaunchNext, Starts, Spawns, Handlers, Sessions, Guard

(* Theorem: what the launcher knows of the engine stays true of the tree,  *)
(* since nothing forks once the engine has ended.                          *)
THEOREM ChildStep ==
  ASSUME LaunchInv, LaunchNext
  PROVE  ChildInv'
<1> USE DEF LaunchInv, ChildInv
<1>1. CASE Refuse
  BY <1>1 DEF Refuse, SameProcesses, SameRun, guardVars, Before, Helpers
<1>2. CASE CreateContainment
  BY <1>2 DEF CreateContainment, SameProcesses, SameRun, Before, Helpers
<1>3. CASE GuardOpen
  BY <1>3 DEF GuardOpen, SameProcesses, SameRun, Before, Helpers
<1>4. CASE GuardReady
  BY <1>4 DEF GuardReady, SameProcesses, SameRun, guardVars, Before, Helpers
<1>5. CASE ContainmentFails
  BY <1>5 DEF ContainmentFails, SameRun, guardVars, GuardEnds, Armed, Before, Helpers
<1>6. CASE Spawn
  BY <1>6 DEF Spawn, SameRun, guardVars, Before, Helpers
<1>7. CASE SpawnFailsLater
  BY <1>7 DEF SpawnFailsLater, SameProcesses, SameRun, guardVars, Before, Helpers
<1>8. CASE SpawnThrows
  BY <1>8 DEF SpawnThrows, SameRun, LeftBySpawn, Before, Helpers
<1>9. CASE AttachListeners
  BY <1>9 DEF AttachListeners, SameProcesses, Attach, Before, Helpers
<1>10. CASE BindFails
  BY <1>10, AfterSignalProperties DEF BindFails, SameRun, Before, Helpers
<1>11. CASE ChildError
  BY <1>11 DEF ChildError, SameProcesses, Running, Cleanup, Before, Helpers
<1>12. CASE ChildExit
  BY <1>12, AfterSignalProperties DEF ChildExit, Running, Cleanup, Before, Helpers
<1>13. CASE ReleaseSettles
  BY <1>13 DEF ReleaseSettles, SameProcesses, SameRun, guardVars, Waiting, Before, Helpers
<1>14. CASE ReleaseTimesOut
  BY <1>14 DEF ReleaseTimesOut, SameRun, GuardEnds, Armed, Before, Helpers
<1>15. CASE Activates
  BY <1>15 DEF Activates, SameProcesses, guardVars, Running, Before, Helpers
<1>16. CASE ProviderReturns
  BY <1>16 DEF ProviderReturns, SameProcesses, guardVars, Running, Before, Helpers
<1>17. CASE SessionOpens
  BY <1>17 DEF SessionOpens, SameProcesses, guardVars, Running, Before, Helpers
<1>18. CASE SessionFails
  BY <1>18, AfterSignalProperties DEF SessionFails, guardVars, Running, Cleanup, Before, Helpers
<1>19. CASE ErrorUnheard
  BY <1>19, AfterSignalProperties DEF ErrorUnheard, guardVars, Before, Helpers
<1>20. CASE Exit
  BY <1>20 DEF Exit, guardVars, Before, Helpers
<1>21. CASE Crash
  BY <1>21 DEF Crash, guardVars, Before, Helpers
<1>22. CASE GuardDies
  BY <1>22 DEF GuardDies, GuardEnds, Armed, Before, Helpers
<1>23. CASE \E signal \in {"SIGINT", "SIGTERM"} : ForwardSignal(signal)
  BY <1>23, AfterSignalProperties DEF ForwardSignal, Running, Before, Helpers
<1>24. CASE JobOpens /\ SameLauncher
  BY <1>24 DEF JobOpens, SameLauncher, Before, Helpers
<1>25. CASE JobArms /\ SameLauncher
  BY <1>25 DEF JobArms, SameLauncher, Before, Helpers
<1>26. CASE JobReleases /\ SameLauncher
  BY <1>26 DEF JobReleases, GuardEnds, Armed, SameLauncher, Before, Helpers
<1>27. CASE JobCloses /\ SameLauncher
  BY <1>27 DEF JobCloses, GuardEnds, Armed, SameLauncher, Before, Helpers
<1>28. CASE JobNeverArmed /\ SameLauncher
  BY <1>28 DEF JobNeverArmed, GuardEnds, Armed, SameLauncher, Before, Helpers
<1>29. CASE WatchdogStarts /\ SameLauncher
  BY <1>29 DEF WatchdogStarts, SameLauncher, Before, Helpers
<1>30. CASE WatchdogBinds /\ SameLauncher
  BY <1>30 DEF WatchdogBinds, SameLauncher, Before, Helpers
<1>31. CASE WatchdogReleases /\ SameLauncher
  BY <1>31 DEF WatchdogReleases, GuardEnds, Armed, SameLauncher, Before, Helpers
<1>32. CASE WatchdogFailsClosed /\ SameLauncher
  BY <1>32 DEF WatchdogFailsClosed, SameLauncher, Before, Helpers
<1>33. CASE WatchdogKills /\ SameLauncher
  BY <1>33 DEF WatchdogKills, SameLauncher, Before, Helpers
<1>34. CASE Forks /\ SameLauncher
  BY <1>34 DEF Forks, guardVars, SameLauncher, Before, Helpers
<1>35. CASE (\E p \in Processes : Ends(p)) /\ SameLauncher
  BY <1>35 DEF Ends, guardVars, SameLauncher, Before, Helpers
<1>36. QED
  BY <1>1, <1>2, <1>3, <1>4, <1>5, <1>6, <1>7, <1>8, <1>9, <1>10, <1>11, <1>12,
     <1>13, <1>14, <1>15, <1>16, <1>17, <1>18, <1>19, <1>20, <1>21, <1>22,
     <1>23, <1>24, <1>25, <1>26, <1>27, <1>28, <1>29, <1>30, <1>31, <1>32,
     <1>33, <1>34, <1>35
     DEF LaunchNext, Starts, Spawns, Handlers, Sessions, Guard

(* Theorem: only the engine's exit leaves a settled launch without an      *)
(* outcome, and only the guard's clean end resolves it.                    *)
THEOREM OutcomeStep ==
  ASSUME LaunchInv, LaunchNext
  PROVE  OutcomeInv'
<1> USE DEF LaunchInv, OutcomeInv
<1>1. CASE Refuse
  BY <1>1 DEF Refuse, SameProcesses, SameRun, guardVars, Before
<1>2. CASE CreateContainment
  BY <1>2 DEF CreateContainment, SameProcesses, SameRun, Before
<1>3. CASE GuardOpen
  BY <1>3 DEF GuardOpen, SameProcesses, SameRun, Before
<1>4. CASE GuardReady
  BY <1>4 DEF GuardReady, SameProcesses, SameRun, guardVars, Before
<1>5. CASE ContainmentFails
  BY <1>5 DEF ContainmentFails, SameRun, guardVars, GuardEnds, Armed, Before
<1>6. CASE Spawn
  BY <1>6 DEF Spawn, SameRun, guardVars, Before
<1>7. CASE SpawnFailsLater
  BY <1>7 DEF SpawnFailsLater, SameProcesses, SameRun, guardVars, Before
<1>8. CASE SpawnThrows
  BY <1>8 DEF SpawnThrows, SameRun, LeftBySpawn, Before
<1>9. CASE AttachListeners
  BY <1>9 DEF AttachListeners, SameProcesses, Attach, Before
<1>10. CASE BindFails
  BY <1>10 DEF BindFails, SameRun, Before
<1>11. CASE ChildError
  BY <1>11 DEF ChildError, SameProcesses, Running, Cleanup, Before
<1>12. CASE ChildExit
  BY <1>12 DEF ChildExit, Running, Cleanup, Before
<1>13. CASE ReleaseSettles
  BY <1>13 DEF ReleaseSettles, SameProcesses, SameRun, guardVars, Waiting, Before
<1>14. CASE ReleaseTimesOut
  BY <1>14 DEF ReleaseTimesOut, SameRun, GuardEnds, Armed, Before
<1>15. CASE Activates
  BY <1>15 DEF Activates, SameProcesses, guardVars, Running, Before
<1>16. CASE ProviderReturns
  BY <1>16 DEF ProviderReturns, SameProcesses, guardVars, Running, Before
<1>17. CASE SessionOpens
  BY <1>17 DEF SessionOpens, SameProcesses, guardVars, Running, Before
<1>18. CASE SessionFails
  BY <1>18 DEF SessionFails, guardVars, Running, Cleanup, Before
<1>19. CASE ErrorUnheard
  BY <1>19 DEF ErrorUnheard, guardVars, Before
<1>20. CASE Exit
  BY <1>20 DEF Exit, guardVars, Before
<1>21. CASE Crash
  BY <1>21 DEF Crash, guardVars, Before
<1>22. CASE GuardDies
  BY <1>22 DEF GuardDies, GuardEnds, Armed, Before
<1>23. CASE \E signal \in {"SIGINT", "SIGTERM"} : ForwardSignal(signal)
  BY <1>23 DEF ForwardSignal, Running, Before
<1>24. CASE JobOpens /\ SameLauncher
  BY <1>24 DEF JobOpens, SameLauncher, Before
<1>25. CASE JobArms /\ SameLauncher
  BY <1>25 DEF JobArms, SameLauncher, Before
<1>26. CASE JobReleases /\ SameLauncher
  BY <1>26 DEF JobReleases, GuardEnds, Armed, SameLauncher, Before
<1>27. CASE JobCloses /\ SameLauncher
  BY <1>27 DEF JobCloses, GuardEnds, Armed, SameLauncher, Before
<1>28. CASE JobNeverArmed /\ SameLauncher
  BY <1>28 DEF JobNeverArmed, GuardEnds, Armed, SameLauncher, Before
<1>29. CASE WatchdogStarts /\ SameLauncher
  BY <1>29 DEF WatchdogStarts, SameLauncher, Before
<1>30. CASE WatchdogBinds /\ SameLauncher
  BY <1>30 DEF WatchdogBinds, SameLauncher, Before
<1>31. CASE WatchdogReleases /\ SameLauncher
  BY <1>31 DEF WatchdogReleases, GuardEnds, Armed, SameLauncher, Before
<1>32. CASE WatchdogFailsClosed /\ SameLauncher
  BY <1>32 DEF WatchdogFailsClosed, SameLauncher, Before
<1>33. CASE WatchdogKills /\ SameLauncher
  BY <1>33 DEF WatchdogKills, SameLauncher, Before
<1>34. CASE Forks /\ SameLauncher
  BY <1>34 DEF Forks, guardVars, SameLauncher, Before
<1>35. CASE (\E p \in Processes : Ends(p)) /\ SameLauncher
  BY <1>35 DEF Ends, guardVars, SameLauncher, Before
<1>36. QED
  BY <1>1, <1>2, <1>3, <1>4, <1>5, <1>6, <1>7, <1>8, <1>9, <1>10, <1>11, <1>12,
     <1>13, <1>14, <1>15, <1>16, <1>17, <1>18, <1>19, <1>20, <1>21, <1>22,
     <1>23, <1>24, <1>25, <1>26, <1>27, <1>28, <1>29, <1>30, <1>31, <1>32,
     <1>33, <1>34, <1>35
     DEF LaunchNext, Starts, Spawns, Handlers, Sessions, Guard

(* Theorem: a launch that is settled gets no listener and no session back. *)
THEOREM CleanStep ==
  ASSUME LaunchInv, LaunchNext
  PROVE  SettledIsClean'
<1> USE DEF LaunchInv, SettledIsClean, OutcomeInv
<1>1. CASE Refuse
  BY <1>1 DEF Refuse, SameProcesses, SameRun, guardVars, Before
<1>2. CASE CreateContainment
  BY <1>2 DEF CreateContainment, SameProcesses, SameRun, Before
<1>3. CASE GuardOpen
  BY <1>3 DEF GuardOpen, SameProcesses, SameRun, Before
<1>4. CASE GuardReady
  BY <1>4 DEF GuardReady, SameProcesses, SameRun, guardVars, Before
<1>5. CASE ContainmentFails
  BY <1>5 DEF ContainmentFails, SameRun, guardVars, GuardEnds, Armed, Before
<1>6. CASE Spawn
  BY <1>6 DEF Spawn, SameRun, guardVars, Before
<1>7. CASE SpawnFailsLater
  BY <1>7 DEF SpawnFailsLater, SameProcesses, SameRun, guardVars, Before
<1>8. CASE SpawnThrows
  BY <1>8 DEF SpawnThrows, SameRun, LeftBySpawn, Before
<1>9. CASE AttachListeners
  BY <1>9 DEF AttachListeners, SameProcesses, Attach, Before
<1>10. CASE BindFails
  BY <1>10 DEF BindFails, SameRun, Before
<1>11. CASE ChildError
  BY <1>11 DEF ChildError, SameProcesses, Running, Cleanup, Before
<1>12. CASE ChildExit
  BY <1>12 DEF ChildExit, Running, Cleanup, Before
<1>13. CASE ReleaseSettles
  BY <1>13 DEF ReleaseSettles, SameProcesses, SameRun, guardVars, Waiting, Before
<1>14. CASE ReleaseTimesOut
  BY <1>14 DEF ReleaseTimesOut, SameRun, GuardEnds, Armed, Before
<1>15. CASE Activates
  BY <1>15 DEF Activates, SameProcesses, guardVars, Running, Before
<1>16. CASE ProviderReturns
  BY <1>16 DEF ProviderReturns, SameProcesses, guardVars, Running, Before
<1>17. CASE SessionOpens
  BY <1>17 DEF SessionOpens, SameProcesses, guardVars, Running, Before
<1>18. CASE SessionFails
  BY <1>18 DEF SessionFails, guardVars, Running, Cleanup, Before
<1>19. CASE ErrorUnheard
  BY <1>19 DEF ErrorUnheard, guardVars, Before
<1>20. CASE Exit
  BY <1>20 DEF Exit, guardVars, Before
<1>21. CASE Crash
  BY <1>21 DEF Crash, guardVars, Before
<1>22. CASE GuardDies
  BY <1>22 DEF GuardDies, GuardEnds, Armed, Before
<1>23. CASE \E signal \in {"SIGINT", "SIGTERM"} : ForwardSignal(signal)
  BY <1>23 DEF ForwardSignal, Running, Before
<1>24. CASE JobOpens /\ SameLauncher
  BY <1>24 DEF JobOpens, SameLauncher, Before
<1>25. CASE JobArms /\ SameLauncher
  BY <1>25 DEF JobArms, SameLauncher, Before
<1>26. CASE JobReleases /\ SameLauncher
  BY <1>26 DEF JobReleases, GuardEnds, Armed, SameLauncher, Before
<1>27. CASE JobCloses /\ SameLauncher
  BY <1>27 DEF JobCloses, GuardEnds, Armed, SameLauncher, Before
<1>28. CASE JobNeverArmed /\ SameLauncher
  BY <1>28 DEF JobNeverArmed, GuardEnds, Armed, SameLauncher, Before
<1>29. CASE WatchdogStarts /\ SameLauncher
  BY <1>29 DEF WatchdogStarts, SameLauncher, Before
<1>30. CASE WatchdogBinds /\ SameLauncher
  BY <1>30 DEF WatchdogBinds, SameLauncher, Before
<1>31. CASE WatchdogReleases /\ SameLauncher
  BY <1>31 DEF WatchdogReleases, GuardEnds, Armed, SameLauncher, Before
<1>32. CASE WatchdogFailsClosed /\ SameLauncher
  BY <1>32 DEF WatchdogFailsClosed, SameLauncher, Before
<1>33. CASE WatchdogKills /\ SameLauncher
  BY <1>33 DEF WatchdogKills, SameLauncher, Before
<1>34. CASE Forks /\ SameLauncher
  BY <1>34 DEF Forks, guardVars, SameLauncher, Before
<1>35. CASE (\E p \in Processes : Ends(p)) /\ SameLauncher
  BY <1>35 DEF Ends, guardVars, SameLauncher, Before
<1>36. QED
  BY <1>1, <1>2, <1>3, <1>4, <1>5, <1>6, <1>7, <1>8, <1>9, <1>10, <1>11, <1>12,
     <1>13, <1>14, <1>15, <1>16, <1>17, <1>18, <1>19, <1>20, <1>21, <1>22,
     <1>23, <1>24, <1>25, <1>26, <1>27, <1>28, <1>29, <1>30, <1>31, <1>32,
     <1>33, <1>34, <1>35
     DEF LaunchNext, Starts, Spawns, Handlers, Sessions, Guard

(* LaunchTypeOK in parts: orders, processes, flags and the rest.           *)
TreeTyped == tree \in SUBSET Processes /\ stubborn \in SUBSET Processes

PlainTyped ==
  /\ platform \in {"win32", "darwin"}
  /\ guard \in {"none", "starting", "opened", "armed", "killing", "gone"}
  /\ guardExit \in {"no", "clean", "failed"}
  /\ closing \in {"none", "releasing", "terminating"}
  /\ mode \in {"none", "eager", "lazy"}
  /\ pc \in {"start", "init", "commit", "ready", "spawned", "throwing", "running", "done"}
  /\ child \in {"none", "failed", "started", "gone"}
  /\ session \in {"none", "activation", "provider", "opening", "open", "closed"}
  /\ outcome \in {"pending", "resolved", "rejected"}

FlagsTyped ==
  alive \in BOOLEAN /\ hung \in BOOLEAN /\ listeners \in BOOLEAN /\ settled \in BOOLEAN

(* Lemma: the type invariant, taken apart by who writes the variables.     *)
LEMMA TypesSplit == LaunchTypeOK <=> OrdersTyped /\ TreeTyped /\ PlainTyped /\ FlagsTyped
BY DEF LaunchTypeOK, ContainmentTypeOK, OrdersTyped, TreeTyped, PlainTyped, FlagsTyped

(* Theorem: only processes of the tree run.                                *)
THEOREM TreeStep ==
  ASSUME LaunchInv, LaunchNext
  PROVE  TreeTyped'
<1>1. TreeTyped
  BY TypesSplit DEF LaunchInv
<1> USE <1>1 DEF TreeTyped
<1>2. CASE Starts
  BY <1>2, AfterSignalProperties, ContainmentAssumption
     DEF Starts, Spawns, Refuse, SameProcesses, SameRun, guardVars,
         CreateContainment, GuardOpen, GuardReady, ContainmentFails,
         GuardEnds, Armed, Spawn, SpawnFailsLater, SpawnThrows, LeftBySpawn,
         Helpers, AttachListeners, Attach, BindFails
<1>3. CASE Handlers \/ Sessions
  BY <1>3, AfterSignalProperties
     DEF Handlers, Sessions, ChildError, SameProcesses, Running, Cleanup,
         ChildExit, ReleaseSettles, SameRun, guardVars, Waiting,
         ReleaseTimesOut, GuardEnds, Armed, Activates, ProviderReturns,
         SessionOpens, SessionFails
<1>4. CASE ErrorUnheard \/ Exit \/ Crash \/ GuardDies
  BY <1>4, AfterSignalProperties
     DEF ErrorUnheard, guardVars, Exit, Crash, GuardDies, GuardEnds, Armed
<1>5. CASE \E signal \in {"SIGINT", "SIGTERM"} : ForwardSignal(signal)
  BY <1>5, AfterSignalProperties
     DEF ForwardSignal, Running
<1>6. CASE Guard /\ SameLauncher
  BY <1>6
     DEF Guard, SameLauncher, JobOpens, JobArms, JobReleases, GuardEnds,
         Armed, JobCloses, JobNeverArmed, WatchdogStarts, WatchdogBinds,
         WatchdogReleases, WatchdogFailsClosed, WatchdogKills
<1>7. CASE (Forks \/ \E p \in Processes : Ends(p)) /\ SameLauncher
  BY <1>7
     DEF SameLauncher, Forks, guardVars, Helpers, Ends
<1>8. QED
  BY <1>2, <1>3, <1>4, <1>5, <1>6, <1>7 DEF LaunchNext

(* Theorem: every other variable but the orders keeps its type.            *)
THEOREM PlainStep ==
  ASSUME LaunchInv, LaunchNext
  PROVE  PlainTyped'
<1>1. PlainTyped
  BY TypesSplit DEF LaunchInv
<1> USE <1>1 DEF PlainTyped
<1>2. CASE Starts
  BY <1>2
     DEF Starts, Spawns, Refuse, SameProcesses, SameRun, guardVars,
         CreateContainment, GuardOpen, GuardReady, ContainmentFails,
         GuardEnds, Spawn, SpawnFailsLater, SpawnThrows, LeftBySpawn,
         BeginRelease, AttachListeners, Attach, BindFails, BeginTermination
<1>3. CASE Handlers \/ Sessions
  BY <1>3
     DEF Handlers, Sessions, ChildError, SameProcesses, Running, Cleanup,
         BeginRelease, ChildExit, ReleaseSettles, SameRun, guardVars,
         Waiting, ReleaseTimesOut, GuardEnds, Activates, ProviderReturns,
         SessionOpens, SessionFails
<1>4. CASE ErrorUnheard \/ Exit \/ Crash \/ GuardDies
  BY <1>4
     DEF ErrorUnheard, guardVars, Exit, Crash, GuardDies, GuardEnds
<1>5. CASE \E signal \in {"SIGINT", "SIGTERM"} : ForwardSignal(signal)
  BY <1>5
     DEF ForwardSignal, Running, BeginTermination
<1>6. CASE Guard /\ SameLauncher
  BY <1>6
     DEF Guard, SameLauncher, JobOpens, JobArms, JobReleases, GuardEnds,
         JobCloses, JobNeverArmed, WatchdogStarts, WatchdogBinds,
         WatchdogReleases, WatchdogFailsClosed, WatchdogKills
<1>7. CASE (Forks \/ \E p \in Processes : Ends(p)) /\ SameLauncher
  BY <1>7
     DEF SameLauncher, Forks, guardVars, Ends
<1>8. QED
  BY <1>2, <1>3, <1>4, <1>5, <1>6, <1>7 DEF LaunchNext

(* Theorem: a flag stays a flag.                                           *)
THEOREM FlagsStep ==
  ASSUME LaunchInv, LaunchNext
  PROVE  FlagsTyped'
<1>1. FlagsTyped
  BY TypesSplit DEF LaunchInv
<1> USE <1>1 DEF FlagsTyped
<1>2. CASE Starts
  BY <1>2, Zenon
     DEF Starts, Spawns, Refuse, SameProcesses, SameRun, guardVars,
         CreateContainment, GuardOpen, GuardReady, ContainmentFails,
         GuardEnds, Spawn, SpawnFailsLater, SpawnThrows, LeftBySpawn,
         BeginRelease, AttachListeners, Attach, BindFails, BeginTermination
<1>3. CASE Handlers \/ Sessions
  BY <1>3, Zenon
     DEF Handlers, Sessions, ChildError, SameProcesses, Running, Cleanup,
         BeginRelease, ChildExit, ReleaseSettles, SameRun, guardVars,
         Waiting, ReleaseTimesOut, GuardEnds, Activates, ProviderReturns,
         SessionOpens, SessionFails
<1>4. CASE ErrorUnheard \/ Exit \/ Crash \/ GuardDies
  BY <1>4, Zenon
     DEF ErrorUnheard, guardVars, Exit, Crash, GuardDies, GuardEnds
<1>5. CASE \E signal \in {"SIGINT", "SIGTERM"} : ForwardSignal(signal)
  BY <1>5, Zenon
     DEF ForwardSignal, Running, BeginTermination
<1>6. CASE Guard /\ SameLauncher
  BY <1>6, Zenon
     DEF Guard, SameLauncher, JobOpens, JobArms, JobReleases, GuardEnds,
         JobCloses, JobNeverArmed, WatchdogStarts, WatchdogBinds,
         WatchdogReleases, WatchdogFailsClosed, WatchdogKills
<1>7. CASE (Forks \/ \E p \in Processes : Ends(p)) /\ SameLauncher
  BY <1>7, Zenon
     DEF SameLauncher, Forks, guardVars, Ends
<1>8. QED
  BY <1>2, <1>3, <1>4, <1>5, <1>6, <1>7 DEF LaunchNext

-----------------------------------------------------------------------------
(* The results.                                                            *)

(* Theorem: LaunchInv holds throughout every launch.                       *)
THEOREM LaunchInvariant == LaunchSpec => []LaunchInv
<1>1. LaunchInit => LaunchInv
  <2> SUFFICES ASSUME LaunchInit
               PROVE  LaunchInv
    OBVIOUS
  <2>1. orders \in Seq(Orders) /\ Len(orders) = 0 /\ DOMAIN orders = {}
    BY DEF LaunchInit, ContainmentInit
  <2>2. OrdersTyped /\ OrdersInv
    BY <2>1 DEF OrdersTyped, OrdersInv, LaunchInit, ContainmentInit
  <2>3. TreeTyped /\ PlainTyped
    BY DEF TreeTyped, PlainTyped, LaunchInit, ContainmentInit
  <2>4. FlagsTyped
    BY Zenon DEF FlagsTyped, LaunchInit, ContainmentInit
  <2>5. JobInv /\ ChildInv /\ OutcomeInv /\ SettledIsClean
    BY DEF JobInv, ArmedWhileRunning, ChildInv, OutcomeInv, SettledIsClean, LaunchInit, ContainmentInit
  <2>6. QED
    BY <2>2, <2>3, <2>4, <2>5, TypesSplit DEF LaunchInv
<1>2. LaunchInv /\ [LaunchNext]_launchVars => LaunchInv'
  <2>1. ASSUME LaunchInv, LaunchNext
        PROVE  LaunchInv'
    <3>1. LaunchTypeOK'
      BY <2>1, OrdersStep, TreeStep, PlainStep, FlagsStep, TypesSplit
         DEF LaunchTypeOK, ContainmentTypeOK, OrdersTyped, TreeTyped, PlainTyped, FlagsTyped
    <3>2. QED
      BY <2>1, <3>1, OrdersStep, JobStep, ChildStep, OutcomeStep, CleanStep DEF LaunchInv
  <2>2. LaunchInv /\ UNCHANGED launchVars => LaunchInv'
    BY DEF LaunchInv, LaunchTypeOK, ContainmentTypeOK, OrdersInv, JobInv, ArmedWhileRunning, ChildInv,
           OutcomeInv, SettledIsClean, launchVars, containment, guardVars
  <2>3. QED
    BY <2>1, <2>2
<1>3. QED
  BY <1>1, <1>2, PTL DEF LaunchSpec

(* Theorem: every variable of a launch has its type throughout, and the    *)
(* guard never has more than two orders before it (createWindowsJob-       *)
(* Containment, createMacOsProcessContainment).                            *)
THEOREM LaunchTypeCorrect == LaunchSpec => []LaunchTypeOK
<1>1. LaunchInv => LaunchTypeOK
  BY DEF LaunchInv
<1>2. QED
  BY <1>1, LaunchInvariant, PTL

(* Theorem: on win32 no order of exit, release, termination, time-out and  *)
(* crash disarms the job while a process of the engine runs in it.         *)
THEOREM LaunchArmed == LaunchSpec => []ArmedWhileRunning
<1>1. LaunchInv => ArmedWhileRunning
  BY DEF LaunchInv, JobInv
<1>2. QED
  BY <1>1, LaunchInvariant, PTL

(* Theorem: a launch that resolves has seen its engine and its guard end,  *)
(* and leaves nothing of the tree but, on darwin, what ignores a signal.   *)
THEOREM LaunchResolved == LaunchSpec => []ResolvedMeansClosed
<1>1. LaunchInv => ResolvedMeansClosed
  <2> SUFFICES ASSUME LaunchInv, outcome = "resolved"
               PROVE  /\ child = "gone" /\ guard = "gone" /\ guardExit = "clean"
                      /\ tree \subseteq (IF platform = "win32" THEN {} ELSE stubborn)
    BY DEF ResolvedMeansClosed
  <2>1. child = "gone" /\ guard = "gone" /\ guardExit = "clean"
    BY DEF LaunchInv, OutcomeInv
  <2>2. platform = "win32" => tree = {}
    BY <2>1 DEF LaunchInv, JobInv, ArmedWhileRunning
  <2>3. platform # "win32" => tree \subseteq stubborn
    BY <2>1 DEF LaunchInv, ChildInv, LaunchTypeOK, ContainmentTypeOK
  <2>4. QED
    BY <2>1, <2>2, <2>3
<1>2. QED
  BY <1>1, LaunchInvariant, PTL

(* Theorem: a launch that is settled keeps no listener on the process and  *)
(* no session, whenever its credential comes.                              *)
THEOREM LaunchClean == LaunchSpec => []SettledIsClean
<1>1. LaunchInv => SettledIsClean
  BY DEF LaunchInv
<1>2. QED
  BY <1>1, LaunchInvariant, PTL
=============================================================================
