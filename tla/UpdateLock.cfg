SPECIFICATION Spec
CONSTANTS
  Launchers = {p1, p2, p3}
  NoLauncher = NoLauncher
  MaxRuns = 4
  MaxCrashes = 2
  PidReuse = TRUE
SYMMETRY Symmetry
INVARIANTS TypeOK MutualExclusion HeldMeansOwned SoloLauncherAcquires
PROPERTIES LiveOwnerKeepsAuthority
CHECK_DEADLOCK FALSE
