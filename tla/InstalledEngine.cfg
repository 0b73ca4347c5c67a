SPECIFICATION Spec
CONSTANTS
  Releases <- ThreeReleases
  Attempts = 3
  MaxActivations = 4
  MaxCheckpoints = 3
CHECK_DEADLOCK FALSE
INVARIANTS TypeOK RefusalHasACause LaunchesTheActive
