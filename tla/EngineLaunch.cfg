CONSTANT Processes = {"engine", "helper", "other"}
SPECIFICATION FairSpec
CHECK_DEADLOCK FALSE
INVARIANTS LaunchTypeOK ArmedWhileRunning ResolvedMeansClosed SettledIsClean
PROPERTIES LaunchAnswers NoOrphans
