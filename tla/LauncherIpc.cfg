SPECIFICATION IpcSpec
CONSTANTS
  c1 = c1
  c2 = c2
  Credentials = {c1, c2}
  NoCredential = "no credential"
  MaxFrames = 4
  MaxBuffered = 3
  MaxFaults = 2
CHECK_DEADLOCK FALSE
INVARIANT IpcTypeOK
INVARIANT EngineAgrees
PROPERTY Recalled
PROPERTY ImplementsLoan
