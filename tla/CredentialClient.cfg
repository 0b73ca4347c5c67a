SPECIFICATION Spec
CONSTANTS
  a = a
  b = b
  c = c
  Callers = {a, b}
  ClientOf <- OneClient
  Commands <- AllButLogin
  MaxTokens = 3
  MaxFaults = 1
  MaxActive = 2
SYMMETRY Symmetry
INVARIANTS TypeOK UsedOnlyVerified
PROPERTY DeviceKept
