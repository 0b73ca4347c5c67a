SPECIFICATION Spec
CONSTANTS
  a = a
  b = b
  c = c
  Callers = {a, b, c}
  ClientOf <- OwnClient
  Commands <- Refreshers
  MaxTokens = 3
  MaxFaults = 0
  MaxActive = 3
SYMMETRY Symmetry
INVARIANT LiveIsStored
