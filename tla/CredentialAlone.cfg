SPECIFICATION FairSpec
CONSTANTS
  a = a
  b = b
  c = c
  Callers = {a}
  ClientOf <- OwnClient
  Commands <- Online
  MaxTokens = 4
  MaxFaults = 2
  MaxActive = 1
INVARIANT SessionsAgree
PROPERTY DeadCredentialsGo
