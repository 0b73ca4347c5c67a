CONSTANTS
  Channels <- TwoChannels
  DefaultChannel = "stable"
  Releases <- FourReleases
  Revocable <- NoRevocations
  MaxTransactions = 3
  MaxFaults = 0
  MaxDamage = 1
  MaxStateLoss = 0
  TornWrites = FALSE
SPECIFICATION Spec
INVARIANT AlwaysRecoverable
