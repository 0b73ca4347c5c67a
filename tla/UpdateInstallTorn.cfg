CONSTANTS
  Channels <- TwoChannels
  DefaultChannel = "stable"
  Releases <- FourReleases
  Revocable <- NoRevocations
  MaxTransactions = 1
  MaxFaults = 1
  MaxDamage = 0
  MaxStateLoss = 0
  TornWrites = TRUE
SPECIFICATION Spec
INVARIANT AlwaysRecoverable
