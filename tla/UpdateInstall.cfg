CONSTANTS
  Channels <- TwoChannels
  DefaultChannel = "stable"
  Releases <- FourReleases
  Revocable <- RevokeNewest
  MaxTransactions = 3
  MaxFaults = 2
  MaxDamage = 1
  MaxStateLoss = 1
  TornWrites = TRUE
SPECIFICATION FairSpec
INVARIANTS TypeOK PlanAccepts NothingLeftBehind JournalsAgree KeptSlotsIntact RecoveredInstallation StateLags
PROPERTY ImplementsLedger
PROPERTY OpenJournalResolved
