SPECIFICATION FairSpec
CONSTANTS
  MaxBuilds <- Builds
  MaxCrashes = 3
  Regimes <- Withstood
INVARIANTS
  UnmarkedPairWhole
  VerifiedPairKept
  RecoveryNeverStuck
  RollbackRestores
PROPERTIES
  InterruptionResolved
  ImplementsStore
