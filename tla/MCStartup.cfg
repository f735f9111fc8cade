SPECIFICATION FairSpec
CONSTANTS
  Releases = 3
  MaxCrashes = 3
  Regimes <- Withstood
INVARIANTS
  ServedPairVerified
  KeepsVerifiedPair
  RecoveryFindsAWayAfterKill
PROPERTY VerifiedPairIsServed
