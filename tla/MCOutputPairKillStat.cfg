SPECIFICATION Spec
CONSTANTS
  MaxBuilds <- Builds
  MaxCrashes = 1
  Regimes <- KillAndFailingStat
INVARIANT VerifiedPairKept
