SPECIFICATION Spec
CONSTANTS
  MaxBuilds <- Builds
  MaxCrashes = 2
  Regimes <- KillAndPowerLoss
INVARIANT VerifiedPairKept
