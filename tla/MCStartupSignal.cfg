SPECIFICATION Spec
CONSTANTS
  Releases = 2
  MaxCrashes = 1
  Regimes <- SignalAndFault
INVARIANT ServedPairVerified
