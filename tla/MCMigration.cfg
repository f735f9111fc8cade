SPECIFICATION FairSpec
CONSTANTS
  Ids = {1, 2}
  Texts = {"a", "b"}
  Canonicals = {"p"}
  Databases <- Found
  MaxStops = 2
  MaxWrites = 2
INVARIANTS
  NothingStale
  MissingOnlyAfterStop
  VersionMeansComplete
PROPERTIES
  RepeatChangesNothing
  MigrationSucceeds
