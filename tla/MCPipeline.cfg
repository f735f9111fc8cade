SPECIFICATION AssetSpec
CONSTANTS
  Corpora <- Inputs
  Workers = {w1, w2, w3}
  WorkBuffer = 1
  ResultBuffer = 1
  ErrorBuffer = 1
  TransactionSize = 1
  MaxFaults = 2
INVARIANTS
  TypeOK
  ClosedAfterWorkers
  NoPartialProduct
  RowsBeginCatalog
  SuccessIsComplete
  FailsOnlyForCause
  CachedAuthorsStored
  AssetIsReproducible
PROPERTY Terminates
