SPECIFICATION ResponseSpec
CONSTANTS
  Langs <- MCLangs
  Authors <- MCAuthors
  Poems <- MCPoems
  Dynasties <- MCDynasties
  Types <- MCTypes
  Fields <- MCFields
  Operations <- MCOperations
  MaxPageSize = 3
  ComplexityLimit = 100
  NestedAuthorPoemsIOCost = 20
  MaxFaults = 1
INVARIANTS
  TypeOK
  PoemCountsAreTrue
  WrongOnlyBesideStatistics
  WorkIsPriced
  ErrorsStayInPlace
  WrongCountIsContradicted
PROPERTY ResponseIsSent
