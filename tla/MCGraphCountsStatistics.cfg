SPECIFICATION ResponseSpec
CONSTANTS
  Langs <- MCLangs
  Authors <- MCAuthors
  Poems <- MCPoems
  Dynasties <- MCDynasties
  Types <- MCTypes
  Fields <- MCFields
  Operations <- BesideStatistics
  MaxPageSize = 3
  ComplexityLimit = 100
  NestedAuthorPoemsIOCost = 20
  MaxFaults = 0
INVARIANT AuthorCountsAreTrue
