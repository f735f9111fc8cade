SPECIFICATION ReleaseSpec
CONSTANTS
  Langs <- MCLangs
  People <- MCPeople
  TypeOf <- MCTypeOf
  Dynasties <- MCDynasties
  Types <- MCTypes
  Phrases <- MCPhrases
  Walks <- MCWalks
  MaxPage = 2
  MaxPageSize = 2
  MinRunes = 3
  MaxRunes = 4
  MaxFaults = 1
  Trees <- MCTrees
  LocatorId <- MCLocatorId
  MaxBuilds = 2
INVARIANTS
  ReportIsTrue
  OutcomeIsDetermined
  WalkIsComplete
  AnswersForCause
PROPERTY CatalogueIsReproducible
CHECK_DEADLOCK FALSE
