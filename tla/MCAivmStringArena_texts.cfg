SPECIFICATION StringSpec
CONSTANTS
  RootOrder <- MCRootOrder
  NodeKind = "kind"
  NodeId = "id"
  StringCapacity = 5
  InitialLimit = 3
  GrowthStep = 2
  Texts <- MCTexts
  Starts <- MCStarts
  Lengths <- MCLengths
  IntMax = 3
INVARIANTS
  StringsReadRight
  StringsEndInside
PROPERTIES
  StringPressureMeansFull
