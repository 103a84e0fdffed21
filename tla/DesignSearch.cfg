SPECIFICATION Spec
CONSTANTS
  Points <- MCPoints
  Spaces <- MCSpaces
  Variants <- MCVariants
  Clashes <- MCClashes
  Seeds <- MCSeeds
  MaxVariant = 3
  Dims <- MCDims
  Vectors <- MCVectors
  Budget <- MCBudget
  Layouts <- MCLayouts
INVARIANTS
  ArchiveIsFront
  SearchAccounts
  RecommendedIsBest
CHECK_DEADLOCK FALSE
