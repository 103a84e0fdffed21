SPECIFICATION RepairSpec
CONSTANTS
  NChains = 2
  NCodes = 3
  Route <- MCRoute
  Texts <- MCTexts
  InitialText <- MCInitialText
  Identities <- MCIdentities
  DocOf <- MCDocOf
  MaximumAttempts = 4
  SessionBudget <- MCSessionBudget
  TokenCounts <- MCTokenCounts
INVARIANTS
  WorkAccounted
  RepairsFollowModel
PROPERTIES
  Terminates
CHECK_DEADLOCK FALSE
