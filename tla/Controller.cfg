SPECIFICATION ControllerSpec
CONSTANTS
  NSources = 3
  Needs <- MCNeeds
  Outputs <- MCOutputs
  Effects <- MCEffects
  Texts <- MCTexts
  InitialText = "m0"
  Identities <- MCIdentities
  DocOf <- MCDocOf
  Seeds <- MCSeeds
INVARIANTS
  OutcomeIsTrue
PROPERTIES
  RunEnds
CHECK_DEADLOCK FALSE
