SPECIFICATION CollaborationSpec
CONSTANTS
  Texts <- MCTexts
  InitialText = "empty"
  Identities <- MCIdentities
  DocOf <- MCDocOf
  Requirements <- MCRequirements
  SessionBudget <- MCSessionBudget
  TokenCounts <- MCTokenCounts
  MaxCalls = 2
  MaxRepairs = 2
INVARIANTS
  WritersCurrent
  HandoffsAccounted
  AcceptedWithTranscript
  ReturnedIsCommitted
  FactsDescribeModel
CHECK_DEADLOCK FALSE
