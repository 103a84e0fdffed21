SPECIFICATION Spec
CONSTANTS
  Ladder <- MCLadder
  Temperatures = 3
  DecisionTurns = 3
  SessionTurns = 7
  MaxJobs = 2
  MaxExiting = 2
INVARIANTS
  OverdueIsOver
  LedgerBalances
  TranscriptFaithful
PROPERTIES
  CallsReturn
CHECK_DEADLOCK FALSE
