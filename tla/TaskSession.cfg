SPECIFICATION SessionSpec
CONSTANTS
  TaskIds = {t1, t2}
  Roles = {design, repair}
  Bases <- MCBases
  Budgets <- MCBudgets
  TokenCounts <- MCTokenCounts
  Endings <- MCEndings
  MaxSessions = 3
  MaxMessages = 2
INVARIANTS
  OneWriterPerTask
  OpenSessionsCurrent
  RebaseChains
PROPERTIES
  ClosedForGood
SYMMETRY Interchangeable
CHECK_DEADLOCK FALSE
