SPECIFICATION BoardSpec
CONSTANTS
  Texts <- MCTexts
  Names <- MCNames
  Bodies <- MCBodies
  Docs <- MCDocs
  Identities <- MCIdentities
  DocOf <- MCDocOf
  InitialText = "empty"
  Notes <- MCNotes
  MaxRevisions = 4
  MaxRecords = 5
  MaxTasks = 2
  MaxRefusals = 1
INVARIANTS
  DefinitionsImmutable
  SourcesHonoured
  LogReplays
PROPERTIES
  ImplementsRevisionLog
CHECK_DEADLOCK FALSE
