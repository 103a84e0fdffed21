SPECIFICATION Spec
CONSTANTS
  States <- MCStates
  Triggers <- MCTriggers
  NoCommand = NoCommand
  Booleans <- MCBooleans
  Declared <- MCDeclared
  Flights <- MCFlights
  Monitors <- MCMonitors
INVARIANTS
  PathsAreRight
  VerdictsAreTrue
  CommandWasTaken
CHECK_DEADLOCK FALSE
