SPECIFICATION Spec
CONSTANTS
  MaxTurns = 1
  MaxRetries = 1
  MaxRounds = 2
  MaxEdits = 1
  MaxFaults = 1
INVARIANTS
  ToolsRunAsDecided
  TurnIsOrderly
CHECK_DEADLOCK FALSE
