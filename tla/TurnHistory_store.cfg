SPECIFICATION Spec
CONSTANTS
  None = None
  MaxTurns = 2
  MaxIterations = 2
  MaxFollowUps = 1
  FileCap = 6
  LongTails = TRUE
  GuardsReports = TRUE
  StoreMayFail = TRUE
INVARIANTS
  CheckpointIsOfTurn
PROPERTIES
  NothingForgotten
  CheckpointNotForgotten
CHECK_DEADLOCK FALSE
