SPECIFICATION Spec
CONSTANTS
  None = None
  MaxTurns = 2
  MaxIterations = 2
  MaxFollowUps = 1
  FileCap = 6
  LongTails = FALSE
  GuardsReports = FALSE
  StoreMayFail = FALSE
INVARIANTS
  LegalTranscript
  NoDuplicates
  AsksAnswered
  NothingOnlyInMemory
CHECK_DEADLOCK FALSE
