SPECIFICATION FairSpec
CONSTANTS
  None = None
  Unreadable = Unreadable
  Deletion = Deletion
  Withdrawal = Withdrawal
  Jobs = {j1, j2}
  OneTime = {j2}
  DeletedAfterRun = {}
  AtTime = 2
  Period = 2
  MaxSleep = 2
  Callers = {u1}
  LateCalls = FALSE
  MaxDamages = 0
  Horizon = 4
  MaxEdits = 3
INVARIANTS
  RemovedStaysRemoved
PROPERTIES
  DueRuns
CHECK_DEADLOCK FALSE
