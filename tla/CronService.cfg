SPECIFICATION Spec
CONSTANTS
  None = None
  Unreadable = Unreadable
  Deletion = Deletion
  Withdrawal = Withdrawal
  Jobs = {j1, j2}
  OneTime = {j2}
  DeletedAfterRun = {j2}
  AtTime = 2
  Period = 2
  MaxSleep = 2
  Callers = {}
  LateCalls = FALSE
  MaxDamages = 1
  Horizon = 4
  MaxEdits = 4
INVARIANTS
  NotRolledBack
  DueStillDue
PROPERTIES
  JobsNotDropped
CHECK_DEADLOCK FALSE
