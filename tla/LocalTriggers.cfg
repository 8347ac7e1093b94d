SPECIFICATION FairSpec
CONSTANTS
  None = None
  t1 = t1
  t2 = t2
  Triggers = {t1, t2}
  Deliveries = {d1, d2}
  TriggerOf <- MCTriggerOf
  MaxAttempts = 3
  BatchSize = 2
  MaxInterruptions = 4
  InSecond = {d2}
INVARIANTS
  NothingLost
  RunsBounded
  NoNeedlessRun
  OneDirectory
PROPERTIES
  DeliveriesSettle
CHECK_DEADLOCK FALSE
