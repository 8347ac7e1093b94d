SPECIFICATION Spec
CONSTANTS
  None = None
  s1 = s1
  s2 = s2
  SessionOf <- MCSessionOf
  Sessions = {s1, s2}
  InSecond = {d1, c2}
  Chat = {c1, c2}
  Automations = {a1, a2}
  Sub = {b1}
  Stop = {stop}
  New = {}
  Direct = {d1}
  Mixes = {{c1, c2, a1, a2, stop}}
  Approvals = {}
  GoalMax = 0
  MayFail = {c1}
  GateSlots = 1
  PendingMax = 1
  InjectLimit = 1
  CycleMax = 1
  ContinuationMax = 0
  RunLoopYields = TRUE
INVARIANTS
  TypeOK
  SerialSessions
  RegistryIsOwner
  NoOrphanedFollowup
  OneHolder
  DeferredHasWaker
  AutomationsSeparate
  DroppedByCommand
CHECK_DEADLOCK FALSE
