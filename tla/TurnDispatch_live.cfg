SPECIFICATION FairSpec
CONSTANTS
  None = None
  s1 = s1
  s2 = s2
  SessionOf <- MCSessionOf
  Sessions = {s1}
  InSecond = {}
  Chat = {c1, c2}
  Automations = {a1, a2}
  Sub = {}
  Stop = {stop}
  New = {new}
  Direct = {}
  Mixes = {{c1, c2, a1, stop}, {c1, a1, a2, stop}, {c1, c2, new}, {c1, a1, new}}
  Approvals = {c2}
  GoalMax = 1
  MayFail = {}
  GateSlots = 2
  PendingMax = 1
  InjectLimit = 1
  CycleMax = 1
  ContinuationMax = 1
  RunLoopYields = FALSE
PROPERTIES
  EverythingSettles
  AutomationSettled
  ImplementsSessionTurns
CHECK_DEADLOCK FALSE
