SPECIFICATION FairSpec
CONSTANTS
  None = None
  Tasks = {t1, t2}
  Callers = {turn}
  Executions = {e1, e2, e3}
  StopIn = {"run"}
  LateIn = {"run"}
  MaxQuestions = 2
  MaxDeaths = 2
INVARIANTS
  OneExecution
PROPERTIES
  RunningResolves
CHECK_DEADLOCK FALSE
