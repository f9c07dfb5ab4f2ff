CONSTANTS
  b1 = b1
  b2 = b2
  p = p
  NULL = NULL
  Timer = {b1, b2, p}
  Periodic = {p}
  Period <- MCPeriod
  TickLimit = 11
  QueueLength = 1
  DeleteWait = 1
  MaxLate = 2
SPECIFICATION Spec
INVARIANTS
  TypeOK
PROPERTIES
  RefinesTimerService
