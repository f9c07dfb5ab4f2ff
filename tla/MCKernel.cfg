CONSTANTS
  h = h
  m = m
  l = l
  r = r
  LIST = LIST
  LOG = LOG
  Task = {h, m, l, r}
  Mutex = {LIST, LOG}
  IDLE = IDLE
  NONE = NONE
  FOREVER = FOREVER
  Priority <- MCPriority
  Uses <- MCUses
  QueueLength = 1
  MaxTicks = 2
SPECIFICATION Spec
INVARIANTS
  TypeOK
  NoLostWakeup
  HighestRuns
  Inherits
PROPERTIES
  RefinesTimedQueue
  TopIsServed
