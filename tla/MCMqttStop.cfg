CONSTANTS
  c1 = c1
  c2 = c2
  s1 = s1
  s2 = s2
  Client = {c1, c2}
  Socket = {s1}
  NULL = NULL
  QueueLength = 2
  MaxNoise = 0
  Prio <- AppPrio
  MaxSockets = 2
  MaxFaults = 0
  MaxSessions = 2
  MaxClients = 2
  MaxTimerFaults = 1
  StopAllowed = TRUE
  SlowBackoff = FALSE
SYMMETRY Symmetry
SPECIFICATION Spec
INVARIANTS
  SocketCustody
  StoppedIsGone
