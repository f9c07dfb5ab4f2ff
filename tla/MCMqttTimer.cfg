CONSTANTS
  c1 = c1
  c2 = c2
  s1 = s1
  s2 = s2
  Client = {c1}
  Socket = {s1, s2}
  NULL = NULL
  QueueLength = 3
  MaxNoise = 0
  Prio <- FlatPrio
  MaxSockets = 2
  MaxFaults = 1
  MaxSessions = 2
  MaxClients = 2
  MaxTimerFaults = 1
  StopAllowed = FALSE
  SlowBackoff = FALSE
SPECIFICATION Spec
INVARIANTS
  NeverStranded
