CONSTANTS
  c1 = c1
  c2 = c2
  s1 = s1
  s2 = s2
  Client = {c1, c2}
  Socket = {s1, s2}
  NULL = NULL
  QueueLength = 3
  MaxNoise = 1
  Prio <- FlatPrio
  MaxSockets = 2
  MaxFaults = 1
  MaxSessions = 2
  MaxClients = 2
  MaxTimerFaults = 0
  StopAllowed = FALSE
  SlowBackoff = FALSE
SYMMETRY Symmetry
SPECIFICATION Spec
INVARIANTS
  TypeOK
  SocketCustody
  OneLifeline
  SessionOnItsSocket
  NoticesAreCurrent
PROPERTIES
  RefinesClientLife
  HealthySessionKept
