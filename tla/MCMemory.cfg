CONSTANTS
  HeapSize = 21
  HeaderSize = 1
  NULL = NULL
  INFO = INFO
  CLI = CLI
  NONE = NONE
  Worker = {w1, w2}
  WorkerSize = {7}
  MaxHeld = 1
  SizeOf <- MCSizeOf
  Rows = 2
  DbSize = 5
  Strings = 1
  MaxLost = 4
SPECIFICATION Spec
INVARIANTS
  TypeOK
  HeapTiled
  TraceExact
  BlocksHaveOneHolder
PROPERTIES
  FailsOnlyWhenFull
CHECK_DEADLOCK FALSE
