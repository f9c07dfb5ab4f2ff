CONSTANTS
  d = d
  b = b
  SPACE = SPACE
  BACKSPACE = BACKSPACE
  ENTER = ENTER
  UNPRINTABLE = UNPRINTABLE
  NUL = NUL
  FOREIGN = FOREIGN
  Letter = {d, b}
  BufferSize = 4
  QueueLength = 2
  ArgcValues = 4
  Injected <- MCInjected
SPECIFICATION Spec
INVARIANTS
  TypeOK
  CommandHasName
PROPERTIES
  EditsLines
