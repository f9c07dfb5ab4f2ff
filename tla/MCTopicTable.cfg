CONSTANTS
  NULL = NULL
  q1 = q1
  q2 = q2
  t1 = t1
  t2 = t2
  t3 = t3
  r1 = r1
  r2 = r2
  Writer = {main}
  Reader = {r1, r2}
  Queue = {q1, q2}
  Topic = {t1, t2, t3}
  Callback = {cb}
  TableSize = 3
  SubTableSize = 2
  main = main
  cb = cb
SYMMETRY Symmetry
SPECIFICATION Spec
INVARIANTS
  TypeOK
  PutsGoHome
  RegisteredIsFound
  OneRowPerTopic
  RouteServesSubscribers
PROPERTIES
  RowsAreFinal
