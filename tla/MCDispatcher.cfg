CONSTANTS
  d1 = d1
  d2 = d2
  t1 = t1
  t2 = t2
  t3 = t3
  p1 = p1
  b1 = b1
  NULL = NULL
  Dispatcher = {d1, d2}
  Publisher = {p1}
  Topic = {t1, t2, t3}
  Owner <- MCOwner
  NumSlots = 3
  SlotTopic <- MCSlotTopic
  Emits <- MCEmits
  QueueLength = 2
  Buffer = {b1}
  MaxAccepted = 4
SPECIFICATION Spec
INVARIANTS
  TypeOK
  BufferOwnership
  QueueIsSuffix
  HandledOnceInOrder
PROPERTIES
  PublishReturns
  EventuallyDelivered
  RefinesTopicBus
