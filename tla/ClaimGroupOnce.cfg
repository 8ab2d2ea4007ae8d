SPECIFICATION Spec
CONSTANTS
  c1 = c1
  c2 = c2
  g1 = g1
  t1 = t1
  t2 = t2
  t3 = t3
  Cursors = {g1}
  Groups = {g1}
  Threads = {t1,t2,t3}
  CursorOf <- GroupOf3
  NoCursor = NoCursor
  NoticeCap = 0
  MayClose = FALSE
  ChunkSize = 1
  MaxChunks = 2
  ClockTicks = FALSE
INVARIANTS
  DeliveredInOrder
CHECK_DEADLOCK FALSE
