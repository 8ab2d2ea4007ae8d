SPECIFICATION Spec
CONSTANTS
  c1 = c1
  c2 = c2
  g1 = g1
  t1 = t1
  t2 = t2
  t3 = t3
  Cursors = {c1}
  Groups = {}
  Threads = {t1}
  CursorOf <- OneAlone
  NoCursor = NoCursor
  NoticeCap = 0
  MayClose = FALSE
  ChunkSize = 2
  MaxChunks = 2
  ClockTicks = FALSE
INVARIANTS
  ReadsAllData
CHECK_DEADLOCK FALSE
