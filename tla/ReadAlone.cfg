SPECIFICATION PollingSpec
CONSTANTS
  c1 = c1
  c2 = c2
  g1 = g1
  t1 = t1
  t2 = t2
  t3 = t3
  Cursors = {c1}
  Groups = {}
  Threads = {t1}
  CursorOf <- OneAlone
  NoCursor = NoCursor
  NoticeCap = 1
  MayClose = TRUE
  ChunkSize = 2
  MaxChunks = 2
  ClockTicks = FALSE
INVARIANTS
  TypeOK
  DeliversWhatWasEnqueued
  QueriesAreExact
PROPERTIES
  OnlyLateItemsMissed
  CountIsUnread
  ImplementsLog
  TryReadReturns
  KeepsUp
CHECK_DEADLOCK FALSE
