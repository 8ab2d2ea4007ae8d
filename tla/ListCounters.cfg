SPECIFICATION Spec
CONSTANTS
  Producers = {p1, p2}
  Nobody = Nobody
  Sizes = {1, 2}
  MaxBatch = 2
  ChunkNodeSize = 2
  MaxMemory = 11
  MaxItems = 5
  TTLs = {0}
  MayDisable = TRUE
  LastStamp = 1
  MaxTime = 1
  ChunkSize = 2
  MaxChunks = 3
  ClockTicks = TRUE
INVARIANTS
  TypeOK
  CountersAreExact
  WithinLimits
  OnlyBackOpen
  NextLeadsOn
  RemovedIsDrained
PROPERTIES
  HolesBehindExpired
CHECK_DEADLOCK FALSE
