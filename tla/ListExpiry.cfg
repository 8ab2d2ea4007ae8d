SPECIFICATION FairSpec
CONSTANTS
  Producers = {p1, p2}
  Nobody = Nobody
  Sizes = {1}
  MaxBatch = 2
  ChunkNodeSize = 1
  MaxMemory = 6
  MaxItems = 0
  TTLs = {1, 2}
  MayDisable = FALSE
  LastStamp = 2
  MaxTime = 5
  ChunkSize = 2
  MaxChunks = 2
  ClockTicks = FALSE
PROPERTIES
  EverythingExpires
  SweepIsThorough
CHECK_DEADLOCK FALSE
