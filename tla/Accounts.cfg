SPECIFICATION AccountsSpec
CONSTANTS
  Payloads <- SomePayloads
  Usages = {0, 30}
  Heap <- SomeHeap
  TypeSize <- SomeTypes
  FlatTypes <- SomeFlat
  MaxInt = 127
  Huge = 64
  MaxDepth = 4
  MaxVisited = 3
  MaxMemory = 40
  Overhead = 2
  Latencies = {1, 2}
  Samples = 3
  Percent = 60
  MaxHistory = 2
  MaxRecords = 4
  MaxReads = 4
INVARIANTS
  TypeOK
  CacheTransparent
  AdmittedFits
  KeepsTheLatest
  PercentileSplits
CHECK_DEADLOCK FALSE
