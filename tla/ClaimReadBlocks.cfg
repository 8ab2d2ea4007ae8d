SPECIFICATION FairSpec
CONSTANTS
  c1 = c1
  c2 = c2
  g1 = g1
  r1 = r1
  r2 = r2
  Producers = {p1}
  Readers = {r1}
  Cursors = {c1}
  CursorOf <- OneReader
  Groups = {}
  Needs = {1}
  Pipes = {}
  Wants = {1}
  MaxItems = 2
  TokenCap = 2
  MaxTail = 2
  MayRemove = FALSE
  MayCancel = FALSE
  MayClose = FALSE
PROPERTIES
  ReadAlwaysWakes
CHECK_DEADLOCK FALSE
