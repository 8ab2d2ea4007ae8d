SPECIFICATION FairSpec
CONSTANTS
  c1 = c1
  c2 = c2
  g1 = g1
  r1 = r1
  r2 = r2
  Producers = {p1}
  Readers = {r1, r2}
  Cursors = {c1, c2}
  CursorOf <- TwoReaders
  Groups = {}
  Needs = {1}
  Pipes = {}
  Wants = {1}
  MaxItems = 2
  TokenCap = 2
  MaxTail = 2
  MayRemove = FALSE
  MayCancel = FALSE
  MayClose = FALSE
PROPERTIES
  ReadWakes
CHECK_DEADLOCK FALSE
