SPECIFICATION FairSpec
CONSTANTS
  c1 = c1
  c2 = c2
  g1 = g1
  r1 = r1
  r2 = r2
  Producers = {p1}
  Readers = {r1, r2}
  Cursors = {g1}
  CursorOf <- GroupOf2
  Groups = {g1}
  Needs = {1, 2}
  Pipes = {r2}
  Wants = {2}
  MaxItems = 2
  TokenCap = 2
  MaxTail = 2
  MayRemove = FALSE
  MayCancel = TRUE
  MayClose = TRUE
INVARIANTS
  NobodySleepsOn
PROPERTIES
  CursorMoves
  CloseEndsWaits
  CloseReturns
CHECK_DEADLOCK FALSE
