SPECIFICATION FairSpec
CONSTANTS
  Callers = {t1, t2}
  Worker = w
  Consumers = {c1, c2}
  Groups = {g1}
  Names = {n1}
  Evicts = TRUE
  None = None
INVARIANTS
  TypeOK
  SnapshotIsCurrent
  NoneLeftOpen
  MembersHaveTheirGroup
  NoSendOnClosed
  NobodyIsStuck
PROPERTIES
  OperationsFinish
CHECK_DEADLOCK FALSE
