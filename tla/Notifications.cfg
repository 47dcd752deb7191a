SPECIFICATION FairSpec
CONSTANTS
  Devices = {d1}
  Tasks = {t1, t2}
  Capacity = 2
  MaxVersion = 2
  MaxDisconnects = 2
INVARIANTS
  TypeOK
  SettledCurrent
  NothingMissed
PROPERTIES
  ClosedRemoved
  Converges
CHECK_DEADLOCK FALSE
