\* Four PCBs: a grandchild can be adopted while init and another process go on,
\* and blocks are used again by any of the pids.
SPECIFICATION Spec
CONSTANTS
  Block = {b1, b2, b3, b4}
  NULL = NULL
  MaxPid = 4
  MaxTime = 1
  Sleeps = {0, 1}
  IdlePids = {}
  Logging = FALSE
SYMMETRY Symmetry
INVARIANTS
  TypeOK
  OnePlace
  StatusMatchesList
  SleepersHaveTimers
  TimerPoolSuffices
  FamilyTree
  UniquePids
  NoMissedChild
PROPERTIES
  ReapedByItsKeeper
  WokenForAReason
  PtrsLostAtHandover
  ImplementsLifecycle
