\* With a process that loops and makes no system call (pid 1), and with a log
\* file.
SPECIFICATION FairSpec
CONSTANTS
  Block = {b1, b2, b3}
  NULL = NULL
  MaxPid = 4
  MaxTime = 2
  Sleeps = {0, 2}
  IdlePids = {1}
  Logging = TRUE
INVARIANTS
  IdleKeepsCpuBusy
PROPERTIES
  ReadyRuns
  SleeperWakes
