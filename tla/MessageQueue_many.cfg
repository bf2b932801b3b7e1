SPECIFICATION FairSpec
CONSTANTS
  NULL = NULL
  Reader = {r, s}
  Writer = {w, x}
  Idle = {}
  Parent = {p}
  Repeats = FALSE
  Priority = {0, 1}
  Lengths = {1, 2}
  MAX_TEXT_LEN = 1
  MAX_NUM_MESSAGES_PER_MSG_QUEUE = 2
  MAX_NUM_MESSAGES = 3
  Descriptors = 5
  MaxFd = 1
INVARIANTS ListsHold WaitersAreWaiting MessagesCounted PtrsAccounted NobodyStuck
PROPERTIES ReadInOrder ReadyRuns
