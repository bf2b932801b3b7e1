SPECIFICATION Spec
CONSTANTS
  NULL = NULL
  Reader = {r, s}
  Writer = {w}
  Idle = {i}
  Parent = {p}
  Repeats = FALSE
  Priority = {0}
  Lengths = {1}
  MAX_TEXT_LEN = 1
  MAX_NUM_MESSAGES_PER_MSG_QUEUE = 1
  MAX_NUM_MESSAGES = 3
  Descriptors = 6
  MaxFd = 1
INVARIANTS RoomWakesWriter
