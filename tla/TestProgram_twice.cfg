SPECIFICATION Spec_test
CONSTANTS
  NULL = NULL
  Reader = {consumer}
  Writer = {producer}
  Idle = {}
  Parent = {init, childFunc}
  init = init
  childFunc = childFunc
  consumer = consumer
  producer = producer
  Repeats = TRUE
  Priority = {0}
  Lengths = {1}
  MAX_TEXT_LEN = 1
  MAX_NUM_MESSAGES_PER_MSG_QUEUE = 1
  MAX_NUM_MESSAGES = 9
  Descriptors = 10
  MaxFd = 1
  ITERATIONS = 3
  Settled = TRUE
INVARIANTS WokenFromItsList
