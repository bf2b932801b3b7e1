\* Blocks of two bytes and entries of one; texts of up to five, so of three
\* blocks or far into free_list, and one length that is refused.
SPECIFICATION Spec
CONSTANTS
  TEXT_SIZE = 2
  INT_SIZE = 1
  MAX_NUM_MESSAGES = 4
  MAX_TEXT_LEN = 5
  Lengths = {0, 1, 2, 3, 5, 7}
INVARIANTS HeadsKept LastTextWhole AllocatorKnowsNext
