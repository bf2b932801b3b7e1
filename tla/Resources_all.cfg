\* Two queues of one name; the queue of id 0 can be opened by id as well.
SPECIFICATION Spec
CONSTANTS
  Proc = {p0, p1}
  init_pcb = p0
  NULL = NULL
  Res = {r}
  Que = {q1, q2}
  Desc = {d1, d2}
  Name = {nm}
  MaxRid = 3
  MaxFd = 2
  Ids = {0}
  OpenTypes = {0, 1}
  Modes = {1, 2, 4}
INVARIANTS TypeOK DescriptorsSound NothingLost
PROPERTIES LastCloseDestroys
SYMMETRY Symmetry
