\* Three processes: one is hit, one takes its place, one starts the system again.
SPECIFICATION Spec
CONSTANTS
  Proc = {p, q, r}
  NULL = NULL
  MaxCalls = 2
INVARIANTS ContextsHold NobodyLost CpuIsRunnings
