SPECIFICATION Spec
CONSTANTS
  Proc = {p, q, r}
  NULL = NULL
  MaxCalls = 2
PROPERTIES AlarmOffInTrap
