SPECIFICATION Spec
CONSTANTS
  Item = {a, b, c, d}
  List = {ready, waiting}
  NULL = NULL
INVARIANTS NeverRefused
PROPERTIES ImplementsSequences PlacedBehind
