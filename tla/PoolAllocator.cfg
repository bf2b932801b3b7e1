\* Five blocks of two bytes: enough for every order of allocations and
\* releases to permute the chain.
SPECIFICATION Spec
CONSTANTS
  size_max = 5
  item_size = 2
  Offsets <- NearBuffer
INVARIANTS
  FreeListIsChain
PROPERTIES
  ImplementsBlockPool
