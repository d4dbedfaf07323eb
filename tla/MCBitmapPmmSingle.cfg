SPECIFICATION Spec
CONSTANTS
  c1 = c1
  c2 = c2
  c3 = c3
  Client = {c1, c2, c3}
  MemMaps <- AnyMaps
  Amounts = {1}
  PAGE_SIZE = 2
INVARIANTS Exclusive NoPageLost ReservedKept UsageMatchesGrants
PROPERTIES KeepsPromise
