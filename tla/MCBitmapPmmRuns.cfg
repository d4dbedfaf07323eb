SPECIFICATION Spec
CONSTANTS
  c1 = c1
  c2 = c2
  c3 = c3
  Client = {c1, c2}
  MemMaps <- RoomyMaps
  Amounts = {3, 11, 40}
  PAGE_SIZE = 2
SYMMETRY Symmetry
INVARIANTS ByteBoundaryExclusive SearchComplete
