SPECIFICATION Spec
CONSTANTS
  Frames = {1, 2, 3, 4, 5, 6}
  Requests = {2500, 2560, 5100}
INVARIANTS LiveIntact ChunksTile CountersExact FreeListExact PagesExact
PROPERTY KeepsPieces
