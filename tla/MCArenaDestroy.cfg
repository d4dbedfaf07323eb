SPECIFICATION Spec
CONSTANTS
  WORD = 32
  Pieces = {1, 2}
  ArenaSizes = {0, 4, 7}
  PushSizes = {1, 2, 3, 4, 8}
INVARIANT NoUseAfterFree
