SPECIFICATION StringSpec
CONSTANTS
  WORD = 32
  Pieces = {1, 2}
  ArenaSizes = {0, 6}
  PushSizes = {1, 3, 7}
  Room = 6
  Names = {x, y}
  Literals <- MCLiterals
SYMMETRY NameSymmetry
INVARIANTS PushedApart UsedExact StringsIntact
