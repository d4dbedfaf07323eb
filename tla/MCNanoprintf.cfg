SPECIFICATION PrintSpec
CONSTANTS
    Char <- Syntax
    CharValues = 4
    ShortValues = 8
    IntValues = 32
    LongValues = 32
    PtrValues = 128
    PtrDigits = 2
    ConvSize = 4
    FormatMax = 9
    BufferSize = 7
    Requests <- MCRequests
INVARIANTS PrintsAsC BufferHolds StaysInside
PROPERTY Ends
