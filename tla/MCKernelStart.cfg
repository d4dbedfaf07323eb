SPECIFICATION Spec
CONSTANTS
  Screens <- MCScreens
  LogLength = 255
  MessageLength = 46
  MaxLog = 2
  MaxRow = 300
  Vectors = {14, 32, 255}
INVARIANTS NeverWaits OnScreen LinesApart SplashKept PanicComplete
PROPERTY StartEnds
