SPECIFICATION Spec
CONSTANTS
  Screens <- MCScreens
  Layouts <- OneLayout
  ConfigTables <- OneTable
  PAGE_SIZE = 4
  InfoSize = 3
  LogLength = 255
  MessageLength = 59
  Page = {p1, p2, p3, p4, p5, p6}
  ImagePages = 2
  MaxTables = 1
  MaxEvents = 0
  FileKinds = {"kernel"}
SYMMETRY PageSymmetry
INVARIANT HandOver
