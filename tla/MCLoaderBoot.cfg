SPECIFICATION Spec
CONSTANTS
  Screens <- MCScreens
  Layouts <- MCLayouts
  ConfigTables <- MCTables
  PAGE_SIZE = 4
  InfoSize = 3
  LogLength = 255
  MessageLength = 59
  Page = {p1, p2, p3, p4, p5, p6}
  ImagePages = 2
  MaxTables = 1
  MaxEvents = 1
  FileKinds = {"missing", "unreadable", "uncounted", "other", "kernel"}
SYMMETRY PageSymmetry
INVARIANTS TypeOK KernelPlaced ImageKept SectionsPlaced LoaderReadable
