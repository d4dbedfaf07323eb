SPECIFICATION Spec
CONSTANTS
  ENTRIES = 4
  Boots <- MCBoots
  ClientPages <- MCClientPages
  DeviceFrames = {40, 41}
INVARIANTS TablesFormTree KernelRuns CacheCoherent
PROPERTY OthersUntouched
