SPECIFICATION Spec
CONSTANTS
  MAX_COMPONENT = 3
  INITIAL_CAPACITY = 1
  GROWTH = 2
  Lists <- MCLists
  Values = {v}
  MaxEntities = 3
  MaxPlaces = 2
INVARIANTS LossContained NeverShared DeletedRefused FreePlacesIdle
PROPERTY KeepsStore
