SPECIFICATION MCSpec
CONSTANTS
  NumRows = 2
  ByteVals = 2
  StoreData <- MCStoreData
  NoLoad = NoLoad
PROPERTIES
  ImplementsRvMemory
  MovesAtomic
