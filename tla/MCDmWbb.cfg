SPECIFICATION FairSpec
CONSTANTS
  NumRows = 2
  Lane = {0, 1}
  Byte = {0, 1}
  Zero = 0
  NoLoad = NoLoad
INVARIANTS
  OneStoreWaits
PROPERTIES
  ImplementsMemory
  StoresReachMemory
