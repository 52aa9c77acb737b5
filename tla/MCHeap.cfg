SPECIFICATION Spec
CONSTANTS
  NrOfBlocks = 5
  SIZE_MAX = 59
  Sizes = {0, 13, 40}
  User = User
  Null = Null
INVARIANT HeapConsistent
PROPERTIES ImplementsAllocator CallReturns
