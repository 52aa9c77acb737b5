SPECIFICATION Spec
CONSTANTS
  NumRegs = 3
  NumVals = 2
  NumAddrs = 3
  NumCells = 2
  MacReads = {1, 2}
  MacWrites = {2}
  None = None
  ProgInstrs <- MCProgInstrs
  DbgInstrs <- MCDbgInstrs
  PatchInstrs <- MCPatchInstrs
  DivCycles = 3
INVARIANTS
  FetchedIsAtPC
  LinkIsNext
  PortExclusive
  DivNotLost
PROPERTIES
  SwbreakStops
  ImplementsIsa
