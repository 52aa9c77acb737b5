SPECIFICATION MCSpec
CONSTANTS
  NumRegs = 2
  NumVals = 2
  NumAddrs = 3
  NumCells = 1
  MacReads = {}
  MacWrites = {}
  None = None
  ProgInstrs <- MCProgInstrs
  DbgInstrs <- MCDbgInstrs
  PatchInstrs <- MCPatchInstrs
  DivCycles = 2
  Bps = {b1}
  NoBpBehind = {}
INVARIANTS
  ReleasedCount
  HaltReported
PROPERTIES
  DrivesPipeline
  BreakpointStops
  HaltStays
