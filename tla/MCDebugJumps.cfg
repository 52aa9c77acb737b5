SPECIFICATION MCFairSpec
CONSTANTS
  NumRegs = 2
  NumVals = 2
  NumAddrs = 4
  NumCells = 1
  MacReads = {}
  MacWrites = {}
  None = None
  ProgInstrs <- MCJumpInstrs
  DbgInstrs <- MCDbgInstrs
  PatchInstrs = {}
  DivCycles = 2
  Bps = {b1}
  NoBpBehind = {"br", "jal", "jalr"}
PROPERTIES
  BreakpointHolds
  HaltFollows
  NoHazardDeadlock
