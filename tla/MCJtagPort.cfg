SPECIFICATION JtagFairSpec
CONSTANTS
  Instrs <- MCInstrs
  Words <- MCWords
  MinTicks = 1
  None = None
PROPERTIES
  CapturedIsCurrent
  EveryCommandOnce
  EveryWordOnce
