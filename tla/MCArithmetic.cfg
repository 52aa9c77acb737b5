SPECIFICATION MCSpec
CONSTANTS
  W = 3
  Width = 4
  MaxSteps = 6
  E = 4
  H = 2
  L = 4
  MaxInt = 63
  Far = 22
INVARIANTS
  SumIsExact
  LongLongExact
  RoundingExact
  RootExact
  RemainderExact
CHECK_DEADLOCK FALSE
