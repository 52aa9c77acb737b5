SPECIFICATION FairSpec
CONSTANTS
  W = 4
  Reg = {0, 5}
  None = None
INVARIANTS
  PartialDivision
PROPERTIES
  AnswersReference
  DivisionEnds
