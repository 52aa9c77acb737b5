SPECIFICATION CnnSpec
CONSTANTS
  Width = 4
  MaxSteps = 6
PROPERTIES
  SumSaturates
