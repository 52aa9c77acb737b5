SPECIFICATION MCSpec
CONSTANTS
  CAPACITY = 3
  Ctors = 2
  Dtors = 2
  MaxAtexit = 5
  FOPEN_MAX = 2
  StdFiles = {stdout}
  Stream = {1, 2, 3}
  NoStream = 0
  LONG_MAX = 15
  Digit <- Values
  Short = 4
  Long = 7
  UCHAR_MAX = 9
INVARIANTS
  TableOrdered
  FilesKept
  StringsExact
  NumbersExact
PROPERTIES
  SortExact
  ExitRunsLatestFirst
  ExitEnds
CHECK_DEADLOCK FALSE
