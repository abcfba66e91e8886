\* Reading stops when the program is parsed or the process has given up.
SPECIFICATION FairFrontSpec
CHECK_DEADLOCK FALSE
CONSTANTS
  Disk <- MCDisk
  Inputs <- MCInputs
  Home <- MCHome
  MaxOpen = 4
INVARIANTS
  FrontTypeOK
  StacksMatch
  FromOwnDirectory
  DirectoryRestored
  ParsesAsWritten
  RejectsOnlyErrors
PROPERTIES
  ReadingEnds
  ImplementsInclude
