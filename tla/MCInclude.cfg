\* Reading stops when the program is parsed or the process has given up.
SPECIFICATION FairSpec
CHECK_DEADLOCK FALSE
CONSTANTS
  a = a
  b = b
  c = c
  d = d
  Disk <- MCDisk
  Inputs <- MCInputs
  Home <- MCHome
  MaxOpen = 6
INVARIANTS
  TypeOK
  StacksMatch
  FromOwnDirectory
  DirectoryRestored
  IncludedInPlace
PROPERTY ReadingEnds
