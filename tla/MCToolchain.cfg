\* The emulator stops when the program halts or faults.
SPECIFICATION ToolSpec
CHECK_DEADLOCK FALSE
CONSTANTS
  Sources <- MCSources
  Disk <- MCDisk
  Inputs <- MCInputs
  Home <- MCHome
  MaxOpen = 3
  SectionOrder <- MCSectionOrder
  Characters <- MCCharacters
  MemorySize = 95
  MemoryBegin = 0
  MemoryEnd = 95
  SerialBegin = 96
  SerialEnd = 97
  MaxStdin = 1
  MaxStdout = 4
INVARIANTS
  ExpansionCorrect
  ExecutesProgram
PROPERTY PrintsMessage
