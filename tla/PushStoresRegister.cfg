SPECIFICATION FairSpec
CHECK_DEADLOCK FALSE
CONSTRAINT FirstInstructions
CONSTANTS
  MemorySize = 20
  MemoryBegin = 0
  MemoryEnd = 20
  SerialBegin = 21
  SerialEnd = 22
  MaxStdin = 1
  MaxStdout = 1
  Characters <- DocCharacters
  Programs <- DocPrograms
PROPERTY PushStoresRegister
