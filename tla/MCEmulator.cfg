\* One program in a run; exited, aborted and blocked are ends, not deadlocks.
SPECIFICATION FairSpec
CHECK_DEADLOCK FALSE
CONSTRAINT NearDevices
CONSTANTS
  MemorySize = 20
  MemoryBegin = 0
  MemoryEnd = 20
  SerialBegin = 21
  SerialEnd = 22
  MaxStdin = 2
  MaxStdout = 2
  Characters <- MCCharacters
  Programs <- MCPrograms
INVARIANTS
  TypeOK
  ModeByPhase
  IndicesInBounds
  BusShowsMemory
  OpenBusFetchesZero
PROPERTIES
  OnlyStoresWrite
  EchoOnlyInput
  StrobeOnce
  TmpShadow
  EveryInstructionEnds
  ImplementsISA
