SPECIFICATION FrontSpec
CHECK_DEADLOCK FALSE
CONSTANTS
  Disk <- MCDisk
  Inputs <- MCInputs
  Home <- MCHome
  MaxOpen = 4
INVARIANT OperatorsGroup
