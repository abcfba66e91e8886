\* The assembler stops when it has written its file or died.
SPECIFICATION FairSpec
CHECK_DEADLOCK FALSE
CONSTANTS
  Sources <- MCSources
  SectionOrder <- MCSectionOrder
INVARIANTS
  TypeOK
  ExpansionCorrect
  LabelPlaced
  OperandsReachLabels
  SymbolTable
PROPERTIES
  AssemblyEnds
  ImplementsTranslation
