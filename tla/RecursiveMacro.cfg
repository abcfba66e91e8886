SPECIFICATION FairSpec
CHECK_DEADLOCK FALSE
CONSTANTS
  Sources <- RecursiveSources
  SectionOrder <- MCSectionOrder
PROPERTY ExpansionEnds
