SPECIFICATION FairSpec
CHECK_DEADLOCK FALSE
CONSTANTS
  Sources <- SecinfoSources
  SectionOrder <- MCSectionOrder
INVARIANT LabelsAddressed
