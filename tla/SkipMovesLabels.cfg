SPECIFICATION FairSpec
CHECK_DEADLOCK FALSE
CONSTANTS
  Sources <- SkipSources
  SectionOrder <- MCSectionOrder
INVARIANT LabelsAddressed
