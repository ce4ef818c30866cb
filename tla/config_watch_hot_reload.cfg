\* Two revisions; neither the stream nor a read ever fails.
CONSTANTS
  MaxRev = 2
  MaxBreaks = 0
  LoadFaults = FALSE
SPECIFICATION FairSpec
PROPERTIES
  HotReloads
CHECK_DEADLOCK FALSE
