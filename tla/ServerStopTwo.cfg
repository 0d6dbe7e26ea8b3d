SPECIFICATION FairSpec
CONSTANTS
  N = 2
  MaxWork = 0
PROPERTIES TerminateEndsThreads
CHECK_DEADLOCK FALSE
