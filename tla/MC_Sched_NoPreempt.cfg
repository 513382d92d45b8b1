\* A thread that neither yields nor returns runs on with no scheduler
\* step left: the behaviour ends in stuttering, not in a stop.
CONSTANTS
  NThreads = 3
  MaxStacks = 2
  Yielders = {}
  Creators <- MCBoot
  Returners = {}
SPECIFICATION Spec
PROPERTIES ReadyEventuallyRuns
CHECK_DEADLOCK FALSE
