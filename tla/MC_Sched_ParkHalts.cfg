\* A thread that neither yields nor returns runs on with no scheduler
\* step left: the behaviour ends in stuttering, not in a stop.
CONSTANTS
  NThreads = 3
  MaxStacks = 2
  Yielders <- MCOne
  Creators <- MCBoot
  Returners <- MCOne
SPECIFICATION Spec
PROPERTIES ReadyEventuallyRuns
CHECK_DEADLOCK FALSE
