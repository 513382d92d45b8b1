\* A thread that neither yields nor returns runs on with no scheduler
\* step left: the behaviour ends in stuttering, not in a stop.
CONSTANTS
  NThreads = 4
  MaxStacks = 3
  Yielders <- MCCreatedYield
  Creators <- MCTwoCreators
  Returners = {}
SPECIFICATION Spec
INVARIANTS NoThreadLost
CHECK_DEADLOCK FALSE
