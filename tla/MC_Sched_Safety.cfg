\* A thread parked in hlt with IF clear stops the CPU for good: the
\* system really may stop here.
CONSTANTS
  NThreads = 5
  MaxStacks = 4
  Yielders <- MCSafeYielders
  Creators <- MCBoot
  Returners <- MCSafeReturners
SPECIFICATION Spec
INVARIANTS TypeOK ContextsIntact NoThreadLost
CHECK_DEADLOCK FALSE
