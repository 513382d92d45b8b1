\* SYS_wait on a live child, under weak fairness of every step: the hlt
\* runs with IF clear, so the waiter stays in the loop, which is where the
\* CPU stops.
CONSTANTS
  NSlots <- MCNSlots
  MaxPid <- MCMaxPid
SPECIFICATION FairSpec
PROPERTY WaitReturns
CHECK_DEADLOCK FALSE
