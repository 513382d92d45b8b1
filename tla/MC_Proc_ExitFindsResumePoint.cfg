\* A leaked child that exits before the next run arms its resume point
\* reaches the dispatcher's cli; hlt, where the CPU really stops.
CONSTANTS
  NSlots <- MCNSlots
  MaxPid <- MCMaxPid
SPECIFICATION Spec
INVARIANT ExitFindsResumePoint
CHECK_DEADLOCK FALSE
