\* Spec section 3's single RUNNING process, on the proc_safety instance:
\* a forked child that exits stays RUNNING beside the next run's process.
\* The CPU really stops (exit panic, fault, wait's hlt).
CONSTANTS
  NSlots <- MCNSlots
  MaxPid <- MCMaxPid
SPECIFICATION Spec
INVARIANT AtMostOneRunning
CHECK_DEADLOCK FALSE
