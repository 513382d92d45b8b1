\* Three slots and pids up to 5: enough for a run, a fork, a run after an
\* exit that leaves a child behind, and a full table with slot reuse.  The
\* CPU really stops in the SYS_exit panic, in isr_fault_handler and in the
\* hlt loop of process_wait, so deadlock is not checked.
CONSTANTS
  NSlots <- MCNSlots
  MaxPid <- MCMaxPid
SPECIFICATION Spec
INVARIANTS TypeOK PidsUnique CallerIsCurrent ShellFrameUnique
CHECK_DEADLOCK FALSE
