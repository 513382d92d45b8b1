\* A tick during SYS_read on fd 0 parks the reader inside the syscall.
\* The CPU really stops (exit panic, fault, wait's hlt).
CONSTANTS
  NSlots <- MCNSlots
  MaxPid <- MCMaxPid
SPECIFICATION Spec
INVARIANT SyscallNotPreempted
CHECK_DEADLOCK FALSE
