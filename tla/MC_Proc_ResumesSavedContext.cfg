\* The zeroed context of a new process is resumed by a tick in the shell;
\* the CPU then halts in isr_fault_handler, so the system really may stop.
CONSTANTS
  NSlots <- MCNSlots
  MaxPid <- MCMaxPid
SPECIFICATION Spec
INVARIANT ResumesSavedContext
CHECK_DEADLOCK FALSE
