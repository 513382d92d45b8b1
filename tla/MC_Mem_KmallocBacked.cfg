\* Frames run out while the kernel heap grows; a program's exit gives frames back.
CONSTANTS
  PageSize = 4
  Align = 2
  PtSpan = 2
  Frames <- MCFrames
  LowFrames <- MCLowFrames
  BootPT = 99
  KPde = 3
  KBase = 28
  KInit = 4
  KSizes <- MCKSizes
  KTop = 40
  UStack = 8
  UCode = 12
  CodeSize = 3
  BrkBase = 16
  SbrkIncs <- MCSbrkIncs
  UTop = 24
  MaxCalls = 3
  MaxRuns = 2
  MaxProcs = 1
SPECIFICATION Spec
INVARIANT KmallocBacked
CHECK_DEADLOCK FALSE
