\* Frames never run out and no program forks; two programs run in turn and call sbrk.
CONSTANTS
  PageSize = 4
  Align = 2
  PtSpan = 2
  Frames <- MCManyFrames
  LowFrames <- MCManyLow
  BootPT = 99
  KPde = 3
  KBase = 28
  KInit = 4
  KSizes <- MCKSizes
  KTop = 40
  UStack = 8
  UCode = 12
  CodeSize = 3
  BrkBase = 16
  SbrkIncs <- MCSbrkIncs
  UTop = 24
  MaxCalls = 3
  MaxRuns = 2
  MaxProcs = 1
SPECIFICATION Spec
INVARIANT SbrkBacked
CHECK_DEADLOCK FALSE
