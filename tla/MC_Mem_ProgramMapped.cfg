\* Frames never run out; a program forks and one of its processes exits.
CONSTANTS
  PageSize = 4
  Align = 2
  PtSpan = 2
  Frames <- MCManyFrames
  LowFrames <- MCManyLow
  BootPT = 99
  KPde = 3
  KBase = 28
  KInit = 4
  KSizes <- MCKSizes
  KTop = 40
  UStack = 8
  UCode = 12
  CodeSize = 3
  BrkBase = 16
  SbrkIncs <- MCSbrkIncs
  UTop = 24
  MaxCalls = 3
  MaxRuns = 2
  MaxProcs = 2
SPECIFICATION Spec
INVARIANT ProgramMapped
CHECK_DEADLOCK FALSE
