\* The memory layer under frame exhaustion: kernel heap growth, one or two
\* programs with sbrk and fork, failed loads, and the release at exit.
CONSTANTS
  PageSize = 4
  Align = 2
  PtSpan = 2
  Frames <- MCFrames
  LowFrames <- MCLowFrames
  BootPT = 99
  KPde = 3
  KBase = 28
  KInit = 4
  KSizes <- MCKSizes
  KTop = 40
  UStack = 8
  UCode = 12
  CodeSize = 3
  BrkBase = 16
  SbrkIncs <- MCSbrkIncs
  UTop = 24
  MaxCalls = 3
  MaxRuns = 2
  MaxProcs = 2
SPECIFICATION Spec
INVARIANTS TypeOK BlocksDisjoint NoDanglingMapping
\* Once the model bounds on calls and runs are used up no step is enabled.
CHECK_DEADLOCK FALSE
