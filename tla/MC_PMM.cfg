\* Seven frames of memory in an 8-frame bitmap with reserved regions
\* (MC_PMM.tla), and every allocation and free call in any order.
CONSTANTS
  FrameSize <- MCFrameSize
  MaxFrames <- MCMaxFrames
  MemTop <- MCMemTop
  Regions <- MCRegions
  BelowLimits <- MCBelowLimits
SPECIFICATION Spec
INVARIANTS TypeOK FreeCountExact BitmapAccounted HeldBelowLimit
