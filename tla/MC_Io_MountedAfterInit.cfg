\* With device faults: a boot with an ext2 module ends with a mounted file system.
CONSTANTS
  BSz = 2
  NDirect = 2
  MaxFd = 5
  Vals = {0, 1}
  Zero = 0
  Meta = Meta
  ItBlk = 1
  DirBlk = 8
  DataBlks <- MCDataBlks
  NoBlk = 99
  RootIno = 2
  Inode <- MCInode
  Dir <- MCDir
  DirEntries <- MCDirEntries
  Names = {"a", "b", "c", "d", "x"}
  ModData <- MCModData
  DiskData <- MCDiskData
  DiskFaults = TRUE
  FdArgs = {2, 3, 4, 5}
  LenArgs = {1, 3}
  DataArgs <- MCDataArgs
  ListLens = {3, 13}
  MaxOps = 4
  W = 2
  H = 2
  SB = 2
  Letters = {"a", "m"}
  NL = NL
  BS = BS
  CR = CR
  Blank = Blank
  Nul = Nul
  Texts <- MCTexts
  MsgChar = "m"
INIT IoInit
INVARIANT MountedAfterInit
NEXT IoNext
\* Once MaxOps calls are made no step is enabled; the kernel itself goes on.
CHECK_DEADLOCK FALSE
