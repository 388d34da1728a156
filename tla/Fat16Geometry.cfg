SPECIFICATION Spec
CONSTANTS
  RootLength = 10
  Kernel = Kernel
  Other = Other
  Heads = 2
  Spt = 3
  NumSectors = 50
  SectorSize = 2
  DirEntrySize = 1
  FatEntrySize = 1
  Names <- MCNames
  BufSizes = {3, 12}
  Disks <- MCDisks
INVARIANT LoadedIsFile
CHECK_DEADLOCK FALSE
