SPECIFICATION Spec
CONSTANTS
  RootLength = 8
  Kernel = Kernel
  Other = Other
  Heads = 2
  Spt = 3
  NumSectors = 40
  SectorSize = 2
  DirEntrySize = 1
  FatEntrySize = 1
  Names <- MCNames
  BufSizes = {3, 12}
  Disks <- MCDisks
INVARIANTS
  LoadedIsFile
  ReadsInPartition
  OneBootable
  FoundIsFirst
PROPERTY FoundAndLoaded
CHECK_DEADLOCK FALSE
