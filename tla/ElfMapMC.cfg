SPECIFICATION ElfSpec
CONSTANTS
  PageSize = 4
  AlignUnit = 2
  Entries = 5
  LowTables = 2
  HighTable = 3
  PaddrMax = 39
  DirFrame = 1
  FirstTable = 2
  ClientVaddrs = {}
  ClientPaddrs = {}
  None = None
  ImageAt = 28
  ImageSize = 8
  KernelAt = 20
  MemszMax = 8
  VaddrMin = 20
  VaddrMax = 79
  Images <- MCImages
INVARIANTS
  ImageInPlace
  OthersKept
  IdentityKept
PROPERTY Answered
