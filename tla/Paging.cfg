SPECIFICATION Spec
CONSTANTS
  PageSize = 4
  AlignUnit = 2
  Entries = 5
  LowTables = 2
  HighTable = 3
  PaddrMax = 35
  DirFrame = 1
  FirstTable = 2
  ClientVaddrs = {20, 41, 44, 60, 62, 84}
  ClientPaddrs = {22, 24, 25, 36}
  None = None
INVARIANTS
  TlbFresh
  LookupAgrees
  FramesInRange
PROPERTY ImplementsPageMap
