SPECIFICATION Spec
CONSTANTS
  Lines <- MCLines
  BufSize = 16
  MemSize = 18
  VecLen = 4
  TableLen = 2
  StrMax = 2
  OctMax = 3
  DecMax = 2
  HexMax = 2
  NumRange = 256
  ByteRange = 16
INVARIANT LineUnderstood
PROPERTY StoreAsTyped
