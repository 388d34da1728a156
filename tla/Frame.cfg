SPECIFICATION Spec
CONSTANTS
  WordBits = 3
  Length = 2
  PageSize = 8
  AlignUnit = 2
  PaddrMin = 16
  AddressSpace = 128
PROPERTY ImplementsFrameSet
