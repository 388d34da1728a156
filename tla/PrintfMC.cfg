SPECIFICATION PrintfSpec
CONSTANTS
  Rows = 2
  Cols = 3
  CursRange = 4
  TabWidth = 2
  IntRange = 32
  Char <- MCChar
  Null <- MCNull
  Scripts <- MCScripts
INVARIANTS
  FieldAsAsked
  WithinFormat
  OutputShown
CHECK_DEADLOCK FALSE
