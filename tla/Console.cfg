SPECIFICATION Spec
CONSTANTS
  Rows = 2
  Cols = 3
  CursRange = 4
  TabWidth = 2
  IbufSize = 2
  Chars = {}
  KeysAhead = 1
INVARIANTS
  TypeOK
  NothingDropped
  LineAsEntered
  HandlersReady
  EchoShown
PROPERTIES
  KeysHandled
  LineTaken
CHECK_DEADLOCK FALSE
