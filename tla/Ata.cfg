SPECIFICATION Spec
CONSTANTS
  Sectors = {s1, s2, s3}
  Words = 3
INVARIANTS
  DataIsSector
  FailureHasReason
PROPERTIES
  CommandWhenReady
  CallsReturn
CHECK_DEADLOCK FALSE
