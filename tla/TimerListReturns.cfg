SPECIFICATION FairSpec
CONSTANTS
  Timers = {t1, t2}
  NULL = NULL
  MaxTimeout = 2
PROPERTY CallsReturn
