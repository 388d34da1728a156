SPECIFICATION Spec
CONSTANTS
  Timers = {t1, t2}
  NULL = NULL
  MaxTimeout = 2
INVARIANT EveryTickCounts
