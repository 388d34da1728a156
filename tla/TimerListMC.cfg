SPECIFICATION Spec
CONSTANTS
  Timers = {t1, t2, t3}
  NULL = NULL
  MaxTimeout = 2
SYMMETRY TimerSymmetry
INVARIANTS
  TypeOK
  LinksAgree
  HeadReachesAll
  TriggeredNotListed
  NeverEarly
  WalkVisitsOnce
  SkipOnlyBehindTrigger
  ListedAsAsked
PROPERTY ImplementsTimerSet
