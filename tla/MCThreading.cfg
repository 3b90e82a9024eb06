SPECIFICATION FairSpec
CONSTANTS
  Threads = {t1, t2, t3}
  NULL = NULL
INVARIANTS Excludes 
PROPERTIES ReturnsUnlessAbandoned
CHECK_DEADLOCK FALSE
