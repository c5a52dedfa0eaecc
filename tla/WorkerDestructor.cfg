SPECIFICATION FairSpec
CONSTANTS
  t1 = t1
  t2 = t2
  t3 = t3
  Thunks = {t1, t2, t3}
  Timestamps = {1, 2}
  Stopping = {}
  MaxClear = 1
CHECK_DEADLOCK FALSE
PROPERTIES
  DestructorReturns
