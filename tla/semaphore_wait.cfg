CONSTANTS
  Thread = {t1, t2, t3}
  Value = 1
  MaxPosts = 2
SPECIFICATION Spec
INVARIANTS OkMeansAcquired
CHECK_DEADLOCK FALSE
