SPECIFICATION FairSpec
CONSTANTS
  Thread = {t1, t2, t3}
  Consumer = {t1, t2}
  Producer = {t3}
  Nobody = nobody
  MaxItems = 2
  CondWord = 3
  MaxRounds = 3
  BarrierWord = 2
  Cpus = {0, 1, 2}
  Bsp = 0
INVARIANTS
  MutexSound OnceSound  BarrierSound  NothingLost 
PROPERTIES WaitersReturn ReadersServed AllStart
CHECK_DEADLOCK FALSE
