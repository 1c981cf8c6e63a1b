CONSTANTS
  t1 = t1
  t2 = t2
  t3 = t3
  Threads = {t1, t2, t3}
  count = 3
  SpuriousWakeups = TRUE
SPECIFICATION FairSpec
INVARIANT RunningCounted
PROPERTIES ImplementsBarrier WaitersReturn
