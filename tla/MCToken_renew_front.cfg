CONSTANTS
  t1 = t1
  t2 = t2
  NULL_thread = NULL_thread
  Threads = {t1, t2}
  Strategies <- OnlyFIFO
  Positions <- AnyPosition
  MaxNesting = 0
  UsesSemaphore = FALSE
  SpuriousWakeups = FALSE
  WaitErrors = FALSE
SPECIFICATION FairSpec
PROPERTIES SleepsOnlyUntilOwner
CHECK_DEADLOCK FALSE
