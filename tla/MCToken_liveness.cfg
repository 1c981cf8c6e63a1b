CONSTANTS
  t1 = t1
  t2 = t2
  t3 = t3
  NULL_thread = NULL_thread
  Threads = {t1, t2, t3}
  Strategies <- OnlyFIFO
  Positions <- HeadOrTail
  MaxNesting = 1
  UsesSemaphore = TRUE
  SpuriousWakeups = FALSE
  WaitErrors = FALSE
SPECIFICATION FairSpec
INVARIANTS NestingMatches NoStrandedWaiters OwnerIsRunable NoLostWakeup
PROPERTIES WritersReturn SleepsOnlyUntilOwner
