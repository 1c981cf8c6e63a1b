CONSTANTS
  t1 = t1
  t2 = t2
  t3 = t3
  NULL_thread = NULL_thread
  Threads = {t1, t2, t3}
  Strategies <- AnyStrategy
  Positions <- AnyPosition
  MaxNesting = 1
  UsesSemaphore = FALSE
  SpuriousWakeups = TRUE
  WaitErrors = TRUE
SPECIFICATION Spec
SYMMETRY Symmetry
INVARIANTS TypeOK MutualExclusion EntriesOfBlockedCalls
PROPERTIES ServedInOrder
