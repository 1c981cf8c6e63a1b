CONSTANTS
  b1 = b1
  b2 = b2
  b3 = b3
  t1 = t1
  t2 = t2
  t3 = t3
  Threads = {t1, t2, t3}
  Producers = {t1, t2}
  Consumers = {t2, t3}
  Blocks = {b1, b2, b3}
  Size <- SizeOf
  Priority <- PriorityOf
  Deadline <- DeadlineOf
  EnqueueOps = {"head", "tail", "prio", "deadline"}
  DequeueOps = {"head", "tail", "prio", "deadline", "peek"}
  HighMarks = {2}
  LowMarks = {0, 1}
  MaxChain = 2
  Flushes = TRUE
  Pulses = TRUE
  SpuriousWakeups = TRUE
  TimeoutTakesSignal = TRUE
SPECIFICATION Spec
INVARIANTS TypeOK NobodySleepsDeactivated
PROPERTY NeverOverfilled
