CONSTANTS
  b1 = b1
  b2 = b2
  b3 = b3
  p1 = p1
  p2 = p2
  c1 = c1
  c2 = c2
  Threads = {p1, p2, c1, c2}
  Producers = {p1, p2}
  Consumers = {c1, c2}
  Blocks = {b1, b2, b3}
  Size <- SizeOf
  Priority <- PriorityOf
  Deadline <- DeadlineOf
  EnqueueOps = {"tail"}
  DequeueOps = {"head"}
  HighMarks = {1, 2}
  LowMarks = {0, 1, 2}
  MaxChain = 1
  Flushes = FALSE
  Pulses = FALSE
  SpuriousWakeups = TRUE
  TimeoutTakesSignal = FALSE
SPECIFICATION FairSpec
INVARIANTS ConsumersTold ProducersTold
PROPERTIES MessagesDelivered ProducersProgress
