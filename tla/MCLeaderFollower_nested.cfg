CONSTANTS
  c1 = c1
  s1 = s1
  Threads = {c1, s1}
  Clients = {c1, s1}
  Servers = {s1}
  MaxDepth = 4
  TimedCalls = {FALSE}
  Requests = TRUE
  Handlers = TRUE
  Defers = TRUE
  OutsideChanges = TRUE
  SpuriousWakeups = FALSE
  WaitErrors = TRUE
  ReactorErrors = TRUE
  DropReplies = TRUE
SPECIFICATION Spec
INVARIANTS CompletionWakes DeferredWillResume
\* The threads may all end up waiting for each other here: see the run
\* leader_follower_handlers_strand.
CHECK_DEADLOCK FALSE
