CONSTANTS
  c1 = c1
  c2 = c2
  s1 = s1
  Threads = {c1, c2, s1}
  Clients = {c1, c2}
  Servers = {s1}
  MaxDepth = 3
  TimedCalls = {FALSE}
  Requests = TRUE
  Handlers = TRUE
  Defers = FALSE
  OutsideChanges = FALSE
  SpuriousWakeups = FALSE
  WaitErrors = FALSE
  ReactorErrors = FALSE
  DropReplies = FALSE
SPECIFICATION Spec
SYMMETRY Symmetry
INVARIANT NoStrandedFollowers
