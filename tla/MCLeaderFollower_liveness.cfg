CONSTANTS
  c1 = c1
  s1 = s1
  Threads = {c1, s1}
  Clients = {c1, s1}
  Servers = {s1}
  MaxDepth = 3
  TimedCalls = {FALSE}
  Requests = TRUE
  Handlers = FALSE
  Defers = FALSE
  OutsideChanges = FALSE
  SpuriousWakeups = FALSE
  WaitErrors = FALSE
  ReactorErrors = FALSE
  DropReplies = FALSE
SPECIFICATION FairSpec
PROPERTIES InvocationsReturn ServersLeave
