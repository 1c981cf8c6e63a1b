CONSTANTS
  c1 = c1
  c2 = c2
  s1 = s1
  Threads = {c1, c2, s1}
  Clients = {c1, c2}
  Servers = {s1}
  MaxDepth = 3
  TimedCalls = {TRUE}
  Requests = TRUE
  Handlers = FALSE
  Defers = FALSE
  OutsideChanges = FALSE
  SpuriousWakeups = TRUE
  WaitErrors = FALSE
  ReactorErrors = TRUE
  DropReplies = FALSE
SPECIFICATION Spec
SYMMETRY Symmetry
INVARIANTS TypeOK LeadersCounted FollowersLinked UpcallsAbdicate ClientLeadsAlone NoStrandedFollowers NoStrandedEventLoop ReactorOpenForClients
