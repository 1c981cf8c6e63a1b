CONSTANTS
  t1 = t1
  t2 = t2
  e1 = e1
  e2 = e2
  Null = Null
  Threads = {t1, t2}
  Handles <- OneHandle
  notify_handle = 4
  EventHandlers = {e1, e2}
  Masks <- ReadWrite
  AppResumes = {}
  Timers = TRUE
  Calls <- LeavesSuspension
  Reopens = FALSE
  TimedWaits = TRUE
  SelectFails = TRUE
  MaxPipe = 2
SPECIFICATION Spec
SYMMETRY Symmetry
INVARIANTS TypeOK SetsConsistent OneUpcallPerHandler SuspendedForUpcall
