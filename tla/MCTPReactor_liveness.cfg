CONSTANTS
  t1 = t1
  t2 = t2
  e1 = e1
  Null = Null
  Threads = {t1, t2}
  Handles <- OneHandle
  notify_handle = 4
  EventHandlers = {e1}
  Masks <- ReadOnly
  AppResumes = {e1}
  Timers = TRUE
  Calls <- AnyCall
  Reopens = TRUE
  TimedWaits = FALSE
  SelectFails = FALSE
  MaxPipe = 2
SPECIFICATION FairSpec
INVARIANT ReferencesCounted
PROPERTIES CallsReturn NotificationsDispatched DeactivatedLeave
