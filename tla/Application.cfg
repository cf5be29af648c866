SPECIFICATION AppSpec
CONSTANTS
  Updates = 3
  BufferSize = 1
  EventsSize = 2
  None = None
  t1 = t1
  t2 = t2
  Tools <- TwoTools
  UserConfigured = FALSE
  MaxActors = 2
  MaxFaults = 1
INVARIANTS ClosedOnce NothingOutOfOrder MissedNeedsTimeout ServersAreReachable DocumentsAgree
PROPERTIES ShutdownReturns LastStateIsShown
CHECK_DEADLOCK FALSE
