SPECIFICATION LiveSpec
CONSTANTS
  Updates = 1
  BufferSize = 1
  EventsSize = 1
  None = None
  t1 = t1
  t2 = t2
  Tools <- TwoTools
  UserConfigured = TRUE
  MaxActors = 2
  MaxFaults = 2
INVARIANTS ShownAsReadyIsReady
PROPERTIES CallsEnd
CHECK_DEADLOCK FALSE
