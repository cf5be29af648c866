SPECIFICATION Spec
CONSTANTS
  Sessions = {s1}
  MaxStamp = 5
  MaxTime = 2
  MaxFaults = 1
  InitialEndings = {TRUE}
  Absent = Absent
INVARIANT HistoryDoesNotFail
CHECK_DEADLOCK FALSE
