SPECIFICATION Spec
CONSTANTS
  Sessions = {s1, s2}
  MaxStamp = 3
  MaxTime = 2
  MaxFaults = 1
  InitialEndings = {TRUE}
  Absent = Absent
SYMMETRY Symmetric
INVARIANTS WritesCanBeUndone
PROPERTY LossNeedsRace
CHECK_DEADLOCK FALSE
