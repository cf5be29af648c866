SPECIFICATION Spec
CONSTANTS
  SubAgents = {a1}
  TodoCalls = {t1}
  Steps = {s1}
  Titles = {g1}
  Renames = {r1}
  Dialogs = {d1}
  Summarizers = {c1}
  Compactors = {k1}
  MaxWriters = 5
  None = None
INVARIANTS LossNeedsOverlap TurnKeepsItsSteps SummaryResolves
CHECK_DEADLOCK FALSE
