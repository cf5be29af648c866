SPECIFICATION Spec
CONSTANTS
  SubAgents = {a1, a2}
  TodoCalls = {}
  Steps = {s1}
  Titles = {}
  Renames = {}
  Dialogs = {}
  Summarizers = {}
  Compactors = {}
  MaxWriters = 5
  None = None
SYMMETRY Symmetric
INVARIANT ParentCostAccumulates
CHECK_DEADLOCK FALSE
