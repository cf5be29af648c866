CONSTANTS
  Prompts = {p1}
  Summarizers = {}
  Cancellers = {}
  Clearers = {}
  RecoveryEnabled = FALSE
  MaxRecoveries = 0
  MaxOverflow = 0
  Calls = {t1, t2}
  MaxSteps = 2
  MaxFaults = 1
  CallerCancels = TRUE
SPECIFICATION AgentSpec
INVARIANT CancelledTurnIsClosed
