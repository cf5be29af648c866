CONSTANTS
  Prompts = {p1}
  Summarizers = {}
  Cancellers = {}
  Clearers = {}
  RecoveryEnabled = TRUE
  MaxRecoveries = 2
  MaxOverflow = 0
  Calls = {t1}
  MaxSteps = 1
  MaxFaults = 0
  CallerCancels = FALSE
SPECIFICATION AgentSpec
INVARIANTS RecoveredIsRetried
