CONSTANTS
  Prompts = {p1}
  Summarizers = {s1}
  Cancellers = {k1}
  Clearers = {c1}
  RecoveryEnabled = TRUE
  MaxRecoveries = 2
  MaxOverflow = 1
  Calls = {t1, t2, t3}
  MaxSteps = 3
  MaxFaults = 2
  CallerCancels = TRUE
SPECIFICATION AgentFairSpec
PROPERTIES CancelStops CancelEndsTurn
