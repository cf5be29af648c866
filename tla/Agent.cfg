CONSTANTS
  Prompts = {p1, p2, p3}
  Summarizers = {}
  Cancellers = {k1}
  Clearers = {}
  RecoveryEnabled = TRUE
  MaxRecoveries = 1
  MaxOverflow = 0
  Calls = {t1, t2, t3}
  MaxSteps = 3
  MaxFaults = 2
  CallerCancels = TRUE
SYMMETRY Symmetry
SPECIFICATION AgentSpec
INVARIANTS BusyEntryLive SoleRunReachable PromptsConserved NoPromptTwice TurnIsClosed AnsweredOnce OnlyFaultsAbandon
