SPECIFICATION FairSpec
CONSTANTS
  Workers = {w1, w2}
  IntentBound = 3
  MaxRetries = 1
  MaxCancelled = 2
  None = None
INVARIANTS ResultIsWhole NoIntentTwice
PROPERTY MultiplexReturns
CHECK_DEADLOCK FALSE
