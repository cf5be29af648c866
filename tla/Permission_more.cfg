CONSTANTS
  r1 = r1
  r2 = r2
  r3 = r3
  s1 = s1
  s2 = s2
  k1 = k1
  k2 = k2
  None = None
  Requesters = {r1, r2}
  Sessions = {s1, s2}
  Keys = {k1, k2}
  Allowed = {}
  MaxLost = 1
  SessionOf <- MCSessionOfTwo
  KeyOf <- MCKeyOfTwo
SPECIFICATION FairSpec
INVARIANTS TypeOK UiNeverBlocks DenialHolds OneQuestion GrantIsAnnounced
PROPERTIES CancelledCallReturns
