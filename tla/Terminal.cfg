SPECIFICATION TerminalSpec
CONSTANTS
  MaxItems = 3
  MaxLines = 2
  MaxHeight = 3
  Wheel = 2
  Gap = 1
  ViewSessions = {s1, s2}
  None = None
  Script <- CallOnly
  ChannelSize = 2
  MaxCmds = 2
  Sessions = {d1}
  KeyProviders = {k}
  OAuthProviders = {o}
  MaxDialogs = 3
  MaxMessages = 2
  MaxQueued = 1
  MaxRequests = 2
INVARIANTS ChatShowsSession AskedIsShown VerifyingIsAnswered EscapeIsForgotten
PROPERTIES FollowShowsTheEnd
SYMMETRY Symmetry
CHECK_DEADLOCK FALSE
