SPECIFICATION FairSpec
CONSTANTS
    Calls = {c1, c2}
    Killers = {k1}
    Readers = {r1}
    MaxJobs = 1
    Stubborn = {c2}
    None = None
INVARIANTS RunningIsReachable OutputIsKept ResultIsGenuine
PROPERTIES CancelledCallReturns
CHECK_DEADLOCK FALSE
