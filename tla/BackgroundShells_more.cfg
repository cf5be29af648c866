SPECIFICATION FairSpec
CONSTANTS
    Calls = {c1, c2}
    Killers = {k1}
    Readers = {r1}
    MaxJobs = 1
    Stubborn = {c2}
    None = None
CHECK_DEADLOCK FALSE
INVARIANTS TypeOK
PROPERTIES ReaderWakes KillAllEnds
