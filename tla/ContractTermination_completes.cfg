SPECIFICATION FairSpec
CONSTANTS
    w1 = w1
    w2 = w2
    c1 = c1
    c2 = c2
    i1 = i1
    Workers = {w1}
    Callers = {c1, c2}
    Issuers = {}
    Horizon = 1
    MaxFaults = 2
PROPERTIES ImplementsEnd TerminationsComplete
CHECK_DEADLOCK FALSE
