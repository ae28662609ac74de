SPECIFICATION Spec
CONSTANTS
    w1 = w1
    w2 = w2
    c1 = c1
    c2 = c2
    i1 = i1
    Workers = {w1, w2}
    Callers = {c1, c2}
    Issuers = {i1}
    Horizon = 1
    MaxFaults = 2
SYMMETRY Symmetry
INVARIANTS TypeOK EnrolledEndsByTermination
PROPERTIES ClosedForGood PaidPeriodKept
CHECK_DEADLOCK FALSE
