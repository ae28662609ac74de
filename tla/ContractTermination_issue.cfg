SPECIFICATION Spec
CONSTANTS
    w1 = w1
    w2 = w2
    c1 = c1
    c2 = c2
    i1 = i1
    Workers = {w1}
    Callers = {c1}
    Issuers = {i1}
    Horizon = 1
    MaxFaults = 0
PROPERTIES IssuedWhileActive
CHECK_DEADLOCK FALSE
