SPECIFICATION Spec
CONSTANTS
    w1 = w1
    w2 = w2
    c1 = c1
    c2 = c2
    Workers = {w1, w2}
    Callers = {c1, c2}
    NumRevisions = 1
    MaxAttempts = 2
    Batch = 1
    MaxFaults = 2
SYMMETRY Symmetry
INVARIANTS TypeOK AttemptsPaidFor
PROPERTIES LeaseRespected ImplementsLedger
