SPECIFICATION FairSpec
CONSTANTS
    w1 = w1
    w2 = w2
    c1 = c1
    c2 = c2
    Workers = {w1}
    Callers = {c1}
    NumRevisions = 2
    MaxAttempts = 2
    Batch = 1
    MaxFaults = 1
PROPERTIES CancellationsWin RevisionsSettle
