SPECIFICATION Spec
CONSTANTS
    w1 = w1
    w2 = w2
    c1 = c1
    Workers = {w1, w2}
    Cancellers = {c1}
    Kinds = {"downgrade"}
    PaidUntil = 1
    Grace = 1
    Horizon = 2
    MaxMoves = 1
    MaxFaults = 0
INVARIANT CompletedStands
CHECK_DEADLOCK FALSE
