SPECIFICATION Spec
CONSTANTS
    k1 = k1
    k2 = k2
    h1 = h1
    h2 = h2
    t1 = t1
    t2 = t2
    x = x
    y = y
    Contracts = {k1, k2}
    First = k1
    Cloud = {k1}
    Established = TRUE
    Handlers = {h1, h2}
    Timers = {}
    Keys = {x}
    Horizon = 2
    MaxRequests = 2
    Currencies = {"BRL", "USD"}
    Offered = {"paid"}
    Ahead = 1
    Period = 1
    Grace = 0
    Slack = 1
SYMMETRY Symmetry
INVARIANTS TypeOK OneCurrency NoTwoChanges
PROPERTIES PastStands
CHECK_DEADLOCK FALSE
