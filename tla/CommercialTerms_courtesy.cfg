SPECIFICATION FairSpec
CONSTANTS
    k1 = k1
    k2 = k2
    h1 = h1
    h2 = h2
    t1 = t1
    t2 = t2
    x = x
    y = y
    Contracts = {k1}
    First = k1
    Cloud = {k1}
    Established = TRUE
    Handlers = {h1}
    Timers = {t1, t2}
    Keys = {x, y}
    Horizon = 3
    MaxRequests = 2
    Currencies = {"BRL"}
    Offered = {"courtesy", "free"}
    Ahead = 2
    Period = 1
    Grace = 1
    Slack = 1
INVARIANTS VersionsInOrder
PROPERTIES PastStands ExpiredCourtesyEnds
CHECK_DEADLOCK FALSE
