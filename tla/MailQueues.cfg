SPECIFICATION FairSpec
CONSTANTS
    w1 = w1
    w2 = w2
    w3 = w3
    Workers = {w1, w2, w3}
    Queues = {"notices", "terminations", "requests"}
    Cap = 2
    MaxChanges = 2
    MaxRetries = 1
    MaxFaults = 3
INVARIANTS TypeOK CopiesPaidFor
PROPERTIES NoticesAreTrue MailSettles
CHECK_DEADLOCK FALSE
