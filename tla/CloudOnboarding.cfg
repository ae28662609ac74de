SPECIFICATION FairSpec
CONSTANTS
    c1 = c1
    c2 = c2
    e1 = e1
    e2 = e2
    Calls = {c1, c2}
    Erasers = {e1}
    Horizon = 2
    MaxEvents = 1
    MaxFaults = 2
INVARIANTS TypeOK ReceiptAgrees
PROPERTIES OnboardingCompletes
CHECK_DEADLOCK FALSE
