SPECIFICATION FairSpec
CONSTANTS
    RestrictAfter = 1
    SuspendAfter = 2
    Enforced = TRUE
    Cycle = 1
    SelfHosted = TRUE
    Horizon = 2
    MaxEvents = 2
INVARIANTS TypeOK OneMeaningPerVersion NeverAhead CyclesAllowed NoticesFollow NoEarlySanction
PROPERTIES ImplementsRegister DecisionsSettle DueCyclesOpen
CHECK_DEADLOCK FALSE
