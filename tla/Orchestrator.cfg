\* Every expired auction ends, in spite of a failure and a restart; every audit
\* that a schedule triggers is announced; every slash reaches the delegators, once.
CONSTANTS
    a1 = a1
    a2 = a2
    c1 = c1
    c2 = c2
    c3 = c3
    None = None
    Agents = {a1}
    Calls = {c1, c2}
    Score <- OneScore
    MaxAttempts = 2
    MaxFailures = 1
    MaxCrashes = 1
    Rehydrate = TRUE
    MaxSchedules = 2
    MaxTriggers = 2
    MaxTroubles = 2
    SlashIds = {1, 2}
    MaxMishaps = 2
SPECIFICATION Orchestrator
INVARIANT OneChain
PROPERTY ExpiredAuctionEnds TriggeredIsDiscovered DelegatorsPay
CHECK_DEADLOCK FALSE
