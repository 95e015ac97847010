CONSTANTS
    Handlers = {1, 2, 3}
    Threshold = 2
    MaxFindings = 2
    MaxReports = 1
    MaxTroubles = 1
    Contracts = {"c1", "c2"}
    Discoveries = {1, 2, 3}
    MaxAttempts = 2
    MaxMishaps = 1
    Cycles = {1, 2}
    MaxContracts = 4
    FetchLimit = 3
    Cap = 2
    MaxMisfortunes = 1
SPECIFICATION Services
INVARIANT SettledOnce RecordsMatchChain ScannedOnce
PROPERTY DueIsPaid DiscoveredIsPosted
CHECK_DEADLOCK FALSE
