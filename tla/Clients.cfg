CONSTANTS
    h1 = h1
    h2 = h2
    n1 = n1
    n2 = n2
    Tasks = {h1, h2, n1, n2}
    High = {h1, h2}
    MaxHighStreak = 2
    Histories <- FeedHistories
    Polls = {1, 2}
    MaxServices = 2
    Backfill = 2
    FetchSize = 2
    MaxErrors = 1
    MaxCrashes = 2
SPECIFICATION Clients
INVARIANT BoundedOvertaking ShowsChain
PROPERTY EveryTaskIsSent ImplementsTwoClasses KeepsUp Mirrored
