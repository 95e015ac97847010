\* Failed reads, lost receipts and a restart.
CONSTANTS
    a1 = a1
    a2 = a2
    c1 = c1
    c2 = c2
    c3 = c3
    None = None
    Agents = {a1, a2}
    Calls = {c1, c2, c3}
    Score <- RisingScore
    MaxAttempts = 2
    MaxFailures = 2
    MaxCrashes = 1
    Rehydrate = TRUE
SPECIFICATION Spec
SYMMETRY CallSymmetry
INVARIANT SingleFlight TerminalIsFinal BestBidWins
