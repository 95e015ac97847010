CONSTANTS
    j1 = j1
    j2 = j2
    c1 = c1
    c2 = c2
    c3 = c3
    None = None
    Jobs = {j1}
    Calls = {c1, c2, c3}
    MaxAttempts = 2
    MaxFaults = 1
    MaxCrashes = 0
SPECIFICATION Spec
SYMMETRY CallSymmetry
INVARIANT OneHandlerPerJob
