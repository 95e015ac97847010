\* A fee paid for one job out of the collateral locked for another.
CONSTANTS
    a1 = a1
    a2 = a2
    Agents = {a1, a2}
    Contract = Contract
    Treasury = Treasury
    MinBidCollateral = 20
    Prices = {20, 40}
    Collaterals = {20}
    Budgets = {40}
    Durations = {1}
    Payments = {}
    FeePercents = {5}
    FundingAmounts = {20}
    InitialBalance = 40
    MaxJobs = 2
    MaxTime = 0
    MaxFunding = 40
SPECIFICATION Spec
SYMMETRY AgentSymmetry
INVARIANT CancelRefundsCovered
