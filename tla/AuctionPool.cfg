\* Two agents bid on two jobs that share the GUARD account of the contract:
\* every order of bids, updates, selection, settlement and slashing of both.
CONSTANTS
    a1 = a1
    a2 = a2
    Agents = {a1, a2}
    Contract = Contract
    Treasury = Treasury
    MinBidCollateral = 20
    Prices = {20, 40}
    Collaterals = {20, 40}
    Budgets = {40}
    Durations = {1}
    Payments = {19}
    FeePercents = {5}
    FundingAmounts = {20}
    InitialBalance = 40
    MaxJobs = 2
    MaxTime = 1
    MaxFunding = 20
SPECIFICATION Spec
SYMMETRY AgentSymmetry
INVARIANTS
    IInv
    PoolAccounting
    SlashedJobNeverCompletes
PROPERTIES
    BidsFrozenAfterAuction
    PaidOnce
    ImplementsEscrow
