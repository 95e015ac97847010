\* Two delegators of two agents: rewards that do not divide evenly, and slashes;
\* or a vault with two depositors and two monitors; or a listing with two buyers,
\* with room for two purchases or any number; or two sub-jobs of three agents, one
\* of which won a job (the collateral is odd, so that its shares are rounded).  The
\* same two accounts, d1 and d2, delegate, deposit, trade and bid: they are
\* interchangeable in every part, and one symmetry set does for all.
CONSTANTS
    d1 = d1
    d2 = d2
    Delegators = {d1, d2}
    Agents = {a1, a2}
    Self = Self
    Treasury = Treasury
    HbarPool = HbarPool
    Distributor = Distributor
    Amounts = {2}
    Earnings = {4}
    RewardShares = {2500}
    DefaultRewardBps = 5000
    SlashRates = {5000, 10000}
    MinDelegation = 2
    MaxDelegatorsPerAgent = 2
    UnbondingPeriod = 1
    PRECISION = 4
    DelegatorFunds = 2
    HbarPoolFunds = 0
    RewardFunds = 2
    MaxTime = 1
    Depositors = {d1, d2}
    Monitors = {"m1", "m2"}
    Configs <- GenerousOrMean
    Draws = {2}
    Rates = {1, 2}
    Week = 2
    DepositorFunds = 2
    Traders = {s, d1, d2}
    Capacities = {0, 2}
    SubscriptionPeriod = 2
    Lifetimes = {0, 1}
    MaxPurchases = 3
    MaxListings = 1
    VaultTime = 3
    MarketTime = 3
    Parties = {w1, d1, d2}
    Winners = {w1}
    SubTreasury = SubTreasury
    Nobody = Nobody
    Offers = {3}
    Asks = {0, 2}
    Collaterals = {5}
    MaxSubJobs = 2
SPECIFICATION StakeAndServices
SYMMETRY DelegatorSymmetry
INVARIANTS
    DelegationsCovered
    VaultWithinLimits
    PaidTimeIsKept
    SubJobsBalance
PROPERTIES
    EarnedOnlyByDistribution
