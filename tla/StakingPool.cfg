\* Two agents: every order of staking, unbonding, locking, slashing and appeals.
CONSTANTS
    a1 = a1
    a2 = a2
    Agents = {a1, a2}
    Manager = Manager
    Treasury = Treasury
    NoAddress = NoAddress
    Amounts = {2}
    SlashRates = {5000, 10000}
    MinStakeForActive = 2
    UnbondingPeriod = 1
    AppealWindow = 0
    InitialBalance = 4
    MaxSlashes = 2
    MaxTime = 1
SPECIFICATION Spec
SYMMETRY AgentSymmetry
INVARIANT IInv EscrowBacked
PROPERTY FreezeHolds
