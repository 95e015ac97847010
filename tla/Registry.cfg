\* The registry, with two agents over its one GUARD account: every order of
\* registering, staking, withdrawing, promotion, scoring, slashing and leaving.
\* Two discoveries that invite two agents.
CONSTANTS
    a1 = a1
    a2 = a2
    Agents = {a1, a2}
    Registry = Registry
    Owner = Owner
    Callers = {"operator"}
    NoAddress = NoAddress
    CommodityMin = 4
    SpecializedMin = 8
    PremiumMin = 12
    SpecializedReputation = 7000
    PremiumReputation = 8500
    InitialReputation = 5000
    Amounts = {4}
    Deltas = {5000}
    Outcomes <- MCOutcomes
    SlashRates = {2500, 10000}
    Seeds = {10000}
    InitialBalance = 12
    MaxCompleted = 1
    Registered = 2
    Discoveries = {1, 2}
    MaxTroubles = 1
    MaxChanges = 1
SPECIFICATION RegistryAndInvitations
SYMMETRY AgentSymmetry
INVARIANT IInv StakesBacked SomebodyIsInvited
CHECK_DEADLOCK FALSE
