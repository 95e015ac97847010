---------------------------- MODULE AgentRegistry ----------------------------
(***************************************************************************)
(* The AgentRegistry contract: agents stake GUARD to enter the market, are *)
(* promoted, scored, slashed and suspended, and leave with what is left of *)
(* their stake.  A transaction is one action; one that reverts is no step. *)
(***************************************************************************)
EXTENDS Integers, FiniteSets, Functions

CONSTANTS
    Agents,             \* wallets that may register
    Registry,           \* the contract's own GUARD account
    Owner,              \* owner(), who receives slashed stake
    Callers,            \* addresses that may try to score or slash
    NoAddress,          \* address(0)
    CommodityMin, SpecializedMin, PremiumMin,   \* *_MIN_STAKE
    SpecializedReputation, PremiumReputation,   \* *_MIN_REPUTATION
    InitialReputation,  \* NEW_AGENT_INITIAL_REPUTATION
    Amounts,            \* GUARD an agent stakes, adds or withdraws in one call
    Deltas,             \* reputation deltas
    Outcomes,           \* <<validFindings, falsePos, falseNeg>> of a job
    SlashRates,         \* slash basis points
    Seeds,              \* reputations the owner seeds
    InitialBalance,     \* GUARD an agent starts with
    MaxCompleted        \* bound on completedJobs

ASSUME AccountsAssumption ==
    /\ IsFiniteSet(Agents)
    /\ Registry # Owner
    /\ Registry \notin Agents
    /\ Owner \notin Agents
    /\ NoAddress \notin Callers

ASSUME AmountsAssumption ==
    /\ CommodityMin \in Nat /\ SpecializedMin \in Nat /\ PremiumMin \in Nat
    /\ CommodityMin > 0 /\ CommodityMin <= SpecializedMin /\ SpecializedMin <= PremiumMin
    /\ SpecializedReputation \in Nat /\ PremiumReputation \in Nat
    /\ InitialReputation \in 0..10000
    /\ Amounts \subseteq Nat \ {0}
    /\ Deltas \subseteq Int
    /\ Outcomes \subseteq Nat \X Nat \X Nat
    /\ SlashRates \subseteq 1..10000
    /\ Seeds \subseteq 0..10000
    /\ InitialBalance \in Nat
    /\ MaxCompleted \in Nat

VARIABLES
    paused,
    orchestrator, auctionContract,  \* who may score; the first may also slash
    agents,         \* the profiles
    balance,        \* GUARD held by every account
    seized          \* per agent, the total of its AgentSlashed events

vars == <<paused, orchestrator, auctionContract, agents, balance, seized>>

-----------------------------------------------------------------------------

Accounts == Agents \cup {Registry, Owner}

AgentTier == 0..3       \* UNREGISTERED, COMMODITY, SPECIALIZED, PREMIUM
AgentStatus == {"INACTIVE", "ACTIVE", "SUSPENDED", "SLASHED"}

AgentProfile == [tier : AgentTier, status : AgentStatus, stake : Nat,
                 reputation : Nat, completedJobs : Nat]

NoProfile == [tier |-> 0, status |-> "INACTIVE", stake |-> 0,
              reputation |-> 0, completedJobs |-> 0]

NewProfile(amount) == [tier |-> 1, status |-> "ACTIVE", stake |-> amount,
                       reputation |-> InitialReputation, completedJobs |-> 0]

\* The wallet has registered before: agentAddress, like the tier, is set then
\* and never cleared.
Known(a) == agents[a].tier # 0

TierMinimumStake(tier) ==
    CASE tier = 3 -> PremiumMin
      [] tier = 2 -> SpecializedMin
      [] tier = 1 -> CommodityMin
      [] OTHER -> 0

MayScore(caller) == caller \in {orchestrator, auctionContract}

SlashShare(stake, bps) == (stake * bps) \div 10000

(***************************************************************************)
(* Faulty variants, one plausible slip each; no specification uses them.   *)
(***************************************************************************)
NeverSuspended(p, amount, bps) ==       \* forgets the commodity minimum
    [p EXCEPT !.stake = p.stake - amount,
              !.status = IF bps = 10000 THEN "SLASHED" ELSE p.status]
KeepsStakeOnExit(p) == [p EXCEPT !.status = "INACTIVE"] \* forgets to zero the stake

(***************************************************************************)
(* What the calls make of a profile.                                       *)
(***************************************************************************)

\* The profile once amount was slashed; the tier survives whatever is left.
Slashed(p, amount, bps) ==
    [p EXCEPT !.stake = p.stake - amount,
              !.status = IF bps = 10000 THEN "SLASHED"
                         ELSE IF p.stake - amount < CommodityMin THEN "SUSPENDED"
                         ELSE p.status]

\* The profile once amount was added to the stake.
Staked(p, amount) ==
    [p EXCEPT !.stake = p.stake + amount,
              !.status = IF p.status = "SUSPENDED" /\ p.stake + amount >= CommodityMin
                         THEN "ACTIVE" ELSE p.status]

Departed(p) == [p EXCEPT !.status = "INACTIVE", !.stake = 0]

\* A reputation moved by delta, kept within 0..10000.
Scored(reputation, delta) ==
    IF reputation + delta < 0 THEN 0
    ELSE IF reputation + delta > 10000 THEN 10000 ELSE reputation + delta

WithReputation(p, r) == [p EXCEPT !.reputation = r]

Rescored(p, delta) == WithReputation(p, Scored(p.reputation, delta))

JobDelta(outcome) == outcome[1] * 50 - outcome[2] * 100 - outcome[3] * 200

JobRecorded(p, outcome) ==
    [Rescored(p, JobDelta(outcome)) EXCEPT !.completedJobs = p.completedJobs + 1]

-----------------------------------------------------------------------------
(***************************************************************************)
(* The agents' own calls.                                                  *)
(***************************************************************************)

\* amount moves from one account to another, which must cover it.
Transfer(from, to, amount) ==
    /\ balance[from] >= amount
    /\ balance' = [balance EXCEPT ![from] = @ - amount, ![to] = @ + amount]

RegisterAgent(a, amount) ==
    /\ ~paused
    /\ amount >= CommodityMin
    /\ ~Known(a) \/ agents[a].status = "INACTIVE"
    /\ Transfer(a, Registry, amount)
    /\ agents' = [agents EXCEPT ![a] = NewProfile(amount)]
    /\ UNCHANGED <<paused, orchestrator, auctionContract, seized>>

AddStake(a, amount) ==
    /\ ~paused
    /\ Known(a)
    /\ agents[a].status \notin {"INACTIVE", "SLASHED"}
    /\ Transfer(a, Registry, amount)
    /\ agents' = [agents EXCEPT ![a] = Staked(@, amount)]
    /\ UNCHANGED <<paused, orchestrator, auctionContract, seized>>

RequestPromotion(a) ==
    /\ ~paused
    /\ agents[a].status = "ACTIVE"
    /\ \/ /\ agents[a].tier = 1
          /\ agents[a].reputation >= SpecializedReputation
          /\ agents[a].stake >= SpecializedMin
       \/ /\ agents[a].tier = 2
          /\ agents[a].reputation >= PremiumReputation
          /\ agents[a].stake >= PremiumMin
    /\ agents' = [agents EXCEPT ![a].tier = @ + 1]
    /\ UNCHANGED <<paused, orchestrator, auctionContract, balance, seized>>

\* Only an active agent must keep the minimum of its tier.
WithdrawStake(a, amount) ==
    /\ ~paused
    /\ Known(a)
    /\ amount <= agents[a].stake
    /\ agents[a].status = "ACTIVE" =>
         agents[a].stake - amount >= TierMinimumStake(agents[a].tier)
    /\ Transfer(Registry, a, amount)
    /\ agents' = [agents EXCEPT ![a].stake = @ - amount]
    /\ UNCHANGED <<paused, orchestrator, auctionContract, seized>>

DeregisterAgent(a) ==
    /\ ~paused
    /\ Known(a)
    /\ agents[a].status # "INACTIVE"
    /\ Transfer(Registry, a, agents[a].stake)
    /\ agents' = [agents EXCEPT ![a] = Departed(@)]
    /\ UNCHANGED <<paused, orchestrator, auctionContract, seized>>

-----------------------------------------------------------------------------
(***************************************************************************)
(* Scoring and slashing.                                                   *)
(***************************************************************************)

UpdateReputation(caller, a, delta) ==
    /\ ~paused
    /\ MayScore(caller)
    /\ Known(a)
    /\ agents' = [agents EXCEPT ![a] = Rescored(@, delta)]
    /\ UNCHANGED <<paused, orchestrator, auctionContract, balance, seized>>

RecordJobCompletion(caller, a, outcome) ==
    /\ ~paused
    /\ MayScore(caller)
    /\ Known(a)
    /\ agents[a].completedJobs < MaxCompleted
    /\ agents' = [agents EXCEPT ![a] = JobRecorded(@, outcome)]
    /\ UNCHANGED <<paused, orchestrator, auctionContract, balance, seized>>

\* amount of a's stake goes to the owner.
Seize(a, amount, bps) ==
    /\ Transfer(Registry, Owner, amount)
    /\ agents' = [agents EXCEPT ![a] = Slashed(@, amount, bps)]
    /\ seized' = [seized EXCEPT ![a] = @ + amount]

SlashAgent(caller, a, bps) ==
    /\ ~paused
    /\ caller = orchestrator
    /\ bps \in 1..10000
    /\ Known(a)
    /\ agents[a].stake > 0
    /\ \E amount \in 1..agents[a].stake :
         amount = SlashShare(agents[a].stake, bps) /\ Seize(a, amount, bps)
    /\ UNCHANGED <<paused, orchestrator, auctionContract>>

-----------------------------------------------------------------------------
(***************************************************************************)
(* The owner.                                                              *)
(***************************************************************************)

SetOrchestratorAndAuction(o, u) ==
    /\ orchestrator = NoAddress /\ auctionContract = NoAddress
    /\ orchestrator' = o
    /\ auctionContract' = u
    /\ UNCHANGED <<paused, agents, balance, seized>>

SeedAgentReputation(a, reputation) ==
    /\ Known(a)
    /\ agents[a].completedJobs = 0
    /\ agents' = [agents EXCEPT ![a] = WithReputation(@, reputation)]
    /\ UNCHANGED <<paused, orchestrator, auctionContract, balance, seized>>

SetPaused(p) ==
    /\ paused # p
    /\ paused' = p
    /\ UNCHANGED <<orchestrator, auctionContract, agents, balance, seized>>

-----------------------------------------------------------------------------

Init ==
    /\ paused = FALSE
    /\ orchestrator = NoAddress /\ auctionContract = NoAddress
    /\ agents = [a \in Agents |-> NoProfile]
    /\ balance = [c \in Accounts |-> IF c \in Agents THEN InitialBalance ELSE 0]
    /\ seized = [a \in Agents |-> 0]

AgentStep(a) ==
    \/ \E amount \in Amounts :
         RegisterAgent(a, amount) \/ AddStake(a, amount) \/ WithdrawStake(a, amount)
    \/ RequestPromotion(a)
    \/ DeregisterAgent(a)

ScoringStep(caller, a) ==
    \/ \E delta \in Deltas : UpdateReputation(caller, a, delta)
    \/ \E outcome \in Outcomes : RecordJobCompletion(caller, a, outcome)
    \/ \E bps \in SlashRates : SlashAgent(caller, a, bps)

OwnerStep ==
    \/ \E o, u \in Callers : SetOrchestratorAndAuction(o, u)
    \/ \E a \in Agents, reputation \in Seeds : SeedAgentReputation(a, reputation)
    \/ \E p \in BOOLEAN : SetPaused(p)

Next ==
    \/ \E a \in Agents : AgentStep(a)
    \/ \E caller \in Callers, a \in Agents : ScoringStep(caller, a)
    \/ OwnerStep

Spec == Init /\ [][Next]_vars

\* isActiveAgent and isEligibleForTier, what the auctions ask.
IsActiveAgent(a) == agents[a].status = "ACTIVE"

IsEligibleForTier(a, tier) ==
    /\ IsActiveAgent(a)
    /\ tier \in 1..agents[a].tier
    /\ agents[a].stake >= TierMinimumStake(tier)
    /\ tier = 2 => agents[a].reputation >= SpecializedReputation
    /\ tier = 3 => agents[a].reputation >= PremiumReputation
-----------------------------------------------------------------------------
(***************************************************************************)
(* Properties.                                                             *)
(***************************************************************************)

TypeOK ==
    /\ paused \in BOOLEAN
    /\ orchestrator \in Callers \cup {NoAddress}
    /\ auctionContract \in Callers \cup {NoAddress}
    /\ agents \in [Agents -> AgentProfile]
    /\ balance \in [Accounts -> Nat]
    /\ seized \in [Agents -> Nat]

\* Status and stake agree: only an agent with the commodity stake is ACTIVE,
\* one that is short of it is SUSPENDED until it adds stake, and one that left
\* or was slashed in full has none.  registerAgent, addStake, withdrawStake,
\* slashAgent and deregisterAgent each keep their own part of this.  Scores
\* stay within their range.
StandingMatchesStake ==
    \A a \in Agents :
      /\ agents[a].reputation <= 10000
      /\ ~Known(a) => agents[a] = NoProfile
      /\ agents[a].status = "ACTIVE" => agents[a].stake >= CommodityMin
      /\ agents[a].status = "SUSPENDED" => agents[a].stake < CommodityMin
      /\ agents[a].status \in {"INACTIVE", "SLASHED"} => agents[a].stake = 0

\* Every agent's GUARD is accounted for: what it holds, what it staked and
\* what was slashed from it add up to what it brought, through any sequence of
\* stakes, withdrawals, slashes, exits and returns.
NoStakeLost ==
    \A a \in Agents : balance[a] + agents[a].stake + seized[a] = InitialBalance

IInv == TypeOK /\ StandingMatchesStake /\ NoStakeLost

\* The registry's GUARD account holds exactly the stakes of all profiles, so
\* every withdrawal, exit and slash can be paid, and the owner holds exactly
\* what was slashed.
StakesBacked ==
    /\ balance[Registry] = SumFunction([a \in Agents |-> agents[a].stake])
    /\ balance[Owner] = SumFunction(seized)
=============================================================================
