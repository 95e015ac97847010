-------------------------- MODULE DelegatedStaking --------------------------
(***************************************************************************)
(* The DelegatedStaking contract: GUARD that delegators put behind an      *)
(* agent earns a share of the agent's rewards and shares its slashes.      *)
(* Rewards are booked per delegated token in an accumulator of the pool;   *)
(* a delegation remembers up to where it was paid.  A transaction is one   *)
(* action; one that reverts, or returns early, is no step.  The calls in   *)
(* HBAR differ from those in GUARD in who pays or is paid: HbarPool.       *)
(***************************************************************************)
EXTENDS Integers, FiniteSets, Functions

CONSTANTS
    Agents,
    Delegators,
    Self,               \* the contract's own GUARD account
    Treasury,
    HbarPool,           \* exchanges HBAR and GUARD
    Distributor,        \* may distribute rewards
    Amounts,            \* GUARD delegated or undelegated in one call
    Earnings,           \* GUARD earned by an agent for one audit
    RewardShares,       \* basis points an agent may offer
    DefaultRewardBps,
    SlashRates,         \* basis points of the slashes
    MinDelegation,
    MaxDelegatorsPerAgent,
    UnbondingPeriod,
    PRECISION,          \* accumulator units of one GUARD per token
    DelegatorFunds,     \* GUARD a delegator, the HbarPool and the distributor have
    HbarPoolFunds,
    RewardFunds,
    MaxTime             \* bound on the clock

ASSUME AccountsAssumption ==
    /\ IsFiniteSet(Agents) /\ IsFiniteSet(Delegators)
    /\ Self \notin {Treasury, HbarPool, Distributor}
    /\ HbarPool # Treasury /\ Distributor \notin {Treasury, HbarPool}
    /\ Delegators \cap {Self, Treasury, HbarPool, Distributor} = {}

ASSUME AmountsAssumption ==
    /\ Amounts \cup Earnings \subseteq Nat \ {0}
    /\ RewardShares \subseteq 100..5000
    /\ DefaultRewardBps \in 0..5000
    /\ SlashRates \subseteq 0..10000
    /\ MinDelegation \in Nat \ {0}
    /\ PRECISION \in Nat \ {0}
    /\ {MaxDelegatorsPerAgent, UnbondingPeriod, DelegatorFunds, HbarPoolFunds,
        RewardFunds, MaxTime} \subseteq Nat

VARIABLES
    now,                \* block.timestamp
    paused,
    agentPools,
    delegations,        \* of every agent, by delegator
    totalDelegatedAllAgents,
    balance             \* GUARD held by every account

vars == <<now, paused, agentPools, delegations, totalDelegatedAllAgents, balance>>

-----------------------------------------------------------------------------

Accounts == Delegators \cup {Self, Treasury, HbarPool, Distributor}

Pool == [known : BOOLEAN, total : Nat, stored : Nat, bps : Nat, count : Nat]

Delegation == [active : BOOLEAN, amount : Nat, unbonding : Nat, completeAt : Nat,
               pending : Nat, paid : Nat]

NoPool == [known |-> FALSE, total |-> 0, stored |-> 0, bps |-> 0, count |-> 0]

NoDelegation == [active |-> FALSE, amount |-> 0, unbonding |-> 0, completeAt |-> 0,
                 pending |-> 0, paid |-> 0]

Transfer(payer, payee, amount) ==
    /\ balance[payer] >= amount
    /\ balance' = [balance EXCEPT ![payer] = @ - amount, ![payee] = @ + amount]

Monus(m, n) == IF m >= n THEN m - n ELSE 0

Share(amount, bps) == (amount * bps) \div 10000

\* _computePending: what a delegation earned since it was last settled.
Earned(d, pool) == (d.amount * (pool.stored - d.paid)) \div PRECISION

\* _settlePending
Settled(d, pool) == [d EXCEPT !.pending = @ + Earned(d, pool), !.paid = pool.stored]

(***************************************************************************)
(* Faulty variants, one plausible slip each; no specification uses them.   *)
(***************************************************************************)
JoinedUnsettled(d, pool, amount) ==     \* new stake earns what went before it
    [d EXCEPT !.active = TRUE, !.paid = IF d.active THEN @ ELSE pool.stored,
              !.amount = @ + amount]

ClosedAlways(d) ==                      \* closed although part of it is still delegated
    [d EXCEPT !.unbonding = 0, !.completeAt = 0, !.active = FALSE]

(***************************************************************************)
(* The operators of the contract.                                          *)
(***************************************************************************)
\* A new delegation starts at the accumulator, one that grows is settled first.
Joined(d, pool, amount) ==
    [(IF d.active THEN Settled(d, pool) ELSE [d EXCEPT !.active = TRUE, !.paid = pool.stored])
       EXCEPT !.amount = @ + amount]

\* The pool a first delegation sets up.
Opened(pool) ==
    IF pool.known THEN pool ELSE [pool EXCEPT !.known = TRUE, !.bps = DefaultRewardBps]

Backed(pool, amount, joined) ==
    [Opened(pool) EXCEPT !.total = @ + amount, !.count = @ + joined]

\* What is left below the minimum leaves with the rest.
Leaving(d, amount) == IF d.amount - amount < MinDelegation THEN d.amount ELSE amount

Left(d, pool, amount) ==
    [Settled(d, pool) EXCEPT !.amount = @ - Leaving(d, amount),
                             !.unbonding = Leaving(d, amount),
                             !.completeAt = now + UnbondingPeriod]

\* The end of an unbonding closes a delegation with nothing left in it.
Completed(d) ==
    [d EXCEPT !.unbonding = 0, !.completeAt = 0, !.active = d.amount > 0]

Claimed(d, pool) == [Settled(d, pool) EXCEPT !.pending = 0]

Claimable(d, pool) == d.pending + Earned(d, pool)

\* propagateSlash passes over a delegation with nothing but unbonding stake.
Slashable(d) == d.active /\ d.amount > 0

Slashed(d, bps) ==
    LET amount    == d.amount - Share(d.amount, bps)
        unbonding == d.unbonding - Share(d.unbonding, bps)
    IN IF Slashable(d)
       THEN [d EXCEPT !.amount = amount, !.unbonding = unbonding,
                      !.active = amount + unbonding > 0]
       ELSE d

\* A field of all of an agent's delegations, added up.
Sum(of(_), a) == SumFunction([d \in Delegators |-> of(delegations[a][d])])

-----------------------------------------------------------------------------

\* delegate, and delegateWithHbar, whose payer is the HbarPool.
Delegate(d, a, amount, payer) ==
    LET dl == delegations[a][d] IN
    /\ ~paused
    /\ amount >= MinDelegation
    /\ dl.active \/ agentPools[a].count < MaxDelegatorsPerAgent
    /\ Transfer(payer, Self, amount)
    /\ delegations' = [delegations EXCEPT ![a][d] = Joined(@, agentPools[a], amount)]
    /\ agentPools' = [agentPools EXCEPT ![a] =
                        Backed(@, amount, IF dl.active THEN 0 ELSE 1)]
    /\ totalDelegatedAllAgents' = totalDelegatedAllAgents + amount
    /\ UNCHANGED <<now, paused>>

RequestUndelegate(d, a, amount) ==
    LET dl == delegations[a][d] IN
    /\ ~paused
    /\ dl.active
    /\ amount <= dl.amount
    /\ dl.unbonding = 0
    /\ agentPools[a].total >= Leaving(dl, amount)
    /\ delegations' = [delegations EXCEPT ![a][d] = Left(@, agentPools[a], amount)]
    /\ agentPools' = [agentPools EXCEPT ![a].total = @ - Leaving(dl, amount)]
    /\ totalDelegatedAllAgents' = totalDelegatedAllAgents - Leaving(dl, amount)
    /\ UNCHANGED <<now, paused, balance>>

\* completeUndelegate, and completeUndelegateToHbar, whose payee is the HbarPool.
CompleteUndelegate(d, a, payee) ==
    LET dl == delegations[a][d] IN
    /\ dl.active
    /\ dl.unbonding > 0
    /\ now >= dl.completeAt
    /\ Transfer(Self, payee, dl.unbonding)
    /\ delegations' = [delegations EXCEPT ![a][d] = Completed(@)]
    /\ agentPools' = [agentPools EXCEPT ![a].count = IF dl.amount = 0 THEN @ - 1 ELSE @]
    /\ UNCHANGED <<now, paused, totalDelegatedAllAgents>>

DistributeRewards(a, earned) ==
    LET share == Share(earned, agentPools[a].bps) IN
    /\ agentPools[a].known
    /\ agentPools[a].total > 0
    /\ share > 0
    /\ Transfer(Distributor, Self, share)
    /\ agentPools' = [agentPools EXCEPT ![a].stored =
                        @ + (share * PRECISION) \div agentPools[a].total]
    /\ UNCHANGED <<now, paused, delegations, totalDelegatedAllAgents>>

ClaimRewards(d, a, payee) ==
    LET dl == delegations[a][d] IN
    /\ dl.active
    /\ Claimable(dl, agentPools[a]) > 0
    /\ Transfer(Self, payee, Claimable(dl, agentPools[a]))
    /\ delegations' = [delegations EXCEPT ![a][d] = Claimed(@, agentPools[a])]
    /\ UNCHANGED <<now, paused, agentPools, totalDelegatedAllAgents>>

\* The claim of every active delegation, paid in one transfer.
ClaimAllRewards(d, payee) ==
    LET mine  == {a \in Agents : delegations[a][d].active}
        total == SumFunctionOnSet([a \in Agents |-> Claimable(delegations[a][d], agentPools[a])], mine)
    IN /\ payee = HbarPool => total > 0
       /\ Transfer(Self, payee, total)
       /\ delegations' = [a \in Agents |->
                            IF a \in mine
                            THEN [delegations[a] EXCEPT ![d] = Claimed(@, agentPools[a])]
                            ELSE delegations[a]]
       /\ UNCHANGED <<now, paused, agentPools, totalDelegatedAllAgents>>

\* Called by the address set as the staking manager.
PropagateSlash(a, bps) ==
    LET active == SumFunction([d \in Delegators |->
                     IF Slashable(delegations[a][d]) THEN Share(delegations[a][d].amount, bps) ELSE 0])
        taken  == SumFunction([d \in Delegators |->
                     delegations[a][d].amount + delegations[a][d].unbonding
                       - Slashed(delegations[a][d], bps).amount
                       - Slashed(delegations[a][d], bps).unbonding])
        closed == {d \in Delegators : /\ delegations[a][d].active
                                      /\ ~Slashed(delegations[a][d], bps).active}
    IN /\ agentPools[a].total > 0
       /\ delegations' = [delegations EXCEPT ![a] = [d \in Delegators |-> Slashed(@[d], bps)]]
       /\ agentPools' = [agentPools EXCEPT ![a].total = Monus(@, active),
                                           ![a].count = Monus(@, Cardinality(closed))]
       /\ totalDelegatedAllAgents' = Monus(totalDelegatedAllAgents, active)
       /\ Transfer(Self, Treasury, taken)
       /\ UNCHANGED <<now, paused>>

SetRewardShareBps(a, bps) ==
    /\ agentPools[a].known
    /\ agentPools' = [agentPools EXCEPT ![a].bps = bps]
    /\ UNCHANGED <<now, paused, delegations, totalDelegatedAllAgents, balance>>

SetPaused(p) ==
    /\ paused # p
    /\ paused' = p
    /\ UNCHANGED <<now, agentPools, delegations, totalDelegatedAllAgents, balance>>

Tick ==
    /\ now < MaxTime
    /\ now' = now + 1
    /\ UNCHANGED <<paused, agentPools, delegations, totalDelegatedAllAgents, balance>>

-----------------------------------------------------------------------------

Init ==
    /\ now = 0
    /\ paused = FALSE
    /\ agentPools = [a \in Agents |-> NoPool]
    /\ delegations = [a \in Agents |-> [d \in Delegators |-> NoDelegation]]
    /\ totalDelegatedAllAgents = 0
    /\ balance = [c \in Accounts |-> CASE c \in Delegators -> DelegatorFunds
                                        [] c = HbarPool     -> HbarPoolFunds
                                        [] c = Distributor  -> RewardFunds
                                        [] OTHER            -> 0]

DelegatorStep(d, a) ==
    \/ \E amount \in Amounts : \/ \E payer \in {d, HbarPool} : Delegate(d, a, amount, payer)
                               \/ RequestUndelegate(d, a, amount)
    \/ \E payee \in {d, HbarPool} : CompleteUndelegate(d, a, payee) \/ ClaimRewards(d, a, payee)

AgentStep(a) ==
    \/ \E earned \in Earnings : DistributeRewards(a, earned)
    \/ \E bps \in SlashRates : PropagateSlash(a, bps)
    \/ \E bps \in RewardShares : SetRewardShareBps(a, bps)

Next ==
    \/ \E d \in Delegators, a \in Agents : DelegatorStep(d, a)
    \/ \E d \in Delegators : \E payee \in {d, HbarPool} : ClaimAllRewards(d, payee)
    \/ \E a \in Agents : AgentStep(a)
    \/ \E p \in BOOLEAN : SetPaused(p)
    \/ Tick

Spec == Init /\ [][Next]_vars

-----------------------------------------------------------------------------
(***************************************************************************)
(* Properties.                                                             *)
(***************************************************************************)

TypeOK ==
    /\ now \in Nat
    /\ paused \in BOOLEAN
    /\ agentPools \in [Agents -> Pool]
    /\ delegations \in [Agents -> [Delegators -> Delegation]]
    /\ totalDelegatedAllAgents \in Nat
    /\ balance \in [Accounts -> Nat]

\* Besides types: a pool's total and count, kept up to date call by call, are those of its
\* delegations, and a delegation is open exactly while stake is in it: the
\* saturating subtractions of a slash never hide a difference, and unbonding
\* stake can always be withdrawn.
PoolMatches ==
    /\ TypeOK
    /\ totalDelegatedAllAgents = SumFunction([a \in Agents |-> agentPools[a].total])
    /\ \A a \in Agents :
         /\ agentPools[a].total = Sum(LAMBDA dl : dl.amount, a)
         /\ agentPools[a].count = Cardinality({d \in Delegators : delegations[a][d].active})
         /\ \A d \in Delegators :
              delegations[a][d].active <=> delegations[a][d].amount + delegations[a][d].unbonding > 0

\* The contract can pay back all stake and pay out all rewards it has booked,
\* in any order of delegations, distributions, claims and slashes: rounding
\* never books more than a distribution brought.
RewardsCovered ==
    balance[Self] >= SumFunction([a \in Agents |->
        Sum(LAMBDA dl : dl.amount + dl.unbonding + Claimable(dl, agentPools[a]), a)])

\* Both together: the pools' books agree with the delegations and with the GUARD
\* the contract has.
DelegationsCovered == PoolMatches /\ RewardsCovered

\* What a delegator may claim grows only when rewards are distributed, and
\* shrinks only when it is paid out or the agent is slashed: neither new nor
\* leaving stake takes part in what was earned before or after it.
EarnedOnlyByDistribution ==
    [][\A a \in Agents, d \in Delegators :
         LET before == Claimable(delegations[a][d], agentPools[a])
             after  == Claimable(delegations'[a][d], agentPools'[a])
         IN /\ after > before => agentPools'[a].stored > agentPools[a].stored
            /\ after < before => \/ balance'[d] > balance[d]
                                 \/ balance'[HbarPool] > balance[HbarPool]
                                 \/ balance'[Treasury] > balance[Treasury]]_vars
=============================================================================
