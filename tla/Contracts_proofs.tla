-------------------------- MODULE Contracts_proofs --------------------------
(***************************************************************************)
(* Proofs that can share a module: about AgentRegistry; about AuditVault,  *)
(* DataMarketplace and SubAuction as ServiceContracts instantiates them;   *)
(* and about the invitations of registered agents, as InvitationProcesses  *)
(* instantiates them; for all values of the constants that the assumptions *)
(* admit.                                                                  *)
(***************************************************************************)
EXTENDS AgentRegistry, ServiceContracts, InvitationProcesses, Sequences,
        SumLemmas, SequenceTheorems, FiniteSetTheorems, TLAPS

-----------------------------------------------------------------------------
(***************************************************************************)
(* AgentRegistry.                                                          *)
(***************************************************************************)


\* What the assumption says of the amounts that most proofs need.
LEMMA RegistryConstants ==
    /\ CommodityMin \in Nat /\ SpecializedMin \in Nat /\ PremiumMin \in Nat
    /\ CommodityMin > 0 /\ CommodityMin <= SpecializedMin /\ SpecializedMin <= PremiumMin
    /\ InitialBalance \in Nat /\ Amounts \subseteq Nat \ {0}
  <1>1. CommodityMin \in Nat /\ SpecializedMin \in Nat /\ PremiumMin \in Nat
    BY SMTT(30), AmountsAssumption
  <1>2. CommodityMin > 0 /\ CommodityMin <= SpecializedMin /\ SpecializedMin <= PremiumMin
    BY SMTT(30), AmountsAssumption
  <1>3. InitialBalance \in Nat /\ Amounts \subseteq Nat \ {0}
    BY SMTT(30), AmountsAssumption
  <1> QED
    BY <1>1, <1>2, <1>3

\* A slash of 100 percent takes the whole stake.
LEMMA FullSlash ==
    ASSUME NEW s \in Nat
    PROVE  SlashShare(s, 10000) = s
  BY DEF SlashShare

-----------------------------------------------------------------------------
(***************************************************************************)
(* Profiles: each operator that rewrites one keeps it proper.              *)
(***************************************************************************)

\* A profile a registered agent may have.
Proper(p) ==
    /\ p \in AgentProfile
    /\ p.tier # 0
    /\ p.reputation <= 10000
    /\ p.status = "ACTIVE" => p.stake >= CommodityMin
    /\ p.status = "SUSPENDED" => p.stake < CommodityMin
    /\ p.status \in {"INACTIVE", "SLASHED"} => p.stake = 0

LEMMA NewProper ==
    ASSUME NEW amount \in Nat, amount >= CommodityMin
    PROVE  Proper(NewProfile(amount)) /\ NewProfile(amount).stake = amount
  <1>1. InitialReputation \in Nat /\ InitialReputation <= 10000
    BY SMTT(30), AmountsAssumption
  <1> QED
    BY <1>1 DEF NewProfile, Proper, AgentProfile, AgentTier, AgentStatus

LEMMA StakedProper ==
    ASSUME NEW p, Proper(p), p.status \notin {"INACTIVE", "SLASHED"}, NEW amount \in Nat
    PROVE  Proper(Staked(p, amount)) /\ Staked(p, amount).stake = p.stake + amount
  <1> DEFINE total == p.stake + amount
             st == IF p.status = "SUSPENDED" /\ total >= CommodityMin THEN "ACTIVE" ELSE p.status
  <1>0. CommodityMin \in Nat
    BY RegistryConstants
  <1>1. p \in AgentProfile /\ p.stake \in Nat /\ total \in Nat /\ total >= p.stake
    BY DEF Proper, AgentProfile
  <1>2. /\ st \in AgentStatus /\ st \notin {"INACTIVE", "SLASHED"}
        /\ st = "ACTIVE" => total >= CommodityMin
        /\ st = "SUSPENDED" => total < CommodityMin
    BY <1>0, <1>1 DEF Proper, AgentProfile, AgentStatus
  <1>3. Staked(p, amount) = [p EXCEPT !.stake = total, !.status = st]
    BY DEF Staked
  <1> HIDE DEF total, st
  <1>4. [p EXCEPT !.stake = total, !.status = st] \in AgentProfile
    BY <1>1, <1>2 DEF AgentProfile
  <1>5. Proper([p EXCEPT !.stake = total, !.status = st])
    BY <1>1, <1>2, <1>4 DEF Proper, AgentProfile
  <1> QED
    BY <1>1, <1>3, <1>5 DEF total, AgentProfile

\* The tier minimum an active agent must keep is at least the commodity stake.
LEMMA TierMinimum ==
    ASSUME NEW tier \in 1..3
    PROVE  TierMinimumStake(tier) \in Nat /\ TierMinimumStake(tier) >= CommodityMin
  BY RegistryConstants DEF TierMinimumStake

LEMMA WithdrawnProper ==
    ASSUME NEW p, Proper(p), NEW amount \in Nat, amount <= p.stake,
           amount > 0,
           p.status = "ACTIVE" => p.stake - amount >= TierMinimumStake(p.tier)
    PROVE  /\ Proper([p EXCEPT !.stake = p.stake - amount])
           /\ [p EXCEPT !.stake = p.stake - amount].stake = p.stake - amount
  <1> DEFINE left == p.stake - amount
  <1>1. p \in AgentProfile /\ p.stake \in Nat /\ left \in Nat /\ left < p.stake
        /\ CommodityMin \in Nat /\ p.tier \in 1..3
    <2>1. p \in AgentProfile /\ p.tier # 0
      BY DEF Proper
    <2>2. p.stake \in Nat /\ p.tier \in AgentTier
      BY <2>1 DEF AgentProfile
    <2>3. p.tier \in 1..3
      BY <2>1, <2>2 DEF AgentTier
    <2>4. CommodityMin \in Nat
      BY RegistryConstants
    <2> QED
      BY <2>1, <2>2, <2>3, <2>4
  <1>2. p.status = "ACTIVE" => left >= CommodityMin
    BY <1>1, TierMinimum
  <1>3. p.status = "SUSPENDED" => left < CommodityMin
    BY <1>1 DEF Proper
  <1>4. p.status \notin {"INACTIVE", "SLASHED"}
    BY <1>1 DEF Proper
  <1> HIDE DEF left
  <1>5. [p EXCEPT !.stake = left] \in AgentProfile
    BY <1>1 DEF AgentProfile
  <1>6. Proper([p EXCEPT !.stake = left])
    BY <1>1, <1>2, <1>3, <1>4, <1>5 DEF Proper, AgentProfile
  <1> QED
    BY <1>1, <1>6 DEF left, AgentProfile

LEMMA DepartedProper ==
    ASSUME NEW p, Proper(p)
    PROVE  Proper(Departed(p)) /\ Departed(p).stake = 0
  <1>1. Departed(p) \in AgentProfile /\ Departed(p).stake = 0
        /\ Departed(p).status = "INACTIVE" /\ Departed(p).tier = p.tier
        /\ Departed(p).reputation = p.reputation
    <2>1. p \in AgentProfile
      BY DEF Proper
    <2> QED
      BY <2>1 DEF Departed, AgentProfile, AgentStatus
  <1> QED
    BY <1>1 DEF Proper

LEMMA SlashedProper ==
    ASSUME NEW p, Proper(p), NEW amount \in Nat, amount <= p.stake, amount > 0,
           NEW bps, bps = 10000 => amount = p.stake
    PROVE  /\ Proper(Slashed(p, amount, bps))
           /\ Slashed(p, amount, bps).stake = p.stake - amount
  <1> DEFINE left == p.stake - amount
             st == IF bps = 10000 THEN "SLASHED"
                   ELSE IF left < CommodityMin THEN "SUSPENDED" ELSE p.status
  <1>0. CommodityMin \in Nat
    BY RegistryConstants
  <1>1. p \in AgentProfile /\ p.stake \in Nat /\ left \in Nat /\ left < p.stake
    BY DEF Proper, AgentProfile
  <1>2. p.status \notin {"INACTIVE", "SLASHED"} /\ p.status \in AgentStatus
    BY <1>1 DEF Proper, AgentProfile
  <1>3. /\ st \in AgentStatus
        /\ st = "ACTIVE" => left >= CommodityMin
        /\ st = "SUSPENDED" => left < CommodityMin
        /\ st \in {"INACTIVE", "SLASHED"} => left = 0
    <2>1. CASE bps = 10000
      BY <1>1, <2>1 DEF AgentStatus
    <2>2. CASE bps # 10000 /\ left < CommodityMin
      BY <1>0, <1>1, <2>2 DEF AgentStatus
    <2>3. CASE bps # 10000 /\ ~(left < CommodityMin)
      BY <1>0, <1>1, <1>2, <2>3 DEF Proper
    <2> QED
      BY <2>1, <2>2, <2>3
  <1>4. Slashed(p, amount, bps) = [p EXCEPT !.stake = left, !.status = st]
    BY DEF Slashed
  <1> HIDE DEF left, st
  <1>5. [p EXCEPT !.stake = left, !.status = st] \in AgentProfile
    BY ONLY Zenon, <1>1, <1>3 DEF AgentProfile
  <1>6. Proper([p EXCEPT !.stake = left, !.status = st])
    BY <1>1, <1>3, <1>5 DEF Proper, AgentProfile
  <1> QED
    BY <1>1, <1>4, <1>6 DEF left, AgentProfile

LEMMA ReputationProper ==
    ASSUME NEW p, Proper(p), NEW r \in Nat, r <= 10000
    PROVE  Proper(WithReputation(p, r)) /\ WithReputation(p, r).stake = p.stake
  <1> DEFINE q == [p EXCEPT !.reputation = r]
  <1>1. q \in AgentProfile /\ q.stake = p.stake /\ q.tier = p.tier
        /\ q.status = p.status /\ q.reputation = r
    BY DEF Proper, AgentProfile
  <1>2. Proper(q)
    BY <1>1 DEF Proper
  <1> QED
    BY <1>1, <1>2 DEF WithReputation

LEMMA RescoredProper ==
    ASSUME NEW p, Proper(p), NEW delta \in Int
    PROVE  Proper(Rescored(p, delta)) /\ Rescored(p, delta).stake = p.stake
  <1>1. p.reputation \in Nat /\ p.reputation <= 10000
    BY DEF Proper, AgentProfile
  <1>2. Scored(p.reputation, delta) \in Nat /\ Scored(p.reputation, delta) <= 10000
    BY <1>1 DEF Scored
  <1> QED
    BY <1>2, ReputationProper DEF Rescored

LEMMA JobRecordedProper ==
    ASSUME NEW p, Proper(p), NEW outcome \in Nat \X Nat \X Nat
    PROVE  Proper(JobRecorded(p, outcome)) /\ JobRecorded(p, outcome).stake = p.stake
  <1> DEFINE q == Rescored(p, JobDelta(outcome))
             n == p.completedJobs + 1
  <1>1. JobDelta(outcome) \in Int
    BY DEF JobDelta
  <1>2. Proper(q) /\ q.stake = p.stake
    BY <1>1, RescoredProper
  <1>3. n \in Nat
    BY DEF Proper, AgentProfile
  <1>4. JobRecorded(p, outcome) = [q EXCEPT !.completedJobs = n]
    BY DEF JobRecorded
  <1> HIDE DEF q, n
  <1>5. Proper([q EXCEPT !.completedJobs = n]) /\ [q EXCEPT !.completedJobs = n].stake = q.stake
    BY <1>2, <1>3 DEF Proper, AgentProfile
  <1> QED
    BY <1>2, <1>4, <1>5

-----------------------------------------------------------------------------
(***************************************************************************)
(* Accounts, and the two shapes of step: one that moves stake between an   *)
(* agent and the registry, and one that seizes it.                         *)
(***************************************************************************)

LEMMA AccountsDistinct ==
    /\ {Registry, Owner} \subseteq Accounts /\ Agents \subseteq Accounts
    /\ Registry \notin Agents /\ Owner \notin Agents /\ Registry # Owner
  BY AccountsAssumption DEF Accounts

LEMMA TransferType ==
    ASSUME balance \in [Accounts -> Nat], NEW from \in Accounts, NEW to \in Accounts,
           from # to, NEW amount \in Nat, Transfer(from, to, amount)
    PROVE  /\ balance' \in [Accounts -> Nat]
           /\ balance'[from] = balance[from] - amount
           /\ balance'[to] = balance[to] + amount
           /\ \A c \in Accounts \ {from, to} : balance'[c] = balance[c]
  BY DEF Transfer

\* A registered agent's profile is proper.
LEMMA KnownProper ==
    ASSUME IInv, NEW a \in Agents, Known(a)
    PROVE  Proper(agents[a])
  <1>1. agents[a] \in AgentProfile
    BY DEF IInv, TypeOK
  <1> QED
    BY <1>1 DEF Proper, IInv, StandingMatchesStake, Known

\* The step gives agent a the profile p, seizes an amount of its stake, and
\* moves the rest of the difference between a and the registry.
Rewrites(a, p, amount) ==
    /\ agents' = [agents EXCEPT ![a] = p]
    /\ seized' = [seized EXCEPT ![a] = seized[a] + amount]
    /\ balance' \in [Accounts -> Nat]
    /\ balance'[a] + p.stake + amount = balance[a] + agents[a].stake
    /\ \A c \in Agents \ {a} : balance'[c] = balance[c]
    /\ UNCHANGED <<paused, orchestrator, auctionContract>>

\* Such a step keeps the invariant when p is a proper profile.
LEMMA RewriteIInv ==
    ASSUME IInv, NEW a \in Agents, NEW p, Proper(p), NEW amount \in Nat, Rewrites(a, p, amount)
    PROVE  IInv'
  <1>1. agents \in [Agents -> AgentProfile] /\ seized \in [Agents -> Nat]
        /\ p \in AgentProfile
    BY DEF IInv, TypeOK, Proper
  <1>2. /\ agents' \in [Agents -> AgentProfile]
        /\ agents'[a] = p
        /\ \A c \in Agents \ {a} : agents'[c] = agents[c]
    BY <1>1 DEF Rewrites
  <1>3. /\ seized' \in [Agents -> Nat]
        /\ seized'[a] = seized[a] + amount
        /\ \A c \in Agents \ {a} : seized'[c] = seized[c]
    BY <1>1 DEF Rewrites
  <1>4. TypeOK'
    BY <1>2, <1>3 DEF IInv, TypeOK, Rewrites
  <1>5. StandingMatchesStake'
    BY <1>2 DEF IInv, StandingMatchesStake, Proper, Known
  <1>6. NoStakeLost'
    <2> SUFFICES ASSUME NEW c \in Agents
                 PROVE  balance'[c] + agents'[c].stake + seized'[c] = InitialBalance
      BY DEF NoStakeLost
    <2>1. balance[c] + agents[c].stake + seized[c] = InitialBalance
      BY DEF IInv, NoStakeLost
    <2>2. CASE c # a
      BY <1>2, <1>3, <2>1, <2>2 DEF Rewrites
    <2>3. CASE c = a
      <3>1. balance[a] \in Nat /\ agents[a].stake \in Nat /\ p.stake \in Nat
            /\ seized[a] \in Nat /\ balance'[a] \in Nat
        BY <1>1, AccountsDistinct DEF IInv, TypeOK, AgentProfile, Rewrites
      <3>2. balance'[a] + p.stake + amount = balance[a] + agents[a].stake
        BY DEF Rewrites
      <3> QED
        BY <1>2, <1>3, <2>1, <2>3, <3>1, <3>2
    <2> QED
      BY <2>2, <2>3
  <1> QED
    BY <1>4, <1>5, <1>6 DEF IInv

\* The agent's own calls and the scoring calls seize nothing.
LEMMA OwnStep ==
    ASSUME IInv, NEW a \in Agents, NEW p, Proper(p),
           agents' = [agents EXCEPT ![a] = p],
           balance' \in [Accounts -> Nat],
           balance'[a] + p.stake = balance[a] + agents[a].stake,
           \A c \in Agents \ {a} : balance'[c] = balance[c],
           UNCHANGED <<paused, orchestrator, auctionContract, seized>>
    PROVE  IInv'
  <1>1. seized \in [Agents -> Nat]
    BY DEF IInv, TypeOK
  <1>2. balance'[a] \in Nat /\ p.stake \in Nat
    BY AccountsDistinct DEF Proper, AgentProfile
  <1>3. seized' = [seized EXCEPT ![a] = seized[a] + 0]
    BY <1>1
  <1>4. balance'[a] + p.stake + 0 = balance[a] + agents[a].stake
    BY <1>2
  <1>5. Rewrites(a, p, 0)
    BY <1>1, <1>3, <1>4 DEF Rewrites
  <1> QED
    BY <1>5, RewriteIInv

\* An agent paying into its stake, and being paid out of it.
LEMMA PayIn ==
    ASSUME IInv, NEW a \in Agents, NEW p, Proper(p), NEW amount \in Nat,
           Transfer(a, Registry, amount), p.stake = agents[a].stake + amount,
           agents' = [agents EXCEPT ![a] = p],
           UNCHANGED <<paused, orchestrator, auctionContract, seized>>
    PROVE  IInv'
  <1>1. balance \in [Accounts -> Nat] /\ agents[a] \in AgentProfile
    BY DEF IInv, TypeOK
  <1>2. a \in Accounts /\ Registry \in Accounts /\ a # Registry /\ Agents \subseteq Accounts
        /\ Registry \notin Agents
    BY AccountsDistinct
  <1>3. /\ balance' \in [Accounts -> Nat] /\ balance'[a] = balance[a] - amount
        /\ \A c \in Accounts \ {a, Registry} : balance'[c] = balance[c]
    BY <1>1, <1>2, TransferType
  <1>4. balance'[a] + p.stake = balance[a] + agents[a].stake
    <2>1. balance[a] \in Nat /\ agents[a].stake \in Nat
      BY <1>1, <1>2 DEF AgentProfile
    <2> QED
      BY <1>3, <2>1
  <1>5. \A c \in Agents \ {a} : balance'[c] = balance[c]
    BY <1>2, <1>3
  <1> QED
    BY <1>3, <1>4, <1>5, OwnStep

LEMMA PayOut ==
    ASSUME IInv, NEW a \in Agents, NEW p, Proper(p), NEW amount \in Nat,
           Transfer(Registry, a, amount), p.stake = agents[a].stake - amount,
           agents' = [agents EXCEPT ![a] = p],
           UNCHANGED <<paused, orchestrator, auctionContract, seized>>
    PROVE  IInv'
  <1>1. balance \in [Accounts -> Nat] /\ agents[a] \in AgentProfile
    BY DEF IInv, TypeOK
  <1>2. a \in Accounts /\ Registry \in Accounts /\ a # Registry /\ Agents \subseteq Accounts
        /\ Registry \notin Agents
    BY AccountsDistinct
  <1>3. /\ balance' \in [Accounts -> Nat] /\ balance'[a] = balance[a] + amount
        /\ \A c \in Accounts \ {a, Registry} : balance'[c] = balance[c]
    BY <1>1, <1>2, TransferType
  <1>4. balance'[a] + p.stake = balance[a] + agents[a].stake
    <2>1. balance[a] \in Nat /\ agents[a].stake \in Nat
      BY <1>1, <1>2 DEF AgentProfile
    <2> QED
      BY <1>3, <2>1
  <1>5. \A c \in Agents \ {a} : balance'[c] = balance[c]
    BY <1>2, <1>3
  <1> QED
    BY <1>3, <1>4, <1>5, OwnStep

-----------------------------------------------------------------------------
(***************************************************************************)
(* The steps.                                                              *)
(***************************************************************************)

LEMMA InitIInv == Init => IInv
  <1> SUFFICES ASSUME Init PROVE IInv
    OBVIOUS
  <1>1. NoProfile \in AgentProfile
    BY DEF NoProfile, AgentProfile, AgentTier, AgentStatus
  <1>2. TypeOK
    <2>1. balance \in [Accounts -> Nat]
      BY RegistryConstants DEF Init
    <2> QED
      BY <1>1, <2>1 DEF Init, TypeOK
  <1>3. StandingMatchesStake
    BY DEF Init, StandingMatchesStake, NoProfile, Known
  <1>4. NoStakeLost
    <2>1. /\ Init /\ InitialBalance \in Nat /\ Agents \subseteq Accounts
          /\ NoProfile.stake = 0
      BY RegistryConstants DEF Accounts, NoProfile
    <2> QED
      BY ONLY <2>1 DEF Init, NoStakeLost
  <1> QED
    BY <1>2, <1>3, <1>4 DEF IInv

LEMMA AgentStepIInv ==
    ASSUME IInv, NEW a \in Agents, AgentStep(a)
    PROVE  IInv'
  <1>1. agents[a] \in AgentProfile /\ agents[a].stake \in Nat /\ Amounts \subseteq Nat
    BY RegistryConstants DEF IInv, TypeOK, AgentProfile
  <1>2. ASSUME NEW amount \in Amounts, RegisterAgent(a, amount) PROVE IInv'
    <2>1. agents[a].stake = 0
      BY <1>2 DEF RegisterAgent, Known, IInv, StandingMatchesStake, NoProfile
    <2>2. amount \in Nat /\ amount >= CommodityMin
      BY <1>1, <1>2 DEF RegisterAgent
    <2>3. Proper(NewProfile(amount)) /\ NewProfile(amount).stake = agents[a].stake + amount
      BY <2>1, <2>2, NewProper
    <2> QED
      BY <1>2, <2>2, <2>3, PayIn DEF RegisterAgent
  <1>3. ASSUME NEW amount \in Amounts, AddStake(a, amount) PROVE IInv'
    <2>1. Known(a) /\ agents[a].status \notin {"INACTIVE", "SLASHED"}
      BY <1>3 DEF AddStake
    <2>2. Proper(Staked(agents[a], amount))
          /\ Staked(agents[a], amount).stake = agents[a].stake + amount
      BY <1>1, <2>1, KnownProper, StakedProper
    <2>3. /\ Transfer(a, Registry, amount)
          /\ agents' = [agents EXCEPT ![a] = Staked(agents[a], amount)]
          /\ UNCHANGED <<paused, orchestrator, auctionContract, seized>>
      BY <1>3 DEF AddStake
    <2>4. amount \in Nat
      BY <1>1, <1>3
    <2> QED
      BY ONLY <2>2, <2>3, <2>4, PayIn, IInv, a \in Agents
  <1>4. ASSUME NEW amount \in Amounts, WithdrawStake(a, amount) PROVE IInv'
    <2>1. /\ Known(a) /\ amount <= agents[a].stake /\ amount \in Nat
          /\ agents[a].status = "ACTIVE" =>
               agents[a].stake - amount >= TierMinimumStake(agents[a].tier)
      BY <1>1, <1>4 DEF WithdrawStake
    <2>2. amount > 0
      BY RegistryConstants
    <2>3. /\ Proper([agents[a] EXCEPT !.stake = agents[a].stake - amount])
          /\ [agents[a] EXCEPT !.stake = agents[a].stake - amount].stake
               = agents[a].stake - amount
      BY <2>1, <2>2, KnownProper, WithdrawnProper
    <2>4. agents' = [agents EXCEPT ![a] = [agents[a] EXCEPT !.stake = agents[a].stake - amount]]
      BY <1>4 DEF WithdrawStake
    <2> QED
      BY <1>4, <2>1, <2>3, <2>4, PayOut DEF WithdrawStake
  <1>5. ASSUME RequestPromotion(a) PROVE IInv'
    <2> DEFINE t == agents[a].tier + 1
    <2>1. Known(a) /\ agents[a].tier \in 1..2
          /\ UNCHANGED <<paused, orchestrator, auctionContract, balance, seized>>
          /\ agents' = [agents EXCEPT ![a].tier = t]
      BY <1>5 DEF RequestPromotion, Known
    <2>2. t \in AgentTier /\ t # 0
      BY <2>1 DEF AgentTier
    <2>3. Proper(agents[a])
      BY <2>1, KnownProper
    <2> HIDE DEF t
    <2>4. Proper([agents[a] EXCEPT !.tier = t])
          /\ [agents[a] EXCEPT !.tier = t].stake = agents[a].stake
      BY <1>1, <2>2, <2>3 DEF Proper, AgentProfile
    <2>5. agents' = [agents EXCEPT ![a] = [agents[a] EXCEPT !.tier = t]]
      BY <2>1
    <2>6. balance' \in [Accounts -> Nat] /\ balance' = balance
      BY <2>1 DEF IInv, TypeOK
    <2> QED
      BY <2>1, <2>4, <2>5, <2>6, OwnStep
  <1>6. ASSUME DeregisterAgent(a) PROVE IInv'
    <2>1. Proper(Departed(agents[a])) /\ Departed(agents[a]).stake = 0
      BY <1>6, KnownProper, DepartedProper DEF DeregisterAgent
    <2>2. Departed(agents[a]).stake = agents[a].stake - agents[a].stake
      BY <1>1, <2>1
    <2> QED
      BY <1>1, <1>6, <2>1, <2>2, PayOut DEF DeregisterAgent
  <1> QED
    BY <1>2, <1>3, <1>4, <1>5, <1>6 DEF AgentStep

\* A step that only gives a registered agent a new score.
LEMMA ScoreStep ==
    ASSUME IInv, NEW a \in Agents, NEW p, Proper(p), p.stake = agents[a].stake,
           agents' = [agents EXCEPT ![a] = p],
           UNCHANGED <<paused, orchestrator, auctionContract, balance, seized>>
    PROVE  IInv'
  <1>1. balance' \in [Accounts -> Nat] /\ balance' = balance
    BY DEF IInv, TypeOK
  <1> QED
    BY <1>1, OwnStep

LEMMA UpdateReputationIInv ==
    ASSUME IInv, NEW a \in Agents, NEW caller, NEW delta \in Int,
           UpdateReputation(caller, a, delta)
    PROVE  IInv'
  <1>1. Proper(agents[a])
    BY KnownProper DEF UpdateReputation
  <1>2. Proper(Rescored(agents[a], delta)) /\ Rescored(agents[a], delta).stake = agents[a].stake
    BY <1>1, RescoredProper
  <1> QED
    BY <1>2, ScoreStep DEF UpdateReputation

LEMMA RecordJobCompletionIInv ==
    ASSUME IInv, NEW a \in Agents, NEW caller, NEW outcome \in Nat \X Nat \X Nat,
           RecordJobCompletion(caller, a, outcome)
    PROVE  IInv'
  <1>1. Proper(agents[a])
    BY KnownProper DEF RecordJobCompletion
  <1>2. /\ Proper(JobRecorded(agents[a], outcome))
        /\ JobRecorded(agents[a], outcome).stake = agents[a].stake
    BY <1>1, JobRecordedProper
  <1>3. /\ agents' = [agents EXCEPT ![a] = JobRecorded(agents[a], outcome)]
        /\ UNCHANGED <<paused, orchestrator, auctionContract, balance, seized>>
    BY DEF RecordJobCompletion
  <1> QED
    BY ONLY <1>2, <1>3, ScoreStep, IInv, a \in Agents

LEMMA SeedAgentReputationIInv ==
    ASSUME IInv, NEW a \in Agents, NEW reputation \in Seeds,
           SeedAgentReputation(a, reputation)
    PROVE  IInv'
  <1>1. reputation \in Nat /\ reputation <= 10000
    BY SMTT(30), AmountsAssumption
  <1>2. Proper(agents[a])
    BY KnownProper DEF SeedAgentReputation
  <1>3. /\ Proper(WithReputation(agents[a], reputation))
        /\ WithReputation(agents[a], reputation).stake = agents[a].stake
    BY <1>1, <1>2, ReputationProper
  <1> QED
    BY <1>3, ScoreStep DEF SeedAgentReputation

\* slashAgent moves stake to the owner and counts it as seized.
LEMMA SlashAgentIInv ==
    ASSUME IInv, NEW a \in Agents, NEW caller, NEW bps \in SlashRates,
           SlashAgent(caller, a, bps)
    PROVE  IInv'
  <1>1. PICK amount \in 1..agents[a].stake :
          amount = SlashShare(agents[a].stake, bps) /\ Seize(a, amount, bps)
    BY DEF SlashAgent
  <1>2. /\ Known(a)
        /\ UNCHANGED <<paused, orchestrator, auctionContract>>
    BY DEF SlashAgent
  <1>3. agents[a].stake \in Nat /\ balance \in [Accounts -> Nat]
    BY DEF IInv, TypeOK, AgentProfile
  <1>4. amount \in Nat /\ amount <= agents[a].stake /\ amount > 0
    BY <1>3
  <1>5. bps = 10000 => amount = agents[a].stake
    BY <1>1, <1>3, FullSlash
  <1> DEFINE p == Slashed(agents[a], amount, bps)
  <1>6. Proper(p) /\ p.stake = agents[a].stake - amount
    BY <1>2, <1>4, <1>5, KnownProper, SlashedProper
  <1>7. /\ balance' \in [Accounts -> Nat]
        /\ \A c \in Accounts \ {Registry, Owner} : balance'[c] = balance[c]
    BY <1>1, <1>3, <1>4, TransferType, AccountsDistinct DEF Seize
  <1>8. \A c \in Agents : balance'[c] = balance[c]
    BY <1>7, AccountsDistinct
  <1>9. balance'[a] + p.stake + amount = balance[a] + agents[a].stake
    <2>1. balance[a] \in Nat
      BY <1>3, AccountsDistinct
    <2> QED
      BY <1>3, <1>4, <1>6, <1>8, <2>1
  <1>10. /\ agents' = [agents EXCEPT ![a] = p]
         /\ seized' = [seized EXCEPT ![a] = seized[a] + amount]
    BY <1>1 DEF Seize
  <1> HIDE DEF p
  <1>11. Rewrites(a, p, amount)
    BY <1>2, <1>7, <1>8, <1>9, <1>10 DEF Rewrites
  <1> QED
    BY <1>4, <1>6, <1>11, RewriteIInv

LEMMA NextIInv == IInv /\ [Next]_vars => IInv'
  <1> SUFFICES ASSUME IInv, [Next]_vars PROVE IInv'
    OBVIOUS
  <1>1. ASSUME UNCHANGED <<agents, balance, seized>>, TypeOK'
        PROVE  IInv'
    BY <1>1 DEF IInv, StandingMatchesStake, NoStakeLost, Known
  <1>2. CASE UNCHANGED vars
    BY <1>1, <1>2 DEF vars, IInv, TypeOK
  <1>3. ASSUME NEW caller \in Callers, NEW a \in Agents, ScoringStep(caller, a) PROVE IInv'
    <2>1. Deltas \subseteq Int /\ Outcomes \subseteq Nat \X Nat \X Nat
      BY SMTT(30), AmountsAssumption
    <2> QED
      BY <1>3, <2>1, UpdateReputationIInv, RecordJobCompletionIInv, SlashAgentIInv
      DEF ScoringStep
  <1>4. CASE OwnerStep
    <2>1. ASSUME NEW o \in Callers, NEW u \in Callers, SetOrchestratorAndAuction(o, u)
          PROVE  IInv'
      BY <1>1, <2>1 DEF SetOrchestratorAndAuction, IInv, TypeOK
    <2>2. ASSUME NEW p \in BOOLEAN, SetPaused(p) PROVE IInv'
      BY <1>1, <2>2 DEF SetPaused, IInv, TypeOK
    <2> QED
      BY <1>4, <2>1, <2>2, SeedAgentReputationIInv DEF OwnerStep
  <1> QED
    BY <1>2, <1>3, <1>4, AgentStepIInv DEF Next

-----------------------------------------------------------------------------

\* Types, and the agreement of status, tier and stake, in every reachable
\* state: only an agent with the commodity stake is ever ACTIVE.
THEOREM InductiveInvariant == Spec => []IInv
  <1> QED
    BY InitIInv, NextIInv, PTL DEF Spec

\* Only an agent with the commodity stake is ACTIVE, one short of it is
\* SUSPENDED, and one that left or was slashed in full has no stake.
THEOREM StandingMatchesStakeHolds == Spec => []StandingMatchesStake
  <1>1. IInv => StandingMatchesStake
    BY DEF IInv
  <1> QED
    BY <1>1, InductiveInvariant, PTL

\* An agent's GUARD is in its wallet, in its stake or seized by slashing:
\* no sequence of calls creates or loses any of it.
THEOREM NoStakeLostHolds == Spec => []NoStakeLost
  <1>1. IInv => NoStakeLost
    BY DEF IInv
  <1> QED
    BY <1>1, InductiveInvariant, PTL

-----------------------------------------------------------------------------
(***************************************************************************)
(* The accounts of the registry and of the owner against the sums of what  *)
(* they hold for everybody.                                                *)
(***************************************************************************)

\* The step is about a's GUARD: the registry's account changes by what a's stake
\* changes, the owner's by what is seized from a.
Backs(a) ==
    /\ \A c \in Agents \ {a} : agents'[c].stake = agents[c].stake /\ seized'[c] = seized[c]
    /\ balance'[Registry] = balance[Registry] + agents'[a].stake - agents[a].stake
    /\ balance'[Owner] = balance[Owner] + seized'[a] - seized[a]

LEMMA BacksKeeps ==
    ASSUME IInv, IInv', StakesBacked, NEW a \in Agents, Backs(a)
    PROVE  StakesBacked'
  <1> DEFINE stakes == [c \in Agents |-> agents[c].stake]
             left == [c \in Agents |-> agents'[c].stake]
  <1>1. /\ \A c \in Agents : stakes[c] \in Int /\ left[c] \in Int
        /\ \A c \in Agents : seized[c] \in Int /\ seized'[c] \in Int
        /\ DOMAIN seized = Agents /\ DOMAIN seized' = Agents
    BY DEF IInv, TypeOK, AgentProfile
  <1>2. /\ \A c \in Agents \ {a} : stakes[c] = left[c] /\ seized[c] = seized'[c]
        /\ stakes[a] = agents[a].stake /\ left[a] = agents'[a].stake
    BY DEF Backs
  <1>3. IsFiniteSet(Agents)
    BY AccountsAssumption
  <1>4. DOMAIN stakes = Agents /\ DOMAIN left = Agents
    OBVIOUS
  <1>5. /\ balance[Registry] = SumFunctionOnSet(stakes, Agents)
        /\ balance[Owner] = SumFunctionOnSet(seized, Agents)
    BY <1>1 DEF StakesBacked, SumFunction
  <1> HIDE DEF stakes, left
  <1>6. SumFunctionOnSet(left, Agents) = SumFunctionOnSet(stakes, Agents) + left[a] - stakes[a]
    BY <1>1, <1>2, <1>3, SumOneChanged
  <1>7. SumFunctionOnSet(seized', Agents)
          = SumFunctionOnSet(seized, Agents) + seized'[a] - seized[a]
    BY <1>1, <1>2, <1>3, SumOneChanged
  <1>8. /\ balance'[Registry] = SumFunctionOnSet(left, Agents)
        /\ balance'[Owner] = SumFunctionOnSet(seized', Agents)
    BY <1>2, <1>5, <1>6, <1>7 DEF Backs
  <1>9. balance'[Registry] = SumFunction(left) /\ balance'[Owner] = SumFunction(seized')
    BY <1>1, <1>4, <1>8 DEF SumFunction
  <1> QED
    BY <1>9 DEF StakesBacked, left

\* Typing facts about one agent and the accounts.
LEMMA Typed ==
    ASSUME IInv, NEW a \in Agents
    PROVE  /\ agents \in [Agents -> AgentProfile] /\ balance \in [Accounts -> Nat]
           /\ agents[a] \in AgentProfile /\ agents[a].stake \in Nat /\ seized[a] \in Nat
           /\ balance[Registry] \in Nat /\ balance[Owner] \in Nat
           /\ a \in Accounts /\ Registry \in Accounts /\ Owner \in Accounts
           /\ a # Registry /\ a # Owner /\ Registry # Owner
  BY AccountsDistinct DEF IInv, TypeOK, AgentProfile

LEMMA PayInBacks ==
    ASSUME IInv, NEW a \in Agents, NEW p, NEW amount \in Nat,
           Transfer(a, Registry, amount), p.stake = agents[a].stake + amount,
           agents' = [agents EXCEPT ![a] = p], seized' = seized
    PROVE  Backs(a)
  <1>1. /\ balance'[Registry] = balance[Registry] + amount
        /\ balance'[Owner] = balance[Owner]
    BY Typed, TransferType
  <1>2. agents'[a] = p /\ \A c \in Agents \ {a} : agents'[c] = agents[c]
    BY Typed
  <1> QED
    BY <1>1, <1>2, Typed DEF Backs

LEMMA PayOutBacks ==
    ASSUME IInv, NEW a \in Agents, NEW p, NEW amount \in Nat,
           Transfer(Registry, a, amount), p.stake = agents[a].stake - amount,
           agents' = [agents EXCEPT ![a] = p], seized' = seized
    PROVE  Backs(a)
  <1>1. /\ balance'[Registry] = balance[Registry] - amount
        /\ balance'[Owner] = balance[Owner]
    BY Typed, TransferType
  <1>2. agents'[a] = p /\ \A c \in Agents \ {a} : agents'[c] = agents[c]
    BY Typed
  <1> QED
    BY <1>1, <1>2, Typed DEF Backs

LEMMA ScoreBacks ==
    ASSUME IInv, NEW a \in Agents, NEW p, p.stake = agents[a].stake,
           agents' = [agents EXCEPT ![a] = p], UNCHANGED <<balance, seized>>
    PROVE  Backs(a)
  <1>1. agents'[a] = p /\ \A c \in Agents \ {a} : agents'[c] = agents[c]
    BY Typed
  <1> QED
    BY <1>1, Typed DEF Backs

LEMMA SeizeBacks ==
    ASSUME IInv, NEW a \in Agents, NEW bps, NEW amount \in 1..agents[a].stake,
           Seize(a, amount, bps)
    PROVE  Backs(a)
  <1>1. amount \in Nat
    BY Typed
  <1>2. /\ balance'[Registry] = balance[Registry] - amount
        /\ balance'[Owner] = balance[Owner] + amount
    BY <1>1, Typed, TransferType DEF Seize
  <1>3. seized'[a] = seized[a] + amount /\ \A c \in Agents \ {a} : seized'[c] = seized[c]
    BY DEF Seize, IInv, TypeOK
  <1>4. /\ agents'[a] = Slashed(agents[a], amount, bps)
        /\ \A c \in Agents \ {a} : agents'[c] = agents[c]
    BY Typed DEF Seize
  <1>5. Slashed(agents[a], amount, bps).stake = agents[a].stake - amount
    BY Typed DEF Slashed, AgentProfile
  <1>6. /\ agents[a].stake \in Nat /\ seized[a] \in Nat
        /\ balance[Registry] \in Nat /\ balance[Owner] \in Nat
    BY Typed
  <1> QED
    BY ONLY <1>1, <1>2, <1>3, <1>4, <1>5, <1>6 DEF Backs

LEMMA AgentStepBacks ==
    ASSUME IInv, NEW a \in Agents, AgentStep(a)
    PROVE  Backs(a)
  <1>1. Amounts \subseteq Nat
    BY RegistryConstants
  <1>2. ASSUME NEW amount \in Amounts, RegisterAgent(a, amount) PROVE Backs(a)
    <2>1. agents[a].stake = 0
      BY <1>2 DEF RegisterAgent, Known, IInv, StandingMatchesStake, NoProfile
    <2>2. amount \in Nat /\ NewProfile(amount).stake = agents[a].stake + amount
      BY <1>1, <2>1 DEF NewProfile
    <2> QED
      BY <1>2, <2>2, PayInBacks DEF RegisterAgent
  <1>3. ASSUME NEW amount \in Amounts, AddStake(a, amount) PROVE Backs(a)
    <2>1. Staked(agents[a], amount).stake = agents[a].stake + amount
      BY Typed DEF Staked, AgentProfile
    <2> QED
      BY <1>1, <1>3, <2>1, PayInBacks DEF AddStake
  <1>4. ASSUME NEW amount \in Amounts, WithdrawStake(a, amount) PROVE Backs(a)
    <2> DEFINE p == [agents[a] EXCEPT !.stake = agents[a].stake - amount]
    <2>1. p.stake = agents[a].stake - amount
      BY Typed DEF AgentProfile
    <2>2. agents' = [agents EXCEPT ![a] = p]
      BY <1>4 DEF WithdrawStake
    <2> HIDE DEF p
    <2> QED
      BY <1>1, <1>4, <2>1, <2>2, PayOutBacks DEF WithdrawStake
  <1>5. ASSUME RequestPromotion(a) PROVE Backs(a)
    <2> DEFINE p == [agents[a] EXCEPT !.tier = agents[a].tier + 1]
    <2>1. p.stake = agents[a].stake
      BY Typed DEF AgentProfile
    <2>2. agents' = [agents EXCEPT ![a] = p] /\ UNCHANGED <<balance, seized>>
      BY <1>5 DEF RequestPromotion
    <2> HIDE DEF p
    <2> QED
      BY <2>1, <2>2, ScoreBacks
  <1>6. ASSUME DeregisterAgent(a) PROVE Backs(a)
    <2>1. Departed(agents[a]).stake = agents[a].stake - agents[a].stake
      BY Typed DEF Departed, AgentProfile
    <2> QED
      BY <1>6, <2>1, Typed, PayOutBacks DEF DeregisterAgent
  <1> QED
    BY <1>2, <1>3, <1>4, <1>5, <1>6 DEF AgentStep

LEMMA ScoringStepBacks ==
    ASSUME IInv, NEW a \in Agents, NEW caller, ScoringStep(caller, a)
    PROVE  Backs(a)
  <1>0. agents[a] \in AgentProfile
    BY Typed
  <1>1. ASSUME NEW delta \in Deltas, UpdateReputation(caller, a, delta) PROVE Backs(a)
    <2>1. Rescored(agents[a], delta).stake = agents[a].stake
      BY <1>0 DEF Rescored, WithReputation, AgentProfile
    <2> QED
      BY <1>1, <2>1, ScoreBacks DEF UpdateReputation
  <1>2. ASSUME NEW outcome \in Outcomes, RecordJobCompletion(caller, a, outcome) PROVE Backs(a)
    <2>1. JobRecorded(agents[a], outcome).stake = agents[a].stake
      BY <1>0 DEF JobRecorded, Rescored, WithReputation, AgentProfile
    <2> QED
      BY <1>2, <2>1, ScoreBacks DEF RecordJobCompletion
  <1>3. ASSUME NEW bps \in SlashRates, SlashAgent(caller, a, bps) PROVE Backs(a)
    BY <1>3, SeizeBacks DEF SlashAgent
  <1> QED
    BY <1>1, <1>2, <1>3 DEF ScoringStep

LEMMA NextStakesBacked == IInv /\ IInv' /\ StakesBacked /\ [Next]_vars => StakesBacked'
  <1> SUFFICES ASSUME IInv, IInv', StakesBacked, [Next]_vars
               PROVE  StakesBacked'
    OBVIOUS
  <1>1. CASE UNCHANGED <<agents, balance, seized>>
    BY <1>1 DEF StakesBacked
  <1>2. CASE \E a \in Agents : Backs(a)
    BY <1>2, BacksKeeps
  <1>3. ASSUME NEW a \in Agents, NEW reputation \in Seeds, SeedAgentReputation(a, reputation)
        PROVE  Backs(a)
    <2>1. WithReputation(agents[a], reputation).stake = agents[a].stake
      BY Typed DEF WithReputation, AgentProfile
    <2> QED
      BY <1>3, <2>1, ScoreBacks DEF SeedAgentReputation
  <1>4. CASE OwnerStep
    BY <1>1, <1>2, <1>3, <1>4 DEF OwnerStep, SetOrchestratorAndAuction, SetPaused
  <1>5. CASE UNCHANGED vars
    BY <1>1, <1>5 DEF vars
  <1> QED
    BY <1>2, <1>4, <1>5, AgentStepBacks, ScoringStepBacks DEF Next

LEMMA InitStakesBacked == Init => StakesBacked
  <1> SUFFICES ASSUME Init
               PROVE  StakesBacked
    OBVIOUS
  <1> DEFINE stakes == [a \in Agents |-> agents[a].stake]
  <1>1. \A a \in Agents : stakes[a] = 0 /\ seized[a] = 0
    BY DEF Init, NoProfile
  <1>2. DOMAIN stakes = Agents /\ DOMAIN seized = Agents
    BY DEF Init
  <1>3. balance[Registry] = 0 /\ balance[Owner] = 0
    BY AccountsDistinct DEF Init
  <1>4. IsFiniteSet(Agents)
    BY AccountsAssumption
  <1> HIDE DEF stakes
  <1>5. SumFunctionOnSet(stakes, Agents) = 0 /\ SumFunctionOnSet(seized, Agents) = 0
    BY <1>1, <1>4, SumZero
  <1> QED
    BY <1>2, <1>3, <1>5 DEF StakesBacked, SumFunction, stakes

\* The registry's account holds the stakes of all agents and the owner's all
\* that was seized, for any number of agents and any amounts: a withdrawal, an
\* exit and a slash can always be paid.
THEOREM StakesBackedHolds == Spec => []StakesBacked
  <1> QED
    BY InductiveInvariant, InitStakesBacked, NextStakesBacked, PTL DEF Spec

-----------------------------------------------------------------------------
(***************************************************************************)
(* AuditVault.                                                             *)
(***************************************************************************)

LEMMA VaultFinite == \A S : Vault!IsFiniteSet(S) <=> IsFiniteSet(S)
BY DEF Vault!IsFiniteSet, IsFiniteSet

LEMMA VaultSums == \A f : Vault!SumFunction(f) = SumFunction(f)
BY DEF Vault!SumFunction, Vault!SumFunctionOnSet, Vault!FoldFunctionOnSet, Vault!MapThenFoldSet,
       SumFunction, SumFunctionOnSet, FoldFunctionOnSet, MapThenFoldSet

Config == [weekly: Nat, bounty: Nat, reaudit: BOOLEAN, single: Nat, bids: BOOLEAN]
Monitoring == [active: BOOLEAN, agent: Monitors, weeklyRate: Nat, lastPaymentAt: Nat]

VaultTypes ==
    /\ clock \in Nat /\ config \in Config
    /\ depositorBalances \in [Depositors -> Nat]
    /\ currentBalance \in Nat /\ reservedForEscrow \in Nat
    /\ criticalBountyPool \in Nat /\ criticalBountySpent \in Nat
    /\ activeMonitor \in Monitoring /\ activeMonitor.lastPaymentAt <= clock
    /\ weeklyMonitoringSpent \in Nat /\ weeklyResetTimestamp \in Nat
    /\ spent \in Nat
    /\ served \in [Monitors -> Nat] /\ paid \in [Monitors -> Nat]

\* What the monitor's rate has amounted to since it was last paid.
Unclaimed == activeMonitor.weeklyRate * (clock - activeMonitor.lastPaymentAt)

\* A monitor's own claim is counted before it is paid.
ClaimsWithinService ==
    activeMonitor.active =>
        paid[activeMonitor.agent] * Week + Unclaimed <= served[activeMonitor.agent]

VaultIInv == VaultTypes /\ Vault!VaultWithinLimits /\ ClaimsWithinService

\* What a call pays out never exceeds the share it is a part of.
LEMMA ShareOfWeek ==
    ASSUME NEW n \in Nat, NEW w \in Nat \ {0}, NEW q \in Nat, q <= n \div w
    PROVE  q * w <= n
  <1>1. (n \div w) * w <= n
    OBVIOUS
  <1>2. n \div w \in Nat
    OBVIOUS
  <1> DEFINE d == n \div w
  <1>3. q * w <= d * w
    <2>1. PICK e \in Nat : d = q + e
      <3>1. d - q \in Nat /\ d = q + (d - q)
        BY <1>2
      <3> QED BY <3>1
    <2>2. (q + e) * w = q * w + e * w /\ e * w \in Nat /\ q * w \in Nat
      BY <2>1
    <2> QED BY <2>1, <2>2
  <1> QED BY <1>1, <1>2, <1>3

\* _settleMonitoringPayment: what is owed is unsigned, is neither reserved nor
\* missing from the balance, and is covered by the time served.
LEMMA OwedBounds ==
    ASSUME Vault!ConstantsOK, VaultIInv
    PROVE  /\ Vault!Owed \in Nat /\ Vault!Owed <= Vault!Available
           /\ Vault!SpentInWindow \in Nat
           /\ Vault!Owed * Week <= Unclaimed /\ Unclaimed \in Nat
  <1>1. Vault!Available \in Nat /\ Vault!SpentInWindow \in Nat /\ Week \in Nat \ {0}
    BY DEF VaultIInv, VaultTypes, Vault!Available, Vault!Above, Vault!SpentInWindow,
           Vault!ConstantsOK
  <1>2. Vault!Above(config.weekly, Vault!SpentInWindow) \in Nat
    BY <1>1 DEF Vault!Above, VaultIInv, VaultTypes, Config
  <1>3. Unclaimed \in Nat
    <2>1. activeMonitor.weeklyRate \in Nat /\ clock - activeMonitor.lastPaymentAt \in Nat
      BY DEF VaultIInv, VaultTypes, Monitoring
    <2> QED BY <2>1 DEF Unclaimed
  <1>4. Unclaimed \div Week \in Nat
    BY <1>1, <1>3
  <1>5. Vault!Owed = Vault!Smaller(Unclaimed \div Week,
                       Vault!Smaller(Vault!Above(config.weekly, Vault!SpentInWindow),
                                     Vault!Available))
    BY DEF Vault!Owed, Unclaimed
  <1>6. Vault!Owed \in Nat /\ Vault!Owed <= Vault!Available /\ Vault!Owed <= Unclaimed \div Week
    BY <1>1, <1>2, <1>4, <1>5 DEF Vault!Smaller
  <1>7. Vault!Owed * Week <= Unclaimed
    BY <1>1, <1>3, <1>6, ShareOfWeek
  <1> QED BY <1>1, <1>3, <1>6, <1>7

\* A new vault has neither GUARD nor monitor.
LEMMA VaultInit == Vault!ConstantsOK /\ Vault!Init => VaultIInv
  <1> SUFFICES ASSUME Vault!ConstantsOK, Vault!Init PROVE VaultIInv
    OBVIOUS
  <1>1. (CHOOSE a \in Monitors : TRUE) \in Monitors
    BY DEF Vault!ConstantsOK
  <1>2. VaultTypes
    BY <1>1 DEF Vault!Init, Vault!ConstantsOK, VaultTypes, Monitoring, Config
  <1>3. SumFunction(depositorBalances) = 0
    <2>1. DOMAIN depositorBalances = Depositors /\ \A d \in Depositors : depositorBalances[d] = 0
      BY DEF Vault!Init
    <2> QED BY <2>1, SumZero, VaultFinite DEF SumFunction, Vault!ConstantsOK
  <1>4. Vault!ReservesKept
    BY <1>3, VaultSums DEF Vault!Init, Vault!ReservesKept
  <1>5. Vault!MonitorsEarnTheirRate
    BY DEF Vault!Init, Vault!MonitorsEarnTheirRate, Vault!ConstantsOK
  <1> QED BY <1>2, <1>4, <1>5 DEF VaultIInv, Vault!VaultWithinLimits, ClaimsWithinService, Vault!Init

\* Calls that leave the monitor and the clock alone leave what is said of them.
LEMMA MonitorUntouched ==
    ASSUME VaultIInv, UNCHANGED <<clock, activeMonitor, served, paid>>
    PROVE  Vault!MonitorsEarnTheirRate' /\ ClaimsWithinService'
BY DEF VaultIInv, Vault!VaultWithinLimits, Vault!MonitorsEarnTheirRate, ClaimsWithinService, Unclaimed

\* deposit and withdraw change one depositor's balance and the vault's alike.
LEMMA DepositStep ==
    ASSUME Vault!ConstantsOK, VaultIInv, NEW d \in Depositors, NEW n \in Draws,
           Vault!deposit(d, n) \/ Vault!withdraw(d, n)
    PROVE  VaultIInv'
  <1>1. n \in Nat /\ IsFiniteSet(Depositors)
    BY VaultFinite DEF Vault!ConstantsOK
  <1>2. PICK k \in Int : /\ depositorBalances' = [depositorBalances EXCEPT ![d] = @ + k]
                         /\ currentBalance' = currentBalance + k
                         /\ depositorBalances[d] + k \in Nat /\ currentBalance + k \in Nat
                         /\ reservedForEscrow <= currentBalance + k + criticalBountySpent
    <2>1. CASE Vault!deposit(d, n)
      <3>1. /\ depositorBalances' = [depositorBalances EXCEPT ![d] = @ + n]
            /\ currentBalance' = currentBalance + n
            /\ depositorBalances[d] + n \in Nat /\ currentBalance + n \in Nat
            /\ reservedForEscrow <= currentBalance + n + criticalBountySpent
        BY <1>1, <2>1 DEF VaultIInv, VaultTypes, Vault!deposit, Vault!VaultWithinLimits,
                          Vault!ReservesKept
      <3>2. n \in Int
        BY <1>1
      <3> QED BY <3>1, <3>2, Zenon
    <2>2. CASE Vault!withdraw(d, n)
      <3>1. /\ depositorBalances' = [depositorBalances EXCEPT ![d] = @ - n]
            /\ currentBalance' = currentBalance - n
            /\ depositorBalances[d] >= n
            /\ currentBalance >= reservedForEscrow /\ Vault!Available >= n
        BY <2>2 DEF Vault!withdraw
      <3>2. -n \in Int /\ depositorBalances[d] \in Nat
        BY <1>1 DEF VaultIInv, VaultTypes
      <3>3. depositorBalances' = [depositorBalances EXCEPT ![d] = @ + (-n)]
        BY <1>1, <3>1, <3>2 DEF VaultIInv, VaultTypes
      <3>4. currentBalance - n >= reservedForEscrow
        BY <1>1, <3>1 DEF Vault!Available, Vault!Above, VaultIInv, VaultTypes
      <3>5. /\ currentBalance' = currentBalance + (-n)
            /\ depositorBalances[d] + (-n) \in Nat /\ currentBalance + (-n) \in Nat
            /\ reservedForEscrow <= currentBalance + (-n) + criticalBountySpent
        BY <1>1, <3>1, <3>2, <3>4 DEF VaultIInv, VaultTypes
      <3> QED BY <3>2, <3>3, <3>5, Zenon
    <2> QED BY <2>1, <2>2
  <1>3. /\ UNCHANGED <<clock, config, reservedForEscrow, criticalBountySpent, activeMonitor,
                       weeklyMonitoringSpent, weeklyResetTimestamp, paid, spent, served>>
        /\ criticalBountyPool' \in Nat
    BY <1>1 DEF Vault!deposit, Vault!withdraw, Vault!monitorVars, Vault!bountyVars, Vault!Smaller,
                Vault!Above, VaultIInv, VaultTypes, Config
  <1>4. VaultTypes'
    BY <1>2, <1>3 DEF VaultIInv, VaultTypes
  <1>5. SumFunction(depositorBalances') = SumFunction(depositorBalances) + k
    <2>1. /\ DOMAIN depositorBalances = Depositors /\ DOMAIN depositorBalances' = Depositors
          /\ \A x \in Depositors : depositorBalances[x] \in Int /\ depositorBalances'[x] \in Int
          /\ \A x \in Depositors \ {d} : depositorBalances[x] = depositorBalances'[x]
          /\ depositorBalances'[d] = depositorBalances[d] + k
      BY <1>2, <1>4 DEF VaultIInv, VaultTypes
    <2>2. SumFunctionOnSet(depositorBalances', Depositors) =
            SumFunctionOnSet(depositorBalances, Depositors)
              + depositorBalances'[d] - depositorBalances[d]
      BY <1>1, <2>1, SumOneChanged
    <2>3. SumFunctionOnSet(depositorBalances, Depositors) \in Int
      BY <1>1, <2>1, SumInteger
    <2> QED BY <1>2, <2>1, <2>2, <2>3 DEF SumFunction
  <1>6. Vault!ReservesKept'
    BY <1>2, <1>3, <1>5, VaultSums
    DEF VaultIInv, VaultTypes, Vault!VaultWithinLimits, Vault!ReservesKept
  <1> QED BY <1>3, <1>4, <1>6, MonitorUntouched DEF VaultIInv, Vault!VaultWithinLimits

\* The drawers' calls move GUARD between the balance and what was spent.
LEMMA DrawerStep ==
    ASSUME Vault!ConstantsOK, VaultIInv, NEW n \in Draws,
           \/ Vault!reserveForAuction(n) \/ Vault!drawPayment(n)
           \/ Vault!releaseReservation(n) \/ Vault!drawBounty(n)
    PROVE  VaultIInv'
  <1>1. n \in Nat
    BY DEF Vault!ConstantsOK
  <1>2. /\ UNCHANGED <<clock, config, depositorBalances, criticalBountyPool, activeMonitor,
                       weeklyMonitoringSpent, weeklyResetTimestamp, paid, served>>
        /\ currentBalance' \in Nat /\ reservedForEscrow' \in Nat
        /\ criticalBountySpent' \in Nat /\ spent' \in Nat
        /\ currentBalance' + spent' = currentBalance + spent
        /\ reservedForEscrow' <= currentBalance' + criticalBountySpent'
    <2>0. /\ currentBalance \in Nat /\ reservedForEscrow \in Nat /\ spent \in Nat
          /\ criticalBountySpent \in Nat
          /\ reservedForEscrow <= currentBalance + criticalBountySpent
      BY DEF VaultIInv, VaultTypes, Vault!VaultWithinLimits, Vault!ReservesKept
    <2>1. CASE Vault!reserveForAuction(n)
      BY <1>1, <2>0, <2>1 DEF Vault!reserveForAuction, Vault!monitorVars, Vault!bountyVars,
           Vault!Available, Vault!Above
    <2>2. CASE Vault!drawPayment(n)
      BY <1>1, <2>0, <2>2 DEF Vault!drawPayment, Vault!monitorVars, Vault!bountyVars
    <2>3. CASE Vault!releaseReservation(n)
      BY <1>1, <2>0, <2>3 DEF Vault!releaseReservation, Vault!monitorVars, Vault!bountyVars
    <2>4. CASE Vault!drawBounty(n)
      BY <1>1, <2>0, <2>4 DEF Vault!drawBounty, Vault!monitorVars
    <2> QED BY <2>1, <2>2, <2>3, <2>4
  <1>3. VaultTypes' /\ Vault!ReservesKept'
    BY <1>2 DEF VaultIInv, VaultTypes, Vault!VaultWithinLimits, Vault!ReservesKept
  <1> QED BY <1>2, <1>3, MonitorUntouched DEF VaultIInv, Vault!VaultWithinLimits

\* A settlement pays the monitor within its time, and starts the time anew for
\* whoever is the monitor afterwards.
LEMMA SettledStep ==
    ASSUME Vault!ConstantsOK, VaultIInv, activeMonitor.active, NEW m \in Monitoring,
           Vault!Settled(m), m.lastPaymentAt <= clock, m.active => m.lastPaymentAt = clock
    PROVE  VaultIInv'
  <1> DEFINE o == Vault!Owed
             a == activeMonitor.agent
  <1>1. /\ o \in Nat /\ o <= Vault!Available /\ Vault!SpentInWindow \in Nat
        /\ o * Week <= Unclaimed /\ Unclaimed \in Nat /\ Week \in Nat \ {0}
    BY OwedBounds DEF Vault!ConstantsOK
  <1>2. /\ weeklyMonitoringSpent' = Vault!SpentInWindow + o
        /\ weeklyResetTimestamp' \in {clock, weeklyResetTimestamp}
        /\ currentBalance' = currentBalance - o /\ spent' = spent + o
        /\ paid' = [paid EXCEPT ![a] = @ + o] /\ activeMonitor' = m
        /\ UNCHANGED <<clock, config, depositorBalances, reservedForEscrow, criticalBountyPool,
                       criticalBountySpent, served>>
    BY DEF Vault!Settled, Vault!bountyVars
  <1>3. a \in Monitors /\ paid[a] \in Nat /\ served[a] \in Nat
    BY DEF VaultIInv, VaultTypes, Monitoring
  <1> HIDE DEF o, a
  <1>4. /\ currentBalance - o \in Nat
        /\ reservedForEscrow <= currentBalance - o + criticalBountySpent
    BY <1>1 DEF Vault!Available, Vault!Above, VaultIInv, VaultTypes, Vault!VaultWithinLimits,
                Vault!ReservesKept
  <1>5. VaultTypes'
    BY <1>1, <1>2, <1>3, <1>4 DEF VaultIInv, VaultTypes
  <1>6. Vault!ReservesKept'
    BY <1>1, <1>2, <1>4 DEF VaultIInv, VaultTypes, Vault!VaultWithinLimits, Vault!ReservesKept
  <1>7. (paid[a] + o) * Week <= served[a]
    <2>1. paid[a] * Week + Unclaimed <= served[a]
      BY DEF VaultIInv, ClaimsWithinService, a
    <2>2. (paid[a] + o) * Week = paid[a] * Week + o * Week /\ paid[a] * Week \in Nat
          /\ o * Week \in Nat
      BY <1>1, <1>3
    <2> QED BY <1>1, <1>3, <2>1, <2>2
  <1>8. Vault!MonitorsEarnTheirRate'
    <2> SUFFICES ASSUME NEW b \in Monitors PROVE paid'[b] * Week <= served'[b]
      BY DEF Vault!MonitorsEarnTheirRate
    <2>1. CASE b = a
      BY <1>2, <1>3, <1>7, <2>1 DEF VaultIInv, VaultTypes
    <2>2. CASE b # a
      <3>1. paid'[b] = paid[b] /\ served'[b] = served[b]
        BY <1>2, <2>2 DEF VaultIInv, VaultTypes
      <3> QED BY <3>1 DEF VaultIInv, Vault!VaultWithinLimits, Vault!MonitorsEarnTheirRate
    <2> QED BY <2>1, <2>2
  <1>9. ClaimsWithinService'
    <2> SUFFICES ASSUME m.active
                 PROVE  paid'[m.agent] * Week + Unclaimed' <= served'[m.agent]
      BY <1>2 DEF ClaimsWithinService
    <2>1. Unclaimed' = 0
      <3>1. Unclaimed' = m.weeklyRate * (clock - clock) /\ m.weeklyRate \in Nat /\ clock \in Nat
        BY <1>2 DEF Unclaimed, Monitoring, VaultIInv, VaultTypes
      <3> QED BY <3>1
    <2>2. m.agent \in Monitors /\ paid'[m.agent] * Week <= served'[m.agent]
      BY <1>8 DEF Vault!MonitorsEarnTheirRate, Monitoring
    <2>3. paid'[m.agent] * Week \in Nat
      BY <1>1, <1>5, <2>2 DEF VaultTypes
    <2> QED BY <2>1, <2>2, <2>3
  <1> QED BY <1>5, <1>6, <1>8, <1>9 DEF VaultIInv, Vault!VaultWithinLimits

LEMMA MonitoringStep ==
    ASSUME Vault!ConstantsOK, VaultIInv,
           \/ \E a \in Monitors, rate \in Rates : Vault!applyForMonitoring(a, rate)
           \/ Vault!claimMonitoringPayment \/ Vault!cancelMonitoring
    PROVE  VaultIInv'
  <1>1. activeMonitor \in Monitoring /\ activeMonitor.lastPaymentAt <= clock /\ clock \in Nat
    BY DEF VaultIInv, VaultTypes
  <1>2. ASSUME NEW a \in Monitors, NEW rate \in Rates, Vault!applyForMonitoring(a, rate)
        PROVE  VaultIInv'
    <2> DEFINE m == Vault!Subscription(a, rate)
    <2>1. m \in Monitoring /\ m.lastPaymentAt = clock /\ m.weeklyRate \in Nat
      BY <1>1 DEF Vault!Subscription, Monitoring, Vault!ConstantsOK
    <2>2. CASE activeMonitor.active
      BY <1>1, <1>2, <2>1, <2>2, SettledStep DEF Vault!applyForMonitoring
    <2>3. CASE ~activeMonitor.active
      <3>1. /\ activeMonitor' = m
            /\ UNCHANGED <<clock, config, depositorBalances, currentBalance, reservedForEscrow,
                           criticalBountyPool, criticalBountySpent, weeklyMonitoringSpent,
                           weeklyResetTimestamp, paid, spent, served>>
        BY <1>2, <2>3 DEF Vault!applyForMonitoring, Vault!bountyVars
      <3>2. VaultTypes' /\ Vault!VaultWithinLimits'
        BY <2>1, <3>1, <1>1 DEF VaultIInv, VaultTypes, Vault!VaultWithinLimits,
             Vault!ReservesKept, Vault!MonitorsEarnTheirRate
      <3>3. Unclaimed' = 0
        <4>1. Unclaimed' = m.weeklyRate * (clock - clock)
          BY <2>1, <3>1 DEF Unclaimed
        <4> QED BY <1>1, <2>1, <4>1
      <3>4. m.agent \in Monitors /\ Week \in Nat
        BY <2>1 DEF Monitoring, Vault!ConstantsOK
      <3>5. paid[m.agent] * Week \in Nat /\ paid[m.agent] * Week <= served[m.agent]
        BY <3>4 DEF VaultIInv, VaultTypes, Vault!VaultWithinLimits, Vault!MonitorsEarnTheirRate
      <3>6. ClaimsWithinService'
        BY <3>1, <3>3, <3>5 DEF ClaimsWithinService
      <3> QED BY <3>2, <3>6 DEF VaultIInv
    <2> QED BY <2>2, <2>3
  <1>3. ASSUME Vault!claimMonitoringPayment PROVE VaultIInv'
    <2> DEFINE m == Vault!PaidUpTo(activeMonitor)
    <2>1. m \in Monitoring /\ m.lastPaymentAt = clock
      BY <1>1 DEF Vault!PaidUpTo, Monitoring
    <2> QED BY <1>1, <1>3, <2>1, SettledStep DEF Vault!claimMonitoringPayment
  <1>4. ASSUME Vault!cancelMonitoring PROVE VaultIInv'
    <2> DEFINE m == Vault!NoMonitor(activeMonitor)
    <2>1. m \in Monitoring /\ ~m.active /\ m.lastPaymentAt <= clock
      BY <1>1 DEF Vault!NoMonitor, Monitoring
    <2> QED BY <1>4, <2>1, SettledStep DEF Vault!cancelMonitoring
  <1> QED BY <1>2, <1>3, <1>4

\* A moment of time is a moment of service for the monitor there is.
LEMMA VaultTick ==
    ASSUME Vault!ConstantsOK, VaultIInv, Vault!Tick
    PROVE  VaultIInv'
  <1> DEFINE m == activeMonitor
  <1>1. /\ clock' = clock + 1 /\ clock \in Nat
        /\ served' = IF m.active THEN [served EXCEPT ![m.agent] = @ + m.weeklyRate] ELSE served
        /\ UNCHANGED <<config, depositorBalances, currentBalance, reservedForEscrow,
                       criticalBountyPool, criticalBountySpent, activeMonitor,
                       weeklyMonitoringSpent, weeklyResetTimestamp, paid, spent>>
    BY DEF Vault!Tick, Vault!monitorVars, Vault!bountyVars, VaultIInv, VaultTypes
  <1>2. m.agent \in Monitors /\ m.weeklyRate \in Nat /\ m.lastPaymentAt \in Nat
        /\ m.lastPaymentAt <= clock /\ served \in [Monitors -> Nat] /\ paid \in [Monitors -> Nat]
    BY DEF VaultIInv, VaultTypes, Monitoring
  <1>3. VaultTypes' /\ Vault!ReservesKept'
    BY <1>1, <1>2 DEF VaultIInv, VaultTypes, Vault!VaultWithinLimits, Vault!ReservesKept
  <1>4. Vault!MonitorsEarnTheirRate'
    <2> SUFFICES ASSUME NEW b \in Monitors PROVE paid[b] * Week <= served'[b]
      BY <1>1 DEF Vault!MonitorsEarnTheirRate
    <2>1. served'[b] \in Nat /\ served[b] \in Nat /\ served'[b] >= served[b]
      BY <1>1, <1>2
    <2>2. paid[b] * Week <= served[b] /\ paid[b] * Week \in Nat
      BY <1>2 DEF VaultIInv, Vault!VaultWithinLimits, Vault!MonitorsEarnTheirRate,
                  Vault!ConstantsOK
    <2> QED BY <2>1, <2>2
  <1>5. ClaimsWithinService'
    <2> SUFFICES ASSUME m.active PROVE paid[m.agent] * Week + Unclaimed' <= served'[m.agent]
      BY <1>1 DEF ClaimsWithinService
    <2>1. Unclaimed' = Unclaimed + m.weeklyRate /\ Unclaimed \in Nat
      <3> DEFINE past == clock - m.lastPaymentAt
      <3>1. past \in Nat /\ clock' - m.lastPaymentAt = past + 1
        BY <1>1, <1>2
      <3>2. Unclaimed = m.weeklyRate * past /\ Unclaimed' = m.weeklyRate * (past + 1)
        BY <1>1, <3>1 DEF Unclaimed
      <3> HIDE DEF past
      <3> QED BY <1>2, <3>1, <3>2
    <2>2. paid[m.agent] * Week + Unclaimed <= served[m.agent] /\ paid[m.agent] * Week \in Nat
      BY <1>2 DEF VaultIInv, ClaimsWithinService, Vault!ConstantsOK
    <2>3. served'[m.agent] = served[m.agent] + m.weeklyRate /\ served[m.agent] \in Nat
      BY <1>1, <1>2
    <2> QED BY <1>2, <2>1, <2>2, <2>3
  <1> QED BY <1>3, <1>4, <1>5 DEF VaultIInv, Vault!VaultWithinLimits

LEMMA VaultStep ==
    ASSUME Vault!ConstantsOK, VaultIInv, [Vault!Next]_Vault!vaultVars
    PROVE  VaultIInv'
  <1> DEFINE Untouched ==
        UNCHANGED <<clock, depositorBalances, currentBalance, reservedForEscrow, criticalBountyPool,
                    criticalBountySpent, activeMonitor, weeklyMonitoringSpent,
                    weeklyResetTimestamp, paid, spent, served>>
  <1>1. ASSUME Untouched, config' \in Config PROVE VaultIInv'
    <2>1. VaultTypes' /\ Vault!ReservesKept'
      BY <1>1 DEF VaultIInv, VaultTypes, Vault!VaultWithinLimits, Vault!ReservesKept
    <2> QED BY <1>1, <2>1, MonitorUntouched DEF VaultIInv, Vault!VaultWithinLimits
  <1>2. config \in Config
    BY DEF VaultIInv, VaultTypes
  <1>3. ASSUME \/ Vault!recordAuditCompletion \/ Vault!checkAndTriggerReaudit
               \/ UNCHANGED Vault!vaultVars
        PROVE  VaultIInv'
    BY <1>1, <1>2, <1>3 DEF Vault!recordAuditCompletion, Vault!checkAndTriggerReaudit,
         Vault!vaultVars, Vault!monitorVars, Vault!bountyVars
  <1>4. ASSUME NEW c \in Configs, Vault!updateConfig(c) PROVE VaultIInv'
    BY <1>1, <1>4 DEF Vault!updateConfig, Vault!monitorVars, Vault!bountyVars,
         Vault!ConstantsOK, Config
  <1> QED BY <1>3, <1>4, DepositStep, DrawerStep, MonitoringStep, VaultTick DEF Vault!Next

\* What was deposited is there or was spent, nothing but bounties eats into what
\* is reserved for auctions, and no monitor is paid beyond its rates: for every
\* order of deposits, withdrawals, draws, bids of monitors, payments and changes
\* of the configuration, and every number of depositors and monitors.
THEOREM VaultLimits == Vault!Spec => []VaultWithinLimits
  <1>1. Vault!Init => VaultIInv
    BY VaultInit, ServiceAssumption
  <1>2. VaultIInv /\ [Vault!Next]_Vault!vaultVars => VaultIInv'
    BY VaultStep, ServiceAssumption
  <1>3. VaultIInv => VaultWithinLimits
    BY DEF VaultIInv, VaultWithinLimits
  <1> QED BY <1>1, <1>2, <1>3, PTL DEF Vault!Spec

-----------------------------------------------------------------------------
(***************************************************************************)
(* DataMarketplace.                                                        *)
(***************************************************************************)

Listing == [seller: Traders, kind: {"ONE_TIME", "SUBSCRIPTION"}, maxBuyers: Nat,
            status: {"ACTIVE", "SOLD_OUT", "DELISTED"}, expiresAt: Nat]
Purchase == [buyer: Traders, rating: Nat, end: Nat]

MarketTypes ==
    /\ clock \in Nat
    /\ listings \in Seq(Listing)
    /\ purchases \in Seq(Seq(Purchase)) /\ Len(purchases) = Len(listings)
    /\ entitled \in Seq([Traders -> Nat]) /\ Len(entitled) = Len(listings)

\* Who has bought nothing has paid for nothing; who has, has what PaidTimeIsKept
\* says.
Kept(l, b) ==
    listings[l].kind = "SUBSCRIPTION" =>
        IF ~Market!HasAccess(l, b) THEN entitled[l][b] = 0
        ELSE LET end == purchases[l][Market!Latest(l, b)].end
             IN  /\ end <= entitled[l][b]
                 /\ (\E i \in Market!Bought(l, b) : Market!Bought(l, b) = {i}) => end = entitled[l][b]

MarketIInv == MarketTypes /\ \A l \in Market!Listings, b \in Traders : Kept(l, b)

\* A set of indices of a sequence has a greatest, the one that Max chooses.
LEMMA GreatestIndex ==
    ASSUME NEW n \in Nat, NEW S \in SUBSET (1..n), S # {}
    PROVE  /\ Market!Max(S) \in S
           /\ \A i \in S : Market!Max(S) >= i
  <1> DEFINE T == {n - i : i \in S}
  <1>0. \A i \in S : i \in Int /\ n - i \in Nat
    OBVIOUS
  <1>1. T \subseteq Nat /\ T # {}
    BY <1>0, Zenon
  <1>2. PICK m \in T : \A k \in T : m <= k
    BY <1>1, LeastNatural
  <1>3. PICK i \in S : m = n - i
    BY <1>2
  <1>4. \A k \in S : i >= k
    <2> SUFFICES ASSUME NEW k \in S PROVE i >= k
      OBVIOUS
    <2>1. n - k \in T /\ i \in Int /\ k \in Int
      BY <1>0, Zenon
    <2>2. m <= n - k
      BY <1>2, <2>1
    <2> QED BY <1>3, <2>1, <2>2
  <1> QED BY <1>4 DEF Market!Max

LEMMA MarketCardinality == \A S : Market!Cardinality(S) = Cardinality(S)
BY DEF Market!Cardinality, Cardinality

\* The purchases of a buyer are indices of the listing's purchases.
LEMMA BoughtIndices ==
    ASSUME MarketTypes, NEW l \in Market!Listings, NEW b \in Traders
    PROVE  /\ l \in DOMAIN purchases /\ l \in DOMAIN entitled
           /\ purchases[l] \in Seq(Purchase) /\ Len(purchases[l]) \in Nat
           /\ entitled[l] \in [Traders -> Nat] /\ listings[l] \in Listing
           /\ Market!Bought(l, b) \subseteq 1..Len(purchases[l])
           /\ Market!HasAccess(l, b) =>
                /\ Market!Latest(l, b) \in Market!Bought(l, b)
                /\ Market!Latest(l, b) \in 1..Len(purchases[l])
                /\ \A i \in Market!Bought(l, b) : Market!Latest(l, b) >= i
                /\ purchases[l][Market!Latest(l, b)] \in Purchase
                /\ purchases[l][Market!Latest(l, b)].buyer = b
  <1>1. /\ l \in 1..Len(listings) /\ l \in DOMAIN purchases /\ l \in DOMAIN entitled
        /\ listings[l] \in Listing
    BY DEF MarketTypes, Market!Listings
  <1>2. purchases[l] \in Seq(Purchase) /\ entitled[l] \in [Traders -> Nat]
    BY <1>1, ElementOfSeq DEF MarketTypes
  <1>3. DOMAIN purchases[l] = 1..Len(purchases[l]) /\ Len(purchases[l]) \in Nat
    BY <1>2
  <1>4. Market!Bought(l, b) \subseteq 1..Len(purchases[l])
    BY <1>3 DEF Market!Bought
  <1>5. ASSUME Market!HasAccess(l, b)
        PROVE  /\ Market!Latest(l, b) \in Market!Bought(l, b)
               /\ \A i \in Market!Bought(l, b) : Market!Latest(l, b) >= i
    BY <1>3, <1>4, <1>5, GreatestIndex DEF Market!HasAccess, Market!Latest
  <1>6. ASSUME Market!HasAccess(l, b)
        PROVE  /\ Market!Latest(l, b) \in 1..Len(purchases[l])
               /\ purchases[l][Market!Latest(l, b)] \in Purchase
               /\ purchases[l][Market!Latest(l, b)].buyer = b
    <2>1. Market!Latest(l, b) \in 1..Len(purchases[l])
      BY <1>4, <1>5, <1>6
    <2>2. purchases[l][Market!Latest(l, b)] \in Purchase
      BY <1>2, <2>1, ElementOfSeq
    <2> QED BY <1>5, <1>6, <2>1, <2>2 DEF Market!Bought
  <1> QED BY <1>1, <1>2, <1>3, <1>4, <1>5, <1>6

\* The invariant says what the property says.
LEMMA KeptIsPaidTime == MarketIInv => Market!PaidTimeIsKept
  <1> SUFFICES ASSUME MarketIInv, NEW l \in Market!Listings, NEW b \in Traders,
                      listings[l].kind = "SUBSCRIPTION", Market!HasAccess(l, b)
               PROVE  LET end == purchases[l][Market!Latest(l, b)].end
                      IN  IF Market!Cardinality(Market!Bought(l, b)) = 1
                          THEN end = entitled[l][b] ELSE end <= entitled[l][b]
    BY DEF Market!PaidTimeIsKept
  <1>1. Kept(l, b)
    BY DEF MarketIInv
  <1>2. Market!Cardinality(Market!Bought(l, b)) = 1 =>
          \E i \in Market!Bought(l, b) : Market!Bought(l, b) = {i}
    <2>1. Market!Bought(l, b) \subseteq 1..Len(purchases[l]) /\ Len(purchases[l]) \in Nat
      BY BoughtIndices DEF MarketIInv
    <2>2. IsFiniteSet(Market!Bought(l, b))
      <3>1. IsFiniteSet(1..Len(purchases[l]))
        BY <2>1, FS_Interval
      <3> QED BY <2>1, <3>1, FS_Subset
    <2> QED BY <2>2, MarketCardinality, FS_Singleton
  <1> QED BY <1>1, <1>2 DEF Kept

\* What a step leaves alone of a listing keeps what is said of it.
LEMMA SamePurchases ==
    ASSUME NEW l, NEW b, Kept(l, b),
           listings'[l].kind = listings[l].kind, entitled'[l][b] = entitled[l][b],
           DOMAIN purchases'[l] = DOMAIN purchases[l],
           \A i \in DOMAIN purchases[l] : /\ purchases'[l][i].buyer = purchases[l][i].buyer
                                          /\ purchases'[l][i].end = purchases[l][i].end,
           Market!HasAccess(l, b) => Market!Latest(l, b) \in DOMAIN purchases[l]
    PROVE  Kept(l, b)'
  <1>1. Market!Bought(l, b)' = Market!Bought(l, b)
    BY DEF Market!Bought
  <1>2. Market!HasAccess(l, b)' = Market!HasAccess(l, b) /\ Market!Latest(l, b)' = Market!Latest(l, b)
    BY <1>1 DEF Market!HasAccess, Market!Latest
  <1> QED BY <1>1, <1>2 DEF Kept

LEMMA MarketInit == Market!Init => MarketIInv
BY DEF Market!Init, MarketIInv, MarketTypes, Market!Listings

\* createListing: a new listing has neither buyers nor payments.
LEMMA CreateStep ==
    ASSUME Market!ConstantsOK, MarketIInv, NEW a \in Traders,
           NEW kind \in {"ONE_TIME", "SUBSCRIPTION"}, NEW n \in Capacities, NEW d \in Lifetimes,
           Market!CreateListing(a, kind, n, d)
    PROVE  MarketIInv'
  <1>1. PICK new : /\ new = [seller |-> a, kind |-> kind, maxBuyers |-> n, status |-> "ACTIVE",
                             expiresAt |-> IF d > 0 THEN clock + d ELSE 0]
                   /\ listings' = Append(listings, new)
    BY DEF Market!CreateListing
  <1>2. /\ purchases' = Append(purchases, <<>>) /\ clock' = clock
        /\ entitled' = Append(entitled, [b \in Traders |-> 0])
    BY DEF Market!CreateListing
  <1>3. new \in Listing
    BY <1>1 DEF Listing, Market!ConstantsOK, MarketIInv, MarketTypes
  <1>4. <<>> \in Seq(Purchase) /\ [b \in Traders |-> 0] \in [Traders -> Nat]
    OBVIOUS
  <1>5. MarketTypes /\ Len(listings) \in Nat
    BY DEF MarketIInv, MarketTypes
  <1>6. MarketTypes'
    BY <1>1, <1>2, <1>3, <1>4, <1>5, AppendProperties DEF MarketTypes
  <1>7. ASSUME NEW l \in Market!Listings', NEW b \in Traders PROVE Kept(l, b)'
    <2>1. CASE l = Len(listings) + 1
      <3>1. purchases'[l] = <<>> /\ entitled'[l] = [c \in Traders |-> 0]
        BY <1>2, <1>5, <2>1 DEF MarketTypes
      <3>2. Market!Bought(l, b)' = {}
        BY <3>1 DEF Market!Bought
      <3> QED BY <3>1, <3>2 DEF Kept, Market!HasAccess
    <2>2. CASE l # Len(listings) + 1
      <3>1. l \in Market!Listings
        BY <1>1, <1>3, <1>5, <2>2 DEF Market!Listings, MarketTypes
      <3>2. /\ listings'[l] = listings[l] /\ purchases'[l] = purchases[l]
            /\ entitled'[l] = entitled[l]
        BY <1>1, <1>2, <1>5, <3>1 DEF Market!Listings, MarketTypes
      <3>3. Kept(l, b) /\ (Market!HasAccess(l, b) => Market!Latest(l, b) \in DOMAIN purchases[l])
        BY <1>5, <3>1, BoughtIndices DEF MarketIInv, Market!Bought
      <3> QED BY <3>2, <3>3, SamePurchases
    <2> QED BY <2>1, <2>2
  <1> QED BY <1>6, <1>7 DEF MarketIInv

\* A call that concerns one listing and one buyer keeps the types and what is
\* said of all the others.
LEMMA OneListing ==
    ASSUME MarketIInv, NEW l \in Market!Listings, NEW b \in Traders,
           NEW bought \in Seq(Purchase), NEW end \in Nat, NEW status \in {"ACTIVE", "SOLD_OUT", "DELISTED"},
           clock' = clock,
           listings' = [listings EXCEPT ![l].status = status],
           purchases' = [purchases EXCEPT ![l] = bought],
           entitled' = [entitled EXCEPT ![l][b] = end],
           \A c \in Traders \ {b} : Kept(l, c)',
           Kept(l, b)'
    PROVE  MarketIInv'
  <1>1. MarketTypes /\ Len(listings) \in Nat
    BY DEF MarketIInv, MarketTypes
  <1>2. /\ listings[l] \in Listing /\ l \in 1..Len(listings)
        /\ entitled[l] \in [Traders -> Nat] /\ l \in DOMAIN entitled /\ l \in DOMAIN purchases
    BY <1>1, BoughtIndices DEF Market!Listings, MarketTypes
  <1>3. [listings[l] EXCEPT !.status = status] \in Listing
        /\ [entitled[l] EXCEPT ![b] = end] \in [Traders -> Nat]
    BY <1>2 DEF Listing
  <1>4. /\ listings' = [listings EXCEPT ![l] = [listings[l] EXCEPT !.status = status]]
        /\ entitled' = [entitled EXCEPT ![l] = [entitled[l] EXCEPT ![b] = end]]
    OBVIOUS
  <1>5. /\ listings' \in Seq(Listing) /\ Len(listings') = Len(listings)
        /\ entitled' \in Seq([Traders -> Nat]) /\ Len(entitled') = Len(entitled)
        /\ purchases' \in Seq(Seq(Purchase)) /\ Len(purchases') = Len(purchases)
    BY <1>1, <1>2, <1>3, <1>4, ExceptSeq DEF MarketTypes
  <1>6. MarketTypes' /\ Market!Listings' = Market!Listings
    BY <1>1, <1>5 DEF MarketTypes, Market!Listings
  <1>7. ASSUME NEW k \in Market!Listings, k # l, NEW c \in Traders PROVE Kept(k, c)'
    <2>1. /\ listings'[k] = listings[k] /\ purchases'[k] = purchases[k]
          /\ entitled'[k] = entitled[k]
      BY <1>1, <1>7 DEF MarketTypes, Market!Listings
    <2>2. Kept(k, c) /\ (Market!HasAccess(k, c) => Market!Latest(k, c) \in DOMAIN purchases[k])
      BY <1>1, <1>7, BoughtIndices DEF MarketIInv, Market!Bought
    <2> QED BY <2>1, <2>2, SamePurchases
  <1> QED BY <1>6, <1>7 DEF MarketIInv

\* Buyers that a purchase is not for keep what they have.
LEMMA OtherBuyers ==
    ASSUME MarketIInv, NEW l \in Market!Listings, NEW b \in Traders, NEW c \in Traders \ {b},
           listings'[l].kind = listings[l].kind, entitled'[l][c] = entitled[l][c],
           Len(purchases[l])  \in Nat,
           \/ \E p : p.buyer = b /\ purchases'[l] = Append(purchases[l], p)
           \/ /\ DOMAIN purchases'[l] = DOMAIN purchases[l]
              /\ \A i \in DOMAIN purchases[l] :
                   /\ purchases'[l][i].buyer = purchases[l][i].buyer
                   /\ purchases[l][i].buyer # b => purchases'[l][i].end = purchases[l][i].end
    PROVE  Kept(l, c)'
  <1>1. /\ MarketTypes /\ Kept(l, c)
        /\ purchases[l] \in Seq(Purchase) /\ DOMAIN purchases[l] = 1..Len(purchases[l])
        /\ Market!HasAccess(l, c) =>
              Market!Latest(l, c) \in 1..Len(purchases[l]) /\ purchases[l][Market!Latest(l, c)].buyer = c
    BY BoughtIndices DEF MarketIInv
  <1>2. Market!Bought(l, c)' = Market!Bought(l, c)
    <2>1. ASSUME NEW p, p.buyer = b, purchases'[l] = Append(purchases[l], p)
          PROVE  Market!Bought(l, c)' = Market!Bought(l, c)
      <3>1. /\ DOMAIN purchases'[l] = 1..(Len(purchases[l]) + 1)
            /\ \A i \in 1..Len(purchases[l]) : purchases'[l][i] = purchases[l][i]
            /\ purchases'[l][Len(purchases[l]) + 1] = p
        BY <1>1, <2>1
      <3>2. \A i \in DOMAIN purchases'[l] :
              i \in 1..Len(purchases[l]) \/ i = Len(purchases[l]) + 1
        BY <3>1
      <3>3. DOMAIN purchases[l] \subseteq DOMAIN purchases'[l]
        BY <1>1, <3>1
      <3> QED BY <1>1, <2>1, <3>1, <3>2, <3>3, Zenon DEF Market!Bought
    <2>2. ASSUME DOMAIN purchases'[l] = DOMAIN purchases[l],
                 \A i \in DOMAIN purchases[l] : purchases'[l][i].buyer = purchases[l][i].buyer
          PROVE  Market!Bought(l, c)' = Market!Bought(l, c)
      BY <2>2 DEF Market!Bought
    <2> QED BY <2>1, <2>2, Zenon
  <1>3. /\ Market!HasAccess(l, c)' = Market!HasAccess(l, c)
        /\ Market!Latest(l, c)' = Market!Latest(l, c)
    BY <1>2 DEF Market!HasAccess, Market!Latest
  <1>4. Market!HasAccess(l, c) =>
          purchases'[l][Market!Latest(l, c)].end = purchases[l][Market!Latest(l, c)].end
    <2> SUFFICES ASSUME Market!HasAccess(l, c)
                 PROVE  purchases'[l][Market!Latest(l, c)].end = purchases[l][Market!Latest(l, c)].end
      OBVIOUS
    <2>1. ASSUME NEW p, purchases'[l] = Append(purchases[l], p)
          PROVE  purchases'[l][Market!Latest(l, c)].end = purchases[l][Market!Latest(l, c)].end
      BY <1>1, <2>1
    <2> QED BY <1>1, <2>1
  <1> QED BY <1>1, <1>2, <1>3, <1>4 DEF Kept

\* Writing what is there already changes nothing.
LEMMA SameEntitled ==
    ASSUME MarketTypes, NEW l \in Market!Listings, NEW b \in Traders
    PROVE  entitled = [entitled EXCEPT ![l][b] = entitled[l][b]]
  <1>1. entitled[l] = [entitled[l] EXCEPT ![b] = entitled[l][b]]
    BY BoughtIndices
  <1>2. entitled = [entitled EXCEPT ![l] = entitled[l]]
    BY DEF MarketTypes
  <1> QED BY <1>1, <1>2

\* purchaseData: a buyer's first purchase begins what it has paid for, a later
\* one begins a subscription of its own.
LEMMA PurchaseStep ==
    ASSUME Market!ConstantsOK, MarketIInv, NEW b \in Traders, NEW l \in Market!Listings,
           Market!PurchaseData(b, l)
    PROVE  MarketIInv'
  <1>1. /\ MarketTypes /\ Kept(l, b) /\ clock \in Nat /\ SubscriptionPeriod \in Nat
        /\ l \in DOMAIN purchases /\ l \in DOMAIN entitled
        /\ purchases[l] \in Seq(Purchase) /\ Len(purchases[l]) \in Nat
        /\ entitled[l] \in [Traders -> Nat] /\ entitled[l][b] \in Nat /\ listings[l] \in Listing
        /\ l \in DOMAIN listings
    BY BoughtIndices DEF MarketIInv, MarketTypes, Market!ConstantsOK, Market!Listings
  <1>2. PICK p \in Purchase, end \in Nat :
          /\ purchases' = [purchases EXCEPT ![l] = Append(@, p)] /\ p.buyer = b
          /\ entitled' = [entitled EXCEPT ![l][b] = end]
          /\ listings[l].kind = "SUBSCRIPTION" => /\ p.end = clock + SubscriptionPeriod
                                                  /\ end = Market!Later(entitled[l][b], clock) + SubscriptionPeriod
    <2>1. CASE listings[l].kind = "SUBSCRIPTION"
      <3> DEFINE p == [buyer |-> b, rating |-> 0, end |-> clock + SubscriptionPeriod]
                 end == Market!Later(entitled[l][b], clock) + SubscriptionPeriod
      <3>1. p \in Purchase /\ end \in Nat /\ p.buyer = b /\ p.end = clock + SubscriptionPeriod
        BY <1>1 DEF Purchase, Market!Later
      <3>2. purchases' = [purchases EXCEPT ![l] = Append(@, p)] /\ Market!PaysForPeriod(b, l)
        BY <2>1 DEF Market!PurchaseData
      <3>3. entitled' = [entitled EXCEPT ![l][b] = end]
        BY <3>2 DEF Market!PaysForPeriod
      <3> HIDE DEF p, end
      <3>4. end = Market!Later(entitled[l][b], clock) + SubscriptionPeriod
        BY DEF end
      <3> QED BY <3>1, <3>2, <3>3, <3>4, Zenon
    <2>2. CASE listings[l].kind # "SUBSCRIPTION"
      <3> DEFINE p == [buyer |-> b, rating |-> 0, end |-> 0]
      <3>1. p \in Purchase /\ p.buyer = b
        BY DEF Purchase
      <3>2. purchases' = [purchases EXCEPT ![l] = Append(@, p)] /\ entitled' = entitled
        BY <2>2 DEF Market!PurchaseData
      <3>3. entitled' = [entitled EXCEPT ![l][b] = entitled[l][b]]
        BY <1>1, <3>2, SameEntitled
      <3> HIDE DEF p
      <3> QED BY <1>1, <2>2, <3>1, <3>2, <3>3, Zenon
    <2> QED BY <2>1, <2>2
  <1> DEFINE n == Len(purchases[l]) + 1
  <1>3. /\ purchases'[l] = Append(purchases[l], p)
        /\ entitled'[l][b] = end /\ \A c \in Traders \ {b} : entitled'[l][c] = entitled[l][c]
    BY <1>1, <1>2
  <1>4. PICK status \in {"ACTIVE", "SOLD_OUT", "DELISTED"} :
          listings' = [listings EXCEPT ![l].status = status]
    BY <1>1 DEF Market!PurchaseData, Listing
  <1>5. listings'[l].kind = listings[l].kind
    BY <1>1, <1>4 DEF Listing
  <1>6. \A c \in Traders \ {b} : Kept(l, c)'
    BY <1>1, <1>2, <1>3, <1>5, OtherBuyers
  <1>7. Kept(l, b)'
    <2> SUFFICES ASSUME listings[l].kind = "SUBSCRIPTION" PROVE Kept(l, b)'
      BY <1>5 DEF Kept
    <2>1. /\ DOMAIN purchases'[l] = 1..n /\ purchases'[l][n] = p /\ n \in Nat
          /\ \A i \in 1..Len(purchases[l]) : purchases'[l][i] = purchases[l][i]
          /\ DOMAIN purchases[l] = 1..Len(purchases[l])
      BY <1>1, <1>3
    <2>2. n \in 1..n /\ (\A i \in 1..n : i \in 1..Len(purchases[l]) \/ i = n)
          /\ (\A i \in 1..Len(purchases[l]) : i \in 1..n /\ i # n)
      BY <1>1
    <2> HIDE DEF n
    <2>3. Market!Bought(l, b)' = Market!Bought(l, b) \cup {n}
      BY <1>2, <2>1, <2>2, Zenon DEF Market!Bought
    <2>4. Market!HasAccess(l, b)' /\ Market!Bought(l, b)' \subseteq 1..n
      BY <2>1, <2>3 DEF Market!HasAccess, Market!Bought
    <2>5. Market!Latest(l, b)' = n
      <3>1. /\ Market!Max(Market!Bought(l, b)') \in Market!Bought(l, b)'
            /\ \A i \in Market!Bought(l, b)' : Market!Max(Market!Bought(l, b)') >= i
        BY <2>1, <2>4, GreatestIndex DEF Market!HasAccess
      <3>2. Market!Latest(l, b)' = Market!Max(Market!Bought(l, b)')
        BY DEF Market!Latest
      <3>3. Market!Latest(l, b)' \in 1..n /\ Market!Latest(l, b)' >= n
        BY <2>3, <2>4, <3>1, <3>2
      <3> QED BY <2>1, <3>3
    <2>6. p.end <= end
      BY <1>1, <1>2 DEF Market!Later
    <2>7. ASSUME NEW i, Market!Bought(l, b)' = {i} PROVE p.end = end
      <3>1. Market!Bought(l, b) = {}
        <4>1. \A k \in Market!Bought(l, b) : k = n /\ k # n
          BY <2>1, <2>2, <2>3, <2>7 DEF Market!Bought
        <4> QED BY <4>1
      <3>2. entitled[l][b] = 0
        BY <1>1, <3>1 DEF Kept, Market!HasAccess
      <3> QED BY <1>1, <1>2, <3>2 DEF Market!Later
    <2> QED BY <1>3, <2>1, <2>4, <2>5, <2>6, <2>7 DEF Kept
  <1>8. Append(purchases[l], p) \in Seq(Purchase) /\ clock' = clock
        /\ purchases' = [purchases EXCEPT ![l] = Append(purchases[l], p)]
    BY <1>1, <1>2 DEF Market!PurchaseData
  <1> QED BY <1>2, <1>4, <1>6, <1>7, <1>8, OneListing

\* renewSubscription: what is left and what has been paid for grow alike.
LEMMA RenewStep ==
    ASSUME Market!ConstantsOK, MarketIInv, NEW b \in Traders, NEW l \in Market!Listings,
           Market!RenewSubscription(b, l)
    PROVE  MarketIInv'
  <1> DEFINE i == Market!Latest(l, b)
             old == purchases[l]
             end == Market!Later(entitled[l][b], clock) + SubscriptionPeriod
             new == [old EXCEPT ![i].end = Market!Extended(@)]
  <1>1. /\ MarketTypes /\ Kept(l, b) /\ clock \in Nat /\ SubscriptionPeriod \in Nat
        /\ l \in DOMAIN purchases /\ l \in DOMAIN entitled /\ l \in DOMAIN listings
        /\ old \in Seq(Purchase) /\ Len(old) \in Nat
        /\ entitled[l] \in [Traders -> Nat] /\ entitled[l][b] \in Nat /\ listings[l] \in Listing
        /\ Market!HasAccess(l, b) /\ i \in 1..Len(old) /\ old[i] \in Purchase /\ old[i].buyer = b
    BY BoughtIndices DEF MarketIInv, MarketTypes, Market!ConstantsOK, Market!Listings,
       Market!RenewSubscription
  <1>2. /\ purchases' = [purchases EXCEPT ![l] = new] /\ entitled' = [entitled EXCEPT ![l][b] = end]
        /\ clock' = clock /\ listings' = listings /\ listings[l].kind = "SUBSCRIPTION"
    BY DEF Market!RenewSubscription, Market!PaysForPeriod
  <1>3. listings' = [listings EXCEPT ![l].status = listings[l].status]
        /\ listings[l].status \in {"ACTIVE", "SOLD_OUT", "DELISTED"}
    <2>1. listings[l] = [listings[l] EXCEPT !.status = listings[l].status]
      BY <1>1 DEF Listing
    <2>2. listings = [listings EXCEPT ![l] = listings[l]]
      BY <1>1 DEF MarketTypes
    <2> QED BY <1>1, <1>2, <2>1, <2>2 DEF Listing
  <1>4. Market!Extended(old[i].end) \in Nat /\ end \in Nat
        /\ Market!Extended(old[i].end) = Market!Later(old[i].end, clock) + SubscriptionPeriod
    <2>1. old[i].end \in Nat
      BY <1>1 DEF Purchase
    <2> DEFINE left == old[i].end
               had == entitled[l][b]
    <2>2. left \in Nat /\ had \in Nat /\ clock \in Nat /\ SubscriptionPeriod \in Nat
      BY <1>1, <2>1
    <2> HIDE DEF left, had
    <2>3. /\ Market!Extended(left) \in Nat /\ Market!Later(had, clock) + SubscriptionPeriod \in Nat
          /\ Market!Extended(left) = Market!Later(left, clock) + SubscriptionPeriod
      BY <2>2 DEF Market!Extended, Market!Later
    <2> QED BY <2>3 DEF left, had
  <1>5. [old[i] EXCEPT !.end = Market!Extended(old[i].end)] \in Purchase
    BY <1>1, <1>4 DEF Purchase
  <1>6. new = [old EXCEPT ![i] = [old[i] EXCEPT !.end = Market!Extended(old[i].end)]]
    OBVIOUS
  <1>7. /\ new \in Seq(Purchase) /\ Len(new) = Len(old)
        /\ \A k \in 1..Len(old) : k # i => new[k] = old[k]
        /\ new[i] = [old[i] EXCEPT !.end = Market!Extended(old[i].end)]
    <2> HIDE DEF i, new
    <2> QED BY <1>1, <1>5, <1>6, ExceptSeq
  <1>8. /\ purchases'[l] = new /\ DOMAIN new = DOMAIN old /\ DOMAIN old = 1..Len(old)
        /\ new[i].end = Market!Extended(old[i].end) /\ new[i].buyer = old[i].buyer
        /\ entitled'[l][b] = end /\ \A c \in Traders \ {b} : entitled'[l][c] = entitled[l][c]
    BY <1>1, <1>2, <1>7 DEF Purchase
  <1>9. \A k \in DOMAIN old : new[k].buyer = old[k].buyer /\ (old[k].buyer # b => new[k].end = old[k].end)
    BY <1>1, <1>7, <1>8
  <1> HIDE DEF i, new, end
  <1>10. \A c \in Traders \ {b} : Kept(l, c)'
    BY <1>1, <1>2, <1>8, <1>9, OtherBuyers
  <1>11. Kept(l, b)'
    <2>1. Market!Bought(l, b)' = Market!Bought(l, b)
      BY <1>8, <1>9 DEF Market!Bought
    <2>2. Market!HasAccess(l, b)' /\ Market!Latest(l, b)' = i
      BY <1>1, <2>1 DEF Market!HasAccess, Market!Latest, i
    <2>3. /\ old[i].end <= entitled[l][b]
          /\ (\E k \in Market!Bought(l, b) : Market!Bought(l, b) = {k}) => old[i].end = entitled[l][b]
          /\ old[i].end \in Nat
      BY <1>1, <1>2 DEF Kept, i, Purchase
    <2>4. new[i].end <= end
      BY <1>1, <1>4, <1>8, <2>3 DEF end, Market!Later
    <2>5. (\E k \in Market!Bought(l, b) : Market!Bought(l, b) = {k}) => new[i].end = end
      BY <1>1, <1>4, <1>8, <2>3 DEF end
    <2> QED BY <1>8, <2>1, <2>2, <2>4, <2>5 DEF Kept
  <1> QED BY <1>1, <1>2, <1>3, <1>4, <1>7, <1>10, <1>11, OneListing

\* ratePurchase changes nothing that counts.
LEMMA RateStep ==
    ASSUME MarketIInv, NEW b \in Traders, NEW l \in Market!Listings, Market!RatePurchase(b, l, 5)
    PROVE  MarketIInv'
  <1> DEFINE i == Market!Latest(l, b)
             old == purchases[l]
             new == [old EXCEPT ![i].rating = 5]
  <1>1. /\ MarketTypes /\ l \in DOMAIN purchases /\ l \in DOMAIN listings
        /\ old \in Seq(Purchase) /\ Len(old) \in Nat
        /\ entitled[l][b] \in Nat /\ listings[l] \in Listing
        /\ i \in 1..Len(old) /\ old[i] \in Purchase
    BY BoughtIndices DEF MarketIInv, MarketTypes, Market!Listings, Market!RatePurchase
  <1>2. /\ purchases' = [purchases EXCEPT ![l] = new] /\ entitled' = entitled
        /\ clock' = clock /\ listings' = listings
    BY DEF Market!RatePurchase
  <1>3. listings' = [listings EXCEPT ![l].status = listings[l].status]
        /\ listings[l].status \in {"ACTIVE", "SOLD_OUT", "DELISTED"}
    <2>1. listings[l] = [listings[l] EXCEPT !.status = listings[l].status]
      BY <1>1 DEF Listing
    <2>2. listings = [listings EXCEPT ![l] = listings[l]]
      BY <1>1 DEF MarketTypes
    <2> QED BY <1>1, <1>2, <2>1, <2>2 DEF Listing
  <1>4. entitled' = [entitled EXCEPT ![l][b] = entitled[l][b]]
    BY <1>1, <1>2, SameEntitled
  <1>5. [old[i] EXCEPT !.rating = 5] \in Purchase
    BY <1>1 DEF Purchase
  <1>6. new = [old EXCEPT ![i] = [old[i] EXCEPT !.rating = 5]]
    OBVIOUS
  <1>7. /\ new \in Seq(Purchase) /\ Len(new) = Len(old)
        /\ \A k \in 1..Len(old) : new[k] = IF k = i THEN [old[i] EXCEPT !.rating = 5] ELSE old[k]
    BY <1>1, <1>5, <1>6, ExceptSeq
  <1>8. /\ purchases'[l] = new /\ DOMAIN new = DOMAIN old /\ DOMAIN old = 1..Len(old)
        /\ \A k \in DOMAIN old : new[k].buyer = old[k].buyer /\ new[k].end = old[k].end
    BY <1>1, <1>2, <1>7 DEF Purchase
  <1>9. \A c \in Traders :
          Kept(l, c) /\ (Market!HasAccess(l, c) => Market!Latest(l, c) \in DOMAIN old)
    BY <1>1, BoughtIndices DEF MarketIInv, Market!Bought
  <1> HIDE DEF i, new
  <1>10. \A c \in Traders : Kept(l, c)'
    BY <1>2, <1>8, <1>9, SamePurchases
  <1> QED BY <1>1, <1>2, <1>3, <1>4, <1>7, <1>10, OneListing

\* Delisting and the passing of time leave purchases and payments alone.
LEMMA QuietStep ==
    ASSUME MarketIInv, clock' \in Nat, purchases' = purchases, entitled' = entitled,
           listings' = listings \/ \E l \in Market!Listings : listings' = [listings EXCEPT ![l].status = "DELISTED"]
    PROVE  MarketIInv'
  <1>1. MarketTypes
    BY DEF MarketIInv
  <1>2. /\ listings' \in Seq(Listing) /\ Len(listings') = Len(listings)
        /\ \A k \in Market!Listings : listings'[k].kind = listings[k].kind
    <2> SUFFICES ASSUME NEW l \in Market!Listings, listings' = [listings EXCEPT ![l].status = "DELISTED"]
                 PROVE  /\ listings' \in Seq(Listing) /\ Len(listings') = Len(listings)
                        /\ \A k \in Market!Listings : listings'[k].kind = listings[k].kind
      BY <1>1 DEF MarketTypes
    <2>1. l \in 1..Len(listings) /\ listings[l] \in Listing
      BY <1>1 DEF MarketTypes, Market!Listings
    <2>2. [listings[l] EXCEPT !.status = "DELISTED"] \in Listing
          /\ [listings[l] EXCEPT !.status = "DELISTED"].kind = listings[l].kind
      BY <2>1 DEF Listing
    <2>3. listings' = [listings EXCEPT ![l] = [listings[l] EXCEPT !.status = "DELISTED"]]
      OBVIOUS
    <2>4. \A k \in Market!Listings : k \in 1..Len(listings)
      BY <1>1 DEF MarketTypes, Market!Listings
    <2> QED BY <1>1, <2>1, <2>2, <2>3, <2>4, ExceptSeq DEF MarketTypes
  <1>3. MarketTypes' /\ Market!Listings' = Market!Listings
    BY <1>1, <1>2 DEF MarketTypes, Market!Listings
  <1>4. \A l \in Market!Listings, b \in Traders :
          Kept(l, b) /\ (Market!HasAccess(l, b) => Market!Latest(l, b) \in DOMAIN purchases[l])
    BY <1>1, BoughtIndices DEF MarketIInv, Market!Bought
  <1>5. \A l \in Market!Listings, b \in Traders : Kept(l, b)'
    BY <1>2, <1>4, SamePurchases
  <1> QED BY <1>3, <1>5 DEF MarketIInv

\* A subscriber has access for as long as it has paid for, in every order of
\* purchases, renewals, ratings and delistings of any number of listings, buyers
\* and moments of time.
THEOREM PaidTime == Market!Spec => []PaidTimeIsKept
  <1>0. Market!ConstantsOK
    BY ServiceAssumption
  <1>1. Market!Init => MarketIInv
    BY MarketInit
  <1>2. MarketIInv /\ [Market!Next]_Market!marketVars => MarketIInv'
    <2> SUFFICES ASSUME MarketIInv, [Market!Next]_Market!marketVars PROVE MarketIInv'
      OBVIOUS
    <2>1. clock \in Nat
      BY DEF MarketIInv, MarketTypes
    <2>2. ASSUME Market!Tick \/ UNCHANGED Market!marketVars PROVE MarketIInv'
      BY <1>0, <2>1, <2>2, QuietStep DEF Market!Tick, Market!marketVars
    <2>3. ASSUME NEW l \in Market!Listings, Market!DelistData(l) PROVE MarketIInv'
      BY <1>0, <2>1, <2>3, QuietStep DEF Market!DelistData
    <2> QED BY <1>0, <2>2, <2>3, CreateStep, PurchaseStep, RenewStep, RateStep DEF Market!Next
  <1>3. MarketIInv => PaidTimeIsKept
    BY KeptIsPaidTime DEF PaidTimeIsKept
  <1> QED BY <1>1, <1>2, <1>3, PTL DEF Market!Spec

-----------------------------------------------------------------------------
(***************************************************************************)
(* SubAuction.                                                             *)
(***************************************************************************)

Unfinished == {"OPEN", "IN_PROGRESS", "DELIVERED", "DISPUTED"}
Ended == {"ACCEPTED", "EXPIRED", "CANCELLED"}

SubJob == [status: Unfinished \cup Ended, requester: Parties, payment: Nat,
           selected: Parties \cup {Nobody}, delivered: BOOLEAN]
SubBid == [status: {"NONE", "PENDING", "ACCEPTED", "REFUNDED"}, price: Nat, collateral: Nat]
SubBids == [Parties -> SubBid]
Gains == [Sub!Accounts -> Int]

SubTypes ==
    /\ subJobs \in Seq(SubJob) /\ Len(subJobs) <= MaxSubJobs
    /\ subBids \in Seq(SubBids) /\ Len(subBids) = Len(subJobs)
    /\ net \in Seq(Gains) /\ Len(net) = Len(subJobs)

Locked(bids, b) == IF b \in Parties THEN bids[b].collateral ELSE 0
PaidIn(s, b) == IF b = s.requester THEN s.payment ELSE 0

\* Until the sub-job ends, an account has lost what it has paid in and locked.
PaidInIsHeld(s, bids, gain) ==
    s.status \in Unfinished =>
        \A b \in Sub!Accounts : gain[b] = -PaidIn(s, b) - Locked(bids, b)

\* While bids are taken, the requester has none and none is accepted.
OpenIsUndecided(s, bids) ==
    s.status = "OPEN" =>
        /\ s.selected = Nobody /\ bids[s.requester].status = "NONE"
        /\ \A b \in Parties : /\ bids[b].status \in {"NONE", "PENDING"}
                              /\ bids[b].status = "NONE" => bids[b].collateral = 0
                              /\ bids[b].status = "PENDING" => bids[b].price <= s.payment

\* Once there is a contractor, it alone has GUARD locked, for the price agreed.
OneContractor(s, bids) ==
    s.status \in Unfinished \ {"OPEN"} =>
        /\ s.selected \in Parties \ {s.requester} /\ bids[s.selected].price = s.payment
        /\ bids[s.selected].status = "ACCEPTED"
        /\ \A b \in Parties \ {s.selected} : bids[b].collateral = 0

\* A sub-job that was accepted has paid the contractor; one that was not has at
\* most moved some of its collateral to the treasury.
Settlement(s, bids, gain) ==
    /\ s.status \in Ended =>
          s.selected # s.requester /\ \A b \in Parties : bids[b].collateral = 0
    /\ s.status = "ACCEPTED" =>
          /\ s.selected \in Parties
          /\ \A b \in Sub!Accounts :
                gain[b] = IF b = s.selected THEN s.payment ELSE -PaidIn(s, b)
    /\ s.status \in {"EXPIRED", "CANCELLED"} =>
          /\ \A b \in Sub!Accounts \ {s.selected, SubTreasury} : gain[b] = 0
          /\ gain[SubTreasury] = IF s.selected \in Parties THEN -gain[s.selected] ELSE 0

WellKept(s, bids, gain) ==
    /\ PaidInIsHeld(s, bids, gain) /\ OpenIsUndecided(s, bids)
    /\ OneContractor(s, bids) /\ Settlement(s, bids, gain)

SubIInv == SubTypes /\ \A j \in Sub!SubJobs : WellKept(subJobs[j], subBids[j], net[j])

LEMMA SubFinite == \A S : Sub!IsFiniteSet(S) <=> IsFiniteSet(S)
BY DEF Sub!IsFiniteSet, IsFiniteSet

LEMMA SubSums == \A f : Sub!SumFunction(f) = SumFunction(f)
BY DEF Sub!SumFunction, Sub!SumFunctionOnSet, Sub!FoldFunctionOnSet, Sub!MapThenFoldSet,
       SumFunction, SumFunctionOnSet, FoldFunctionOnSet, MapThenFoldSet

LEMMA SubJobTypes ==
    ASSUME SubTypes, NEW j \in Sub!SubJobs
    PROVE  /\ j \in 1..Len(subJobs) /\ j \in DOMAIN subBids /\ j \in DOMAIN net
           /\ subJobs[j] \in SubJob /\ subBids[j] \in SubBids /\ net[j] \in Gains
BY ElementOfSeq DEF SubTypes, Sub!SubJobs

LEMMA OpenSubJob ==
    ASSUME NEW s \in SubJob, NEW bids \in SubBids, NEW gain, WellKept(s, bids, gain),
           s.status = "OPEN"
    PROVE  /\ s.requester \in Parties /\ s.payment \in Nat /\ s.selected = Nobody
           /\ bids[s.requester].status = "NONE" /\ bids[s.requester].collateral = 0
           /\ \A b \in Parties : /\ bids[b].price \in Nat /\ bids[b].collateral \in Nat
                                 /\ bids[b].status # "PENDING" => bids[b].collateral = 0
                                 /\ bids[b].status = "PENDING" => bids[b].price <= s.payment
  <1>1. OpenIsUndecided(s, bids)
    BY DEF WellKept
  <1>2. s.requester \in Parties /\ s.payment \in Nat
    BY DEF SubJob
  <1>3. \A b \in Parties : bids[b].price \in Nat /\ bids[b].collateral \in Nat
    BY DEF SubBids, SubBid
  <1> QED BY <1>1, <1>2, <1>3 DEF OpenIsUndecided

-----------------------------------------------------------------------------
(***************************************************************************)
(* What CollateralEscrow sees of a call of SubAuction.                     *)
(***************************************************************************)

\* A row of a table is written.
LEMMA RowWritten ==
    ASSUME NEW K, NEW B, NEW p, NEW q, NEW j \in K, NEW row,
           p = [k \in K |-> [b \in B |-> p[k][b]]], q = [k \in K |-> [b \in B |-> q[k][b]]],
           row = [b \in B |-> row[b]],
           \A k \in K, b \in B : q[k][b] = IF k = j THEN row[b] ELSE p[k][b]
    PROVE  q = [p EXCEPT ![j] = row]
  <1>1. ASSUME NEW k \in K PROVE q[k] = IF k = j THEN row ELSE p[k]
    <2>1. q[k] = [b \in B |-> q[k][b]] /\ p[k] = [b \in B |-> p[k][b]]
      OBVIOUS
    <2> QED BY <2>1
  <1>2. q = [k \in K |-> IF k = j THEN row ELSE p[k]]
    <2>1. q = [k \in K |-> q[k]]
      OBVIOUS
    <2> QED BY ONLY <1>1, <2>1
  <1>3. [p EXCEPT ![j] = row] = [k \in K |-> IF k = j THEN row ELSE p[k]]
    OBVIOUS
  <1> QED BY ONLY <1>2, <1>3

\* What CollateralEscrow sees of a call that writes the bids and the gains of a
\* sub-job.
Recorded(j, bids, gain) ==
    /\ j \in Sub!Tenders
    /\ Sub!Phases' = [Sub!Phases EXCEPT ![j] = [b \in Parties |-> Sub!DepositPhase(bids[b])]]
    /\ Sub!Deposits' = [Sub!Deposits EXCEPT ![j] = [b \in Parties |-> bids[b].collateral]]
    /\ \A b \in Parties :
         Sub!Purses'[b] = IF b = subJobs[j].requester THEN Sub!Purses[b]
                          ELSE Sub!Purses[b] + gain[b] - net[j][b]

LEMMA TendersSum ==
    ASSUME Sub!ConstantsOK, NEW b \in Parties
    PROVE  /\ IsFiniteSet(Sub!Tenders)
           /\ Sub!Purses[b] = SumFunctionOnSet([k \in Sub!Tenders |-> Sub!GainAsBidder(k, b)], Sub!Tenders)
           /\ Sub!Purses'[b] = SumFunctionOnSet([k \in Sub!Tenders |-> Sub!GainAsBidder(k, b)'], Sub!Tenders)
  <1>1. IsFiniteSet(Sub!Tenders)
    <2>1. 1 \in Int /\ MaxSubJobs \in Int
      BY DEF Sub!ConstantsOK
    <2> QED BY <2>1, FS_Interval DEF Sub!Tenders
  <1> DEFINE f == [k \in Sub!Tenders |-> Sub!GainAsBidder(k, b)]
             g == [k \in Sub!Tenders |-> Sub!GainAsBidder(k, b)']
  <1>2. Sub!Purses[b] = Sub!SumFunction(f) /\ Sub!Purses'[b] = Sub!SumFunction(g)
    BY DEF Sub!Purses
  <1>3. DOMAIN f = Sub!Tenders /\ DOMAIN g = Sub!Tenders
    OBVIOUS
  <1> HIDE DEF f, g
  <1>4. Sub!SumFunction(f) = SumFunctionOnSet(f, Sub!Tenders)
    BY <1>3, SubSums DEF SumFunction
  <1>5. Sub!SumFunction(g) = SumFunctionOnSet(g, Sub!Tenders)
    BY <1>3, SubSums DEF SumFunction
  <1> QED BY <1>1, <1>2, <1>4, <1>5 DEF f, g

LEMMA GainsAsBidder ==
    ASSUME SubTypes, NEW k, NEW b \in Parties
    PROVE  Sub!GainAsBidder(k, b) \in Int
  <1>1. k \in Sub!SubJobs => net[k] \in Gains /\ b \in Sub!Accounts
    BY SubJobTypes DEF Sub!Accounts
  <1> QED BY <1>1 DEF Sub!GainAsBidder, Gains

LEMMA TenderRecords ==
    ASSUME Sub!ConstantsOK, SubTypes, SubTypes', NEW j \in Sub!SubJobs, NEW s, NEW bids \in SubBids, NEW gain \in Gains,
           subJobs' = [subJobs EXCEPT ![j] = s], subBids' = [subBids EXCEPT ![j] = bids],
           net' = [net EXCEPT ![j] = gain], s.requester = subJobs[j].requester
    PROVE  Recorded(j, bids, gain)
  <1>1. /\ j \in DOMAIN subJobs /\ j \in DOMAIN subBids /\ j \in DOMAIN net
        /\ Sub!SubJobs' = Sub!SubJobs
    BY SubJobTypes DEF Sub!SubJobs
  <1>2. j \in Sub!Tenders
    BY SubJobTypes DEF SubTypes, Sub!Tenders, Sub!ConstantsOK
  <1>3. \A k \in Sub!SubJobs : /\ k \in DOMAIN subJobs /\ k \in DOMAIN subBids /\ k \in DOMAIN net
    BY SubJobTypes DEF Sub!SubJobs
  <1>4. ASSUME NEW k, NEW b \in Parties
        PROVE  /\ Sub!BidFor(k, b)' = IF k = j THEN bids[b] ELSE Sub!BidFor(k, b)
               /\ k # j => Sub!GainAsBidder(k, b)' = Sub!GainAsBidder(k, b)
               /\ Sub!GainAsBidder(j, b)' = IF b = subJobs[j].requester THEN 0 ELSE gain[b]
               /\ Sub!GainAsBidder(j, b) = IF b = subJobs[j].requester THEN 0 ELSE net[j][b]
    <2>1. CASE k \in Sub!SubJobs
      <3>1. /\ subBids'[k] = IF k = j THEN bids ELSE subBids[k]
            /\ net'[k] = IF k = j THEN gain ELSE net[k]
            /\ subJobs'[k].requester = subJobs[k].requester
        BY <1>3, <2>1
      <3>2. net'[j] = gain /\ subJobs'[j].requester = subJobs[j].requester
        BY <1>1
      <3> QED BY <1>1, <2>1, <3>1, <3>2 DEF Sub!BidFor, Sub!GainAsBidder
    <2>2. CASE k \notin Sub!SubJobs
      <3>2. net'[j] = gain /\ subJobs'[j].requester = subJobs[j].requester
        BY <1>1
      <3> QED BY <1>1, <2>2, <3>2 DEF Sub!BidFor, Sub!GainAsBidder, Sub!NoBid
    <2> QED BY <2>1, <2>2
  <1>5. Sub!Phases' = [Sub!Phases EXCEPT ![j] = [b \in Parties |-> Sub!DepositPhase(bids[b])]]
    <2> DEFINE p == Sub!Phases
               q == Sub!Phases'
               row == [b \in Parties |-> Sub!DepositPhase(bids[b])]
    <2>1. /\ p = [k \in Sub!Tenders |-> [b \in Parties |-> p[k][b]]]
          /\ q = [k \in Sub!Tenders |-> [b \in Parties |-> q[k][b]]]
      BY DEF Sub!Phases
    <2>2. row = [b \in Parties |-> row[b]]
      OBVIOUS
    <2>3. ASSUME NEW k \in Sub!Tenders, NEW b \in Parties
          PROVE  q[k][b] = IF k = j THEN row[b] ELSE p[k][b]
      <3>1. q[k][b] = Sub!DepositPhase(Sub!BidFor(k, b)') /\ p[k][b] = Sub!DepositPhase(Sub!BidFor(k, b))
        BY DEF Sub!Phases, Sub!DepositPhase
      <3>2. row[b] = Sub!DepositPhase(bids[b])
        OBVIOUS
      <3>3. Sub!BidFor(k, b)' = IF k = j THEN bids[b] ELSE Sub!BidFor(k, b)
        BY <1>4
      <3> HIDE DEF p, q, row
      <3> QED BY ONLY <3>1, <3>2, <3>3
    <2> HIDE DEF p, q, row
    <2>4. q = [p EXCEPT ![j] = row]
      BY ONLY <1>2, <2>1, <2>2, <2>3, RowWritten
    <2> QED BY <2>4 DEF p, q, row
  <1>6. Sub!Deposits' = [Sub!Deposits EXCEPT ![j] = [b \in Parties |-> bids[b].collateral]]
    <2> DEFINE p == Sub!Deposits
               q == Sub!Deposits'
               row == [b \in Parties |-> bids[b].collateral]
    <2>1. /\ p = [k \in Sub!Tenders |-> [b \in Parties |-> p[k][b]]]
          /\ q = [k \in Sub!Tenders |-> [b \in Parties |-> q[k][b]]]
      BY DEF Sub!Deposits
    <2>2. row = [b \in Parties |-> row[b]]
      OBVIOUS
    <2>3. ASSUME NEW k \in Sub!Tenders, NEW b \in Parties
          PROVE  q[k][b] = IF k = j THEN row[b] ELSE p[k][b]
      <3>1. q[k][b] = Sub!BidFor(k, b)'.collateral /\ p[k][b] = Sub!BidFor(k, b).collateral
        BY DEF Sub!Deposits
      <3>2. row[b] = bids[b].collateral
        OBVIOUS
      <3>3. Sub!BidFor(k, b)' = IF k = j THEN bids[b] ELSE Sub!BidFor(k, b)
        BY <1>4
      <3> HIDE DEF p, q, row
      <3> QED BY ONLY <3>1, <3>2, <3>3
    <2> HIDE DEF p, q, row
    <2>4. q = [p EXCEPT ![j] = row]
      BY ONLY <1>2, <2>1, <2>2, <2>3, RowWritten
    <2> QED BY <2>4 DEF p, q, row
  <1>7. ASSUME NEW b \in Parties
        PROVE  Sub!Purses'[b] = IF b = subJobs[j].requester THEN Sub!Purses[b]
                                ELSE Sub!Purses[b] + gain[b] - net[j][b]
    <2> DEFINE f == [k \in Sub!Tenders |-> Sub!GainAsBidder(k, b)]
               g == [k \in Sub!Tenders |-> Sub!GainAsBidder(k, b)']
    <2>1. /\ IsFiniteSet(Sub!Tenders)
          /\ Sub!Purses[b] = SumFunctionOnSet(f, Sub!Tenders)
          /\ Sub!Purses'[b] = SumFunctionOnSet(g, Sub!Tenders)
      BY TendersSum
    <2>2. \A k \in Sub!Tenders : f[k] \in Int
      BY GainsAsBidder
    <2>3. gain[b] \in Int /\ net[j][b] \in Int
      BY SubJobTypes DEF Gains, Sub!Accounts
    <2>4. \A k \in Sub!Tenders : g[k] = IF k = j THEN IF b = subJobs[j].requester THEN 0 ELSE gain[b]
                                        ELSE f[k]
      BY <1>4
    <2>5. f[j] = IF b = subJobs[j].requester THEN 0 ELSE net[j][b]
      BY <1>2, <1>4
    <2> HIDE DEF f, g
    <2>6. \A k \in Sub!Tenders : f[k] \in Int /\ g[k] \in Int
      BY <2>2, <2>3, <2>4
    <2>7. SumFunctionOnSet(g, Sub!Tenders) = SumFunctionOnSet(f, Sub!Tenders) + g[j] - f[j]
      <3>1. \A k \in Sub!Tenders \ {j} : f[k] = g[k]
        BY <2>4
      <3> QED BY ONLY <1>2, <2>1, <2>6, <3>1, SumOneChanged
    <2>8. SumFunctionOnSet(f, Sub!Tenders) \in Int
      BY ONLY <2>1, <2>6, SumInteger
    <2> QED BY <1>2, <2>1, <2>3, <2>4, <2>5, <2>7, <2>8
  <1> QED BY <1>2, <1>5, <1>6, <1>7 DEF Recorded

\* What CollateralEscrow sees of a call that leaves bids and gains alone, or adds a
\* sub-job: nothing.
LEMMA TenderUnseen ==
    ASSUME \A k, b : b \in Parties =>
             Sub!BidFor(k, b)' = Sub!BidFor(k, b) /\ Sub!GainAsBidder(k, b)' = Sub!GainAsBidder(k, b)
    PROVE  UNCHANGED Tender!vars
  <1>1. UNCHANGED Sub!Phases
    <2>1. ASSUME NEW k, NEW b \in Parties
          PROVE  Sub!DepositPhase(Sub!BidFor(k, b))' = Sub!DepositPhase(Sub!BidFor(k, b))
      BY DEF Sub!DepositPhase
    <2> QED BY <2>1 DEF Sub!Phases
  <1>2. UNCHANGED Sub!Deposits
    BY DEF Sub!Deposits
  <1>3. UNCHANGED Sub!Purses
    <2>1. \A b \in Parties : [k \in Sub!Tenders |-> Sub!GainAsBidder(k, b)'] =
                             [k \in Sub!Tenders |-> Sub!GainAsBidder(k, b)]
      OBVIOUS
    <2>2. \A b \in Parties : Sub!SumFunction([k \in Sub!Tenders |-> Sub!GainAsBidder(k, b)'])
                             = Sub!SumFunction([k \in Sub!Tenders |-> Sub!GainAsBidder(k, b)])
      BY <2>1
    <2> QED BY <2>2 DEF Sub!Purses
  <1> QED BY <1>1, <1>2, <1>3 DEF Tender!vars

LEMMA PhasesOf ==
    ASSUME NEW j \in Sub!Tenders, j \in Sub!SubJobs, NEW b \in Parties
    PROVE  /\ Sub!Phases[j][b] = Sub!DepositPhase(subBids[j][b])
           /\ Sub!Deposits[j][b] = subBids[j][b].collateral
BY DEF Sub!Phases, Sub!Deposits, Sub!BidFor

LEMMA PursesOf ==
    ASSUME Sub!ConstantsOK, SubTypes
    PROVE  /\ Sub!Purses = [b \in Parties |-> Sub!Purses[b]]
           /\ Sub!Purses' = [b \in Parties |-> Sub!Purses'[b]]
           /\ \A b \in Parties : Sub!Purses[b] \in Int
  <1>1. ASSUME NEW b \in Parties PROVE Sub!Purses[b] \in Int
    <2> DEFINE f == [k \in Sub!Tenders |-> Sub!GainAsBidder(k, b)]
    <2>1. IsFiniteSet(Sub!Tenders) /\ Sub!Purses[b] = SumFunctionOnSet(f, Sub!Tenders)
      BY TendersSum
    <2>2. \A k \in Sub!Tenders : f[k] \in Int
      BY GainsAsBidder
    <2> HIDE DEF f
    <2> QED BY ONLY <2>1, <2>2, SumInteger
  <1> QED BY <1>1 DEF Sub!Purses

\* A first bid is a deposit.
LEMMA TenderDeposit ==
    ASSUME Sub!ConstantsOK, SubTypes, NEW j \in Sub!SubJobs, NEW bids \in SubBids, NEW gain \in Gains,
           Recorded(j, bids, gain),
           NEW a \in Parties, a # subJobs[j].requester, subBids[j][a].status = "NONE",
           subBids[j][a].collateral = 0, bids[a].status = "PENDING",
           \A b \in Parties \ {a} : bids[b] = subBids[j][b] /\ gain[b] = net[j][b],
           gain[a] = net[j][a] - bids[a].collateral
    PROVE  Tender!Deposit(j, a)
  <1>1. /\ j \in Sub!Tenders
        /\ Sub!Phases' = [Sub!Phases EXCEPT ![j] = [b \in Parties |-> Sub!DepositPhase(bids[b])]]
        /\ Sub!Deposits' = [Sub!Deposits EXCEPT ![j] = [b \in Parties |-> bids[b].collateral]]
    BY DEF Recorded
  <1>2. /\ Sub!Phases[j][a] = "absent" /\ Sub!DepositPhase(bids[a]) = "open" /\ Sub!Deposits[j][a] = 0
        /\ bids[a].collateral \in Nat /\ net[j] \in Gains /\ subBids[j] \in SubBids
    BY <1>1, PhasesOf, SubJobTypes DEF Sub!DepositPhase, SubBids, SubBid
  <1>3. Sub!Phases' = [Sub!Phases EXCEPT ![j][a] = "open"]
    <2>1. [b \in Parties |-> Sub!DepositPhase(bids[b])] = [Sub!Phases[j] EXCEPT ![a] = "open"]
      <3>1. \A b \in Parties : Sub!DepositPhase(bids[b]) = IF b = a THEN "open" ELSE Sub!Phases[j][b]
        BY <1>1, <1>2, PhasesOf
      <3>2. Sub!Phases[j] = [b \in Parties |-> Sub!Phases[j][b]]
        BY <1>1 DEF Sub!Phases
      <3> QED BY ONLY <3>1, <3>2
    <2> QED BY ONLY <1>1, <2>1
  <1>4. Sub!Deposits' = [Sub!Deposits EXCEPT ![j][a] = bids[a].collateral]
    <2>1. [b \in Parties |-> bids[b].collateral] = [Sub!Deposits[j] EXCEPT ![a] = bids[a].collateral]
      <3>1. \A b \in Parties : bids[b].collateral = IF b = a THEN bids[a].collateral ELSE Sub!Deposits[j][b]
        BY <1>1, PhasesOf
      <3>2. Sub!Deposits[j] = [b \in Parties |-> Sub!Deposits[j][b]]
        BY <1>1 DEF Sub!Deposits
      <3> QED BY ONLY <3>1, <3>2
    <2> QED BY ONLY <1>1, <2>1
  <1>5. Sub!Deposits'[j][a] = bids[a].collateral
    BY <1>1 DEF Sub!Deposits
  <1>6. Sub!Purses' = [Sub!Purses EXCEPT ![a] = @ + 0 - bids[a].collateral]
    <2>1. \A b \in Parties : net[j][b] \in Int
      BY <1>2 DEF Gains, Sub!Accounts
    <2>2. \A b \in Parties : Sub!Purses[b] \in Int
      BY PursesOf
    <2>3. \A b \in Parties :
            Sub!Purses'[b] = IF b = a THEN Sub!Purses[b] + 0 - bids[a].collateral ELSE Sub!Purses[b]
      BY <1>2, <2>1, <2>2 DEF Recorded
    <2> QED BY <2>3, PursesOf
  <1>7. bids[a].collateral >= 0 /\ Sub!Phases[j][a] \in {"absent", "open"} /\ Sub!Deposits[j][a] = 0
    BY <1>2
  <1> QED BY ONLY <1>3, <1>4, <1>5, <1>6, <1>7 DEF Tender!Deposit

\* Bids that are refunded while the other pending ones are accepted: the auction is
\* decided.
LEMMA TenderResolve ==
    ASSUME Sub!ConstantsOK, SubTypes, NEW j \in Sub!SubJobs, NEW bids \in SubBids, NEW gain \in Gains,
           Recorded(j, bids, gain),
           NEW R \in SUBSET Sub!Pending(j), subJobs[j].requester \notin R,
           \A b \in Parties :
             /\ bids[b].collateral = IF b \in R THEN 0 ELSE subBids[j][b].collateral
             /\ bids[b].status = IF b \in R THEN "REFUNDED"
                                 ELSE IF b \in Sub!Pending(j) THEN "ACCEPTED"
                                 ELSE subBids[j][b].status,
           \A b \in Parties \ {subJobs[j].requester} :
             gain[b] = net[j][b] + (IF b \in R THEN subBids[j][b].collateral ELSE 0)
    PROVE  Tender!Next
  <1>1. /\ j \in Sub!Tenders /\ R \subseteq Parties
        /\ Sub!Phases' = [Sub!Phases EXCEPT ![j] = [b \in Parties |-> Sub!DepositPhase(bids[b])]]
        /\ Sub!Deposits' = [Sub!Deposits EXCEPT ![j] = [b \in Parties |-> bids[b].collateral]]
    BY DEF Recorded, Sub!Pending
  <1>2. \A b \in Parties : /\ subBids[j][b].status \in {"NONE", "PENDING", "ACCEPTED", "REFUNDED"}
                           /\ subBids[j][b].collateral \in Nat /\ net[j][b] \in Int
    BY SubJobTypes DEF SubBids, SubBid, Gains, Sub!Accounts
  <1>3. Tender!Open(j) = Sub!Pending(j)
    <2>1. \A b \in Parties : Sub!DepositPhase(subBids[j][b]) = "open" <=> subBids[j][b].status = "PENDING"
      BY <1>2 DEF Sub!DepositPhase
    <2> QED BY <1>1, <2>1, PhasesOf DEF Tender!Open, Sub!Pending
  <1>4. [b \in Parties |-> Sub!DepositPhase(bids[b])] =
        [b \in Parties |-> IF b \in R THEN "settled"
                           ELSE IF b \in Tender!Open(j) THEN "bound" ELSE Sub!Phases[j][b]]
    <2>1. ASSUME NEW b \in Parties
          PROVE  Sub!DepositPhase(bids[b]) =
                   IF b \in R THEN "settled"
                   ELSE IF b \in Tender!Open(j) THEN "bound" ELSE Sub!Phases[j][b]
      <3>1. Sub!Phases[j][b] = Sub!DepositPhase(subBids[j][b])
        BY <1>1, PhasesOf
      <3>2. bids[b].status = IF b \in R THEN "REFUNDED"
                             ELSE IF b \in Tender!Open(j) THEN "ACCEPTED" ELSE subBids[j][b].status
        BY <1>3
      <3> QED BY ONLY <3>1, <3>2 DEF Sub!DepositPhase
    <2> QED BY ONLY <2>1
  <1>5. [b \in Parties |-> bids[b].collateral] =
        [b \in Parties |-> IF b \in R THEN 0 ELSE Sub!Deposits[j][b]]
    <2>1. \A b \in Parties : bids[b].collateral = IF b \in R THEN 0 ELSE Sub!Deposits[j][b]
      BY <1>1, PhasesOf
    <2> QED BY ONLY <2>1
  <1>6. Sub!Purses' = [b \in Parties |-> IF b \in R THEN Sub!Purses[b] + Sub!Deposits[j][b]
                                         ELSE Sub!Purses[b]]
    <2>1. ASSUME NEW b \in Parties
          PROVE  Sub!Purses'[b] = IF b \in R THEN Sub!Purses[b] + Sub!Deposits[j][b] ELSE Sub!Purses[b]
      <3>1. Sub!Purses'[b] = IF b = subJobs[j].requester THEN Sub!Purses[b]
                             ELSE Sub!Purses[b] + gain[b] - net[j][b]
        BY DEF Recorded
      <3>2. Sub!Deposits[j][b] = subBids[j][b].collateral /\ Sub!Purses[b] \in Int
        BY <1>1, PhasesOf, PursesOf
      <3>3. net[j][b] \in Int /\ subBids[j][b].collateral \in Nat
        BY <1>2
      <3>4. CASE b = subJobs[j].requester
        BY <3>1, <3>4
      <3>5. CASE b # subJobs[j].requester
        <4>1. gain[b] = net[j][b] + (IF b \in R THEN subBids[j][b].collateral ELSE 0)
          BY <3>5
        <4> QED BY ONLY <3>1, <3>2, <3>3, <3>5, <4>1
      <3> QED BY <3>4, <3>5
    <2>2. Sub!Purses' = [b \in Parties |-> Sub!Purses'[b]]
      BY PursesOf
    <2> QED BY ONLY <2>1, <2>2
  <1>7. Tender!Resolve(j, R)
    BY ONLY <1>1, <1>4, <1>5, <1>6 DEF Tender!Resolve
  <1> QED BY <1>1, <1>3, <1>7 DEF Tender!Next

\* The accepted bid of a bidder who has its collateral back, or what is left of it.
LEMMA TenderSettle ==
    ASSUME Sub!ConstantsOK, SubTypes, NEW j \in Sub!SubJobs, NEW bids \in SubBids, NEW gain \in Gains,
           Recorded(j, bids, gain),
           NEW a \in Parties, a # subJobs[j].requester,
           subBids[j][a].status = "ACCEPTED", bids[a].status = "REFUNDED", bids[a].collateral = 0,
           \A b \in Parties \ {a} : bids[b] = subBids[j][b],
           \A b \in Parties \ {a, subJobs[j].requester} : gain[b] = net[j][b],
           NEW got \in Int, gain[a] = net[j][a] + got, got >= 0
    PROVE  Tender!Next
  <1>1. /\ j \in Sub!Tenders
        /\ Sub!Phases' = [Sub!Phases EXCEPT ![j] = [b \in Parties |-> Sub!DepositPhase(bids[b])]]
        /\ Sub!Deposits' = [Sub!Deposits EXCEPT ![j] = [b \in Parties |-> bids[b].collateral]]
    BY DEF Recorded
  <1>2. /\ Sub!Phases[j][a] = "bound" /\ Sub!DepositPhase(bids[a]) = "settled"
        /\ Sub!Deposits[j][a] = subBids[j][a].collateral
        /\ subBids[j][a].collateral \in Nat /\ net[j] \in Gains
    BY <1>1, PhasesOf, SubJobTypes DEF Sub!DepositPhase, SubBids, SubBid
  <1>3. Sub!Phases' = [Sub!Phases EXCEPT ![j][a] = "settled"]
    <2>1. [b \in Parties |-> Sub!DepositPhase(bids[b])] = [Sub!Phases[j] EXCEPT ![a] = "settled"]
      <3>1. \A b \in Parties : Sub!DepositPhase(bids[b]) = IF b = a THEN "settled" ELSE Sub!Phases[j][b]
        BY <1>1, <1>2, PhasesOf
      <3>2. Sub!Phases[j] = [b \in Parties |-> Sub!Phases[j][b]]
        BY <1>1 DEF Sub!Phases
      <3> QED BY ONLY <3>1, <3>2
    <2> QED BY ONLY <1>1, <2>1
  <1>4. Sub!Deposits' = [Sub!Deposits EXCEPT ![j][a] = 0]
    <2>1. [b \in Parties |-> bids[b].collateral] = [Sub!Deposits[j] EXCEPT ![a] = 0]
      <3>1. \A b \in Parties : bids[b].collateral = IF b = a THEN 0 ELSE Sub!Deposits[j][b]
        BY <1>1, PhasesOf
      <3>2. Sub!Deposits[j] = [b \in Parties |-> Sub!Deposits[j][b]]
        BY <1>1 DEF Sub!Deposits
      <3> QED BY ONLY <3>1, <3>2
    <2> QED BY ONLY <1>1, <2>1
  <1>5. Tender!Settle(j, a)
    BY ONLY <1>2, <1>3, <1>4 DEF Tender!Settle
  <1>6. \A b \in Parties : net[j][b] \in Int
    BY <1>2 DEF Gains, Sub!Accounts
  <1>7. \A b \in Parties : Sub!Purses[b] \in Int
    BY PursesOf
  <1>8. Sub!Purses'[a] = Sub!Purses[a] + got
    BY <1>6, <1>7 DEF Recorded
  <1>9. Sub!Purses' = [Sub!Purses EXCEPT ![a] = Sub!Purses'[a]]
    <2>1. \A b \in Parties \ {a} : Sub!Purses'[b] = Sub!Purses[b]
      BY <1>6, <1>7 DEF Recorded
    <2> QED BY <2>1, PursesOf
  <1>10. CASE got >= subBids[j][a].collateral
    <2>1. Sub!Purses'[a] >= Sub!Purses[a] + Sub!Deposits[j][a]
      BY <1>2, <1>7, <1>8, <1>10
    <2>2. Tender!Release(j, a)
      BY ONLY <1>5, <1>9, <2>1 DEF Tender!Release
    <2> QED BY <1>1, <2>2 DEF Tender!Next
  <1>11. CASE got <= subBids[j][a].collateral
    <2>1. Sub!Purses'[a] \in Sub!Purses[a] .. (Sub!Purses[a] + Sub!Deposits[j][a])
      BY <1>2, <1>7, <1>8, <1>11
    <2>2. Tender!Forfeit(j, a)
      BY ONLY <1>5, <1>9, <2>1 DEF Tender!Forfeit
    <2> QED BY <1>1, <2>2 DEF Tender!Next
  <1> QED BY <1>2, <1>10, <1>11

-----------------------------------------------------------------------------
(***************************************************************************)
(* The calls: each keeps the invariant, and is a step of CollateralEscrow  *)
(* or not seen by it.                                                      *)
(***************************************************************************)

LEMMA SubInit == Sub!ConstantsOK /\ Sub!Init => SubIInv
BY DEF Sub!ConstantsOK, Sub!Init, SubIInv, SubTypes, Sub!SubJobs

\* createSubAuction: the requester has paid in what the contract holds.
LEMMA CreateSubStep ==
    ASSUME Sub!ConstantsOK, SubIInv, NEW r \in Winners, NEW n \in Offers,
           Sub!CreateSubAuction(r, n)
    PROVE  SubIInv' /\ UNCHANGED Tender!vars
  <1>1. PICK s, bids, gain :
          /\ s = [status |-> "OPEN", requester |-> r, payment |-> n, selected |-> Nobody,
                  delivered |-> FALSE]
          /\ bids = [a \in Parties |-> Sub!NoBid] /\ gain = Sub!To(r, -n)
          /\ subJobs' = Append(subJobs, s) /\ subBids' = Append(subBids, bids)
          /\ net' = Append(net, gain)
    BY DEF Sub!CreateSubAuction
  <1>2. r \in Parties /\ n \in Nat /\ r \in Sub!Accounts /\ SubTreasury \notin Parties
    BY DEF Sub!ConstantsOK, Sub!Accounts
  <1>3. s \in SubJob /\ bids \in SubBids /\ gain \in Gains
    <2>1. s \in SubJob
      BY <1>1, <1>2 DEF SubJob, Unfinished, Ended
    <2>2. Sub!NoBid \in SubBid
      BY DEF Sub!NoBid, SubBid
    <2>3. \A b \in Sub!Accounts : (IF b = r THEN -n ELSE 0) \in Int
      BY <1>2
    <2> QED BY <1>1, <2>1, <2>2, <2>3 DEF SubBids, Gains, Sub!To
  <1>4. WellKept(s, bids, gain)
    <2>1. \A b \in Sub!Accounts : gain[b] = IF b = r THEN -n ELSE 0
      BY <1>1 DEF Sub!To
    <2>2. \A b \in Parties : bids[b] = Sub!NoBid
      BY <1>1
    <2>3. s.status = "OPEN" /\ s.requester = r /\ s.payment = n /\ s.selected = Nobody
      BY <1>1
    <2>4. \A b \in Sub!Accounts : gain[b] = -PaidIn(s, b) - Locked(bids, b)
      BY <1>2, <2>1, <2>2, <2>3 DEF PaidIn, Locked, Sub!NoBid
    <2> QED BY <1>2, <2>2, <2>3, <2>4 DEF WellKept, PaidInIsHeld, OpenIsUndecided, OneContractor,
              Settlement, Sub!NoBid, Unfinished, Ended
  <1>5. SubTypes /\ Len(subJobs) \in Nat /\ Len(subJobs) < MaxSubJobs /\ MaxSubJobs \in Nat
    BY DEF SubIInv, SubTypes, Sub!CreateSubAuction, Sub!ConstantsOK
  <1>6. SubTypes'
    BY <1>1, <1>3, <1>5, AppendProperties DEF SubTypes
  <1>7. ASSUME NEW j \in Sub!SubJobs' PROVE WellKept(subJobs'[j], subBids'[j], net'[j])
    <2>1. CASE j = Len(subJobs) + 1
      <3>1. subJobs'[j] = s /\ subBids'[j] = bids /\ net'[j] = gain
        BY <1>1, <1>3, <1>5, <2>1, AppendProperties DEF SubTypes
      <3> QED BY <1>4, <3>1
    <2>2. CASE j # Len(subJobs) + 1
      <3>1. j \in Sub!SubJobs
        BY <1>1, <1>3, <1>5, <2>2 DEF Sub!SubJobs, SubTypes
      <3>2. subJobs'[j] = subJobs[j] /\ subBids'[j] = subBids[j] /\ net'[j] = net[j]
        BY <1>1, <1>3, <1>5, <3>1, SubJobTypes, AppendProperties DEF SubTypes
      <3> QED BY <3>1, <3>2 DEF SubIInv
    <2> QED BY <2>1, <2>2
  <1>8. SubIInv'
    BY <1>6, <1>7 DEF SubIInv, WellKept, PaidInIsHeld, OpenIsUndecided, OneContractor,
       Settlement, Sub!Accounts
  <1>9. ASSUME NEW k, NEW b \in Parties
        PROVE  /\ Sub!BidFor(k, b)' = Sub!BidFor(k, b)
               /\ Sub!GainAsBidder(k, b)' = Sub!GainAsBidder(k, b)
    <2>1. CASE k \in Sub!SubJobs
      <3>1. subJobs'[k] = subJobs[k] /\ subBids'[k] = subBids[k] /\ net'[k] = net[k]
        BY <1>1, <1>3, <1>5, <2>1, SubJobTypes, AppendProperties DEF SubTypes
      <3>2. k \in Sub!SubJobs'
        BY <1>1, <1>3, <1>5, <2>1, SubJobTypes, AppendProperties DEF SubTypes, Sub!SubJobs
      <3> QED BY <2>1, <3>1, <3>2 DEF Sub!BidFor, Sub!GainAsBidder
    <2>2. CASE k = Len(subJobs) + 1
      <3>1. subJobs'[k] = s /\ subBids'[k] = bids /\ net'[k] = gain /\ k \notin Sub!SubJobs
        BY <1>1, <1>3, <1>5, <2>2, AppendProperties DEF SubTypes, Sub!SubJobs
      <3>2. bids[b] = Sub!NoBid /\ (b # r => gain[b] = 0) /\ s.requester = r
        BY <1>1 DEF Sub!To, Sub!Accounts
      <3> QED BY <3>1, <3>2 DEF Sub!BidFor, Sub!GainAsBidder, Sub!NoBid
    <2>3. CASE k \notin Sub!SubJobs /\ k # Len(subJobs) + 1
      <3>1. k \notin Sub!SubJobs'
        BY <1>1, <1>3, <1>5, <2>3, AppendProperties DEF SubTypes, Sub!SubJobs
      <3> QED BY <2>3, <3>1 DEF Sub!BidFor, Sub!GainAsBidder, Sub!NoBid
    <2> QED BY <2>1, <2>2, <2>3
  <1>10. UNCHANGED Tender!vars
    BY <1>9, TenderUnseen
  <1> QED BY <1>8, <1>10

\* A call that concerns one sub-job keeps all the others.
LEMMA OneSubJob ==
    ASSUME Sub!ConstantsOK, SubIInv, NEW j \in Sub!SubJobs, NEW s \in SubJob, NEW bids \in SubBids, NEW gain \in Gains,
           subJobs' = [subJobs EXCEPT ![j] = s], subBids' = [subBids EXCEPT ![j] = bids],
           net' = [net EXCEPT ![j] = gain],
           WellKept(s, bids, gain), s.requester = subJobs[j].requester
    PROVE  SubIInv' /\ Recorded(j, bids, gain)
  <1>1. SubTypes /\ j \in 1..Len(subJobs) /\ j \in 1..Len(subBids) /\ j \in 1..Len(net)
    BY SubJobTypes DEF SubIInv, SubTypes
  <1>2. /\ subJobs' \in Seq(SubJob) /\ Len(subJobs') = Len(subJobs)
        /\ subBids' \in Seq(SubBids) /\ Len(subBids') = Len(subBids)
        /\ net' \in Seq(Gains) /\ Len(net') = Len(net)
    BY <1>1, ExceptSeq DEF SubTypes
  <1>3. SubTypes' /\ Sub!SubJobs' = Sub!SubJobs
    BY <1>1, <1>2 DEF SubTypes, Sub!SubJobs
  <1>4. ASSUME NEW k \in Sub!SubJobs PROVE WellKept(subJobs'[k], subBids'[k], net'[k])
    <2>1. /\ subJobs'[k] = IF k = j THEN s ELSE subJobs[k]
          /\ subBids'[k] = IF k = j THEN bids ELSE subBids[k]
          /\ net'[k] = IF k = j THEN gain ELSE net[k]
      BY <1>1, SubJobTypes, ExceptSeq DEF SubTypes
    <2> QED BY <2>1 DEF SubIInv
  <1>5. SubIInv'
    BY <1>3, <1>4 DEF SubIInv, WellKept, PaidInIsHeld, OpenIsUndecided, OneContractor,
       Settlement, Sub!Accounts
  <1>6. Recorded(j, bids, gain)
    BY <1>1, <1>3, TenderRecords
  <1> QED BY <1>5, <1>6

\* GUARD that moves between the contract and one or two accounts.
LEMMA GainsAdded ==
    ASSUME Sub!ConstantsOK, NEW g \in Gains, NEW h \in Gains
    PROVE  /\ Sub!Plus(g, h) \in Gains
           /\ \A b \in Sub!Accounts : Sub!Plus(g, h)[b] = g[b] + h[b]
BY DEF Sub!Plus, Gains

LEMMA GainOfOne ==
    ASSUME NEW a, NEW n \in Int
    PROVE  /\ Sub!To(a, n) \in Gains
           /\ \A b \in Sub!Accounts : Sub!To(a, n)[b] = IF b = a THEN n ELSE 0
BY DEF Sub!To, Gains

\* submitSubBid: the bidder locks what it has not locked before.
LEMMA SubmitStep ==
    ASSUME Sub!ConstantsOK, SubIInv, NEW j \in Sub!SubJobs, NEW a \in Parties, NEW n \in Asks,
           NEW c \in Collaterals, Sub!SubmitSubBid(j, a, n, c)
    PROVE  SubIInv' /\ Tender!Next
  <1> DEFINE s == subJobs[j]
             new == [status |-> "PENDING", price |-> n, collateral |-> c]
             bids == [subBids[j] EXCEPT ![a] = new]
             gain == Sub!Plus(net[j], Sub!To(a, -c))
  <1>1. /\ SubTypes /\ s \in SubJob /\ subBids[j] \in SubBids /\ net[j] \in Gains
        /\ j \in DOMAIN subBids /\ n \in Nat /\ c \in Nat /\ WellKept(s, subBids[j], net[j])
        /\ SubTreasury \notin Parties
    BY SubJobTypes DEF SubIInv, Sub!ConstantsOK
  <1>2. /\ s.status = "OPEN" /\ a # s.requester /\ n <= s.payment /\ subBids[j][a].status = "NONE"
        /\ subJobs' = subJobs /\ net' = [net EXCEPT ![j] = gain]
        /\ subBids' = [subBids EXCEPT ![j] = bids]
    BY DEF Sub!SubmitSubBid, Sub!Calling, Sub!Transfer
  <1>3. subJobs' = [subJobs EXCEPT ![j] = s]
    BY <1>1, <1>2 DEF SubTypes
  <1>4. new \in SubBid /\ bids \in SubBids
    BY <1>1 DEF SubBid, SubBids
  <1>5. \A b \in Parties : bids[b] = IF b = a THEN new ELSE subBids[j][b]
    BY <1>1 DEF SubBids
  <1>6. gain \in Gains /\ \A b \in Sub!Accounts : gain[b] = net[j][b] + (IF b = a THEN -c ELSE 0)
    <2>1. -c \in Int
      BY <1>1
    <2>2. /\ Sub!To(a, -c) \in Gains
          /\ \A b \in Sub!Accounts : Sub!To(a, -c)[b] = IF b = a THEN -c ELSE 0
      BY <2>1, GainOfOne
    <2> QED BY <1>1, <2>2, GainsAdded
  <1>7. subBids[j][a].collateral = 0
    BY <1>1, <1>2, OpenSubJob
  <1>8. \A b \in Sub!Accounts : gain[b] = -PaidIn(s, b) - Locked(bids, b)
    <2> SUFFICES ASSUME NEW b \in Sub!Accounts PROVE gain[b] = -PaidIn(s, b) - Locked(bids, b)
      OBVIOUS
    <2>1. net[j][b] = -PaidIn(s, b) - Locked(subBids[j], b)
      BY <1>1, <1>2 DEF WellKept, PaidInIsHeld, Unfinished
    <2>2. Locked(subBids[j], b) \in Int /\ PaidIn(s, b) \in Int
      BY <1>1 DEF Locked, PaidIn, SubBids, SubBid, SubJob
    <2>3. Locked(bids, b) = Locked(subBids[j], b) + (IF b = a THEN c ELSE 0)
      BY <1>1, <1>5, <1>7, <2>2 DEF Locked
    <2> QED BY <1>1, <1>6, <2>1, <2>2, <2>3
  <1>9. s.requester \in Parties /\ bids[s.requester] = subBids[j][s.requester]
    BY <1>1, <1>2, <1>5 DEF SubJob
  <1>10. OpenIsUndecided(s, bids)
    BY <1>1, <1>2, <1>5, <1>9 DEF WellKept, OpenIsUndecided
  <1>11. WellKept(s, bids, gain)
    BY <1>2, <1>8, <1>10 DEF WellKept, PaidInIsHeld, OneContractor, Settlement, Unfinished, Ended
  <1>12. /\ bids[a].status = "PENDING" /\ bids[a].collateral = c /\ a \in Sub!Accounts
         /\ s.requester = subJobs[j].requester
    BY <1>1 DEF SubBids, Sub!Accounts
  <1>13. /\ \A b \in Parties \ {a} : bids[b] = subBids[j][b] /\ gain[b] = net[j][b]
         /\ gain[a] = net[j][a] - bids[a].collateral
    <2>1. \A b \in Parties : b \in Sub!Accounts /\ net[j][b] \in Int
      BY <1>1 DEF Gains, Sub!Accounts
    <2> HIDE DEF bids, gain
    <2> QED BY <1>1, <1>5, <1>6, <1>12, <2>1
  <1> HIDE DEF s, bids, gain
  <1>14. SubIInv' /\ Recorded(j, bids, gain)
    BY <1>1, <1>2, <1>3, <1>4, <1>6, <1>11, <1>12, OneSubJob
  <1>15. Tender!Deposit(j, a)
    BY <1>1, <1>2, <1>4, <1>6, <1>7, <1>12, <1>13, <1>14, TenderDeposit
  <1>16. j \in Sub!Tenders
    BY <1>14 DEF Recorded
  <1> QED BY <1>14, <1>15, <1>16 DEF Tender!Next

\* What refunds to several bidders come to, and what their bids look like then.
LEMMA RefundsPaid ==
    ASSUME Sub!ConstantsOK, SubTypes, NEW j \in Sub!SubJobs, NEW S \in SUBSET Parties
    PROVE  /\ Sub!Refunds(j, S) \in Gains
           /\ \A b \in Sub!Accounts :
                Sub!Refunds(j, S)[b] = IF b \in S THEN subBids[j][b].collateral ELSE 0
           /\ Sub!Refunded(j, S) \in SubBids
           /\ \A b \in Parties :
                /\ Sub!Refunded(j, S)[b].collateral = IF b \in S THEN 0 ELSE subBids[j][b].collateral
                /\ Sub!Refunded(j, S)[b].price = subBids[j][b].price
                /\ b \notin S => Sub!Refunded(j, S)[b] = subBids[j][b]
                /\ b \in S => Sub!Refunded(j, S)[b].status = "REFUNDED"
  <1>1. \A b \in Parties : subBids[j][b] \in SubBid
    BY SubJobTypes DEF SubBids
  <1>2. \A b \in Sub!Accounts : (IF b \in S THEN subBids[j][b].collateral ELSE 0) \in Int
    BY <1>1 DEF SubBid
  <1>3. Sub!Refunds(j, S) = [b \in Sub!Accounts |-> IF b \in S THEN subBids[j][b].collateral ELSE 0]
    BY DEF Sub!Refunds
  <1>4. Sub!Refunds(j, S) \in Gains
    BY <1>2, <1>3 DEF Gains
  <1> DEFINE off(b) == [subBids[j][b] EXCEPT !.status = "REFUNDED", !.collateral = 0]
  <1>5. \A b \in Parties : /\ off(b) \in SubBid /\ off(b).collateral = 0
                           /\ off(b).price = subBids[j][b].price /\ off(b).status = "REFUNDED"
    BY <1>1 DEF SubBid
  <1>6. Sub!Refunded(j, S) = [b \in Parties |-> IF b \in S THEN off(b) ELSE subBids[j][b]]
    BY DEF Sub!Refunded
  <1> HIDE DEF off
  <1> QED BY <1>1, <1>3, <1>4, <1>5, <1>6 DEF SubBids

\* selectSubContractor: those who lost get their collateral, the requester what
\* the contractor asks less.
LEMMA SelectStep ==
    ASSUME Sub!ConstantsOK, SubIInv, NEW j \in Sub!SubJobs, NEW a \in Parties,
           Sub!SelectSubContractor(j, a)
    PROVE  SubIInv' /\ Tender!Next
  <1> DEFINE old == subJobs[j]
             r == old.requester
             losers == Sub!Pending(j) \ {a}
             price == subBids[j][a].price
             s == [old EXCEPT !.status = "IN_PROGRESS", !.selected = a, !.payment = price]
             bids == [Sub!Refunded(j, losers) EXCEPT ![a].status = "ACCEPTED"]
             gain == Sub!Plus(net[j], Sub!Plus(Sub!Refunds(j, losers), Sub!To(r, Sub!Discount(j, a))))
  <1>1. /\ SubTypes /\ old \in SubJob /\ subBids[j] \in SubBids /\ net[j] \in Gains
        /\ j \in DOMAIN subBids /\ WellKept(old, subBids[j], net[j]) /\ SubTreasury \notin Parties
        /\ losers \subseteq Parties
    BY SubJobTypes DEF SubIInv, Sub!ConstantsOK, Sub!Pending
  <1>2. /\ old.status = "OPEN" /\ subBids[j][a].status = "PENDING"
        /\ net' = [net EXCEPT ![j] = gain] /\ subBids' = [subBids EXCEPT ![j] = bids]
        /\ subJobs' = [subJobs EXCEPT ![j] = s]
    BY <1>1 DEF Sub!SelectSubContractor, Sub!Calling, Sub!Transfer, Sub!Pending
  <1>3. /\ r \in Parties /\ subBids[j][r].status = "NONE" /\ r # a /\ r \notin losers
        /\ subBids[j][r].collateral = 0 /\ price \in Nat /\ old.payment \in Nat
        /\ \A b \in Parties \ (losers \cup {a}) : subBids[j][b].collateral = 0
    BY <1>1, <1>2, OpenSubJob DEF Sub!Pending
  <1>4. s \in SubJob /\ s.status = "IN_PROGRESS" /\ s.selected = a /\ s.payment = price
        /\ s.requester = r
    BY <1>1, <1>3 DEF SubJob, Unfinished, Ended
  <1>5. /\ Sub!Refunded(j, losers) \in SubBids
        /\ \A b \in Parties :
             /\ Sub!Refunded(j, losers)[b].collateral = IF b \in losers THEN 0 ELSE subBids[j][b].collateral
             /\ Sub!Refunded(j, losers)[b].price = subBids[j][b].price
             /\ b \notin losers => Sub!Refunded(j, losers)[b] = subBids[j][b]
             /\ b \in losers => Sub!Refunded(j, losers)[b].status = "REFUNDED"
        /\ Sub!Refunds(j, losers) \in Gains
        /\ \A b \in Sub!Accounts :
             Sub!Refunds(j, losers)[b] = IF b \in losers THEN subBids[j][b].collateral ELSE 0
    BY <1>1, RefundsPaid
  <1> DEFINE rest == Sub!Refunded(j, losers)
             acc == [rest[a] EXCEPT !.status = "ACCEPTED"]
  <1>6. rest[a] \in SubBid /\ acc \in SubBid /\ acc.price = rest[a].price
        /\ acc.collateral = rest[a].collateral /\ acc.status = "ACCEPTED"
    BY <1>5 DEF SubBids, SubBid
  <1>7. bids = [rest EXCEPT ![a] = acc]
    OBVIOUS
  <1> HIDE DEF acc, rest, bids
  <1>8. /\ bids \in SubBids /\ bids[a].price = price /\ bids[a].status = "ACCEPTED"
        /\ \A b \in Parties \ {a} : bids[b].collateral = 0
        /\ bids[a].collateral = subBids[j][a].collateral
        /\ \A b \in Parties \ {a} : bids[b] = rest[b]
    <2>1. bids \in SubBids /\ \A b \in Parties : bids[b] = IF b = a THEN acc ELSE rest[b]
      BY <1>5, <1>6, <1>7 DEF SubBids, rest
    <2>2. /\ acc.price = price /\ acc.collateral = subBids[j][a].collateral
          /\ acc.status = "ACCEPTED"
      BY <1>5, <1>6 DEF rest
    <2>3. \A b \in Parties \ {a} : rest[b].collateral = 0
      BY <1>3, <1>5 DEF rest
    <2> QED BY <2>1, <2>2, <2>3
  <1> DEFINE k == Sub!Discount(j, a)
  <1>9. k \in Int /\ k = old.payment - price
    BY <1>3 DEF Sub!Discount
  <1>10. gain \in Gains /\ \A b \in Sub!Accounts :
            gain[b] = net[j][b] + ((IF b \in losers THEN subBids[j][b].collateral ELSE 0)
                                    + (IF b = r THEN k ELSE 0))
    <2> DEFINE change == Sub!Plus(Sub!Refunds(j, losers), Sub!To(r, k))
    <2>1. /\ Sub!To(r, k) \in Gains
          /\ \A b \in Sub!Accounts : Sub!To(r, k)[b] = IF b = r THEN k ELSE 0
      BY <1>9, GainOfOne
    <2>2. /\ change \in Gains
          /\ \A b \in Sub!Accounts : change[b] = Sub!Refunds(j, losers)[b] + Sub!To(r, k)[b]
      BY <1>5, <2>1, GainsAdded
    <2>3. gain = Sub!Plus(net[j], change)
      OBVIOUS
    <2> HIDE DEF change, gain
    <2>4. gain \in Gains /\ \A b \in Sub!Accounts : gain[b] = net[j][b] + change[b]
      BY <1>1, <2>2, <2>3, GainsAdded
    <2> HIDE DEF s, price, losers, r, old, k
    <2> QED BY <1>5, <2>1, <2>2, <2>4
  <1> HIDE DEF gain, k
  <1>11. \A b \in Sub!Accounts : gain[b] = -PaidIn(s, b) - Locked(bids, b)
    <2> SUFFICES ASSUME NEW b \in Sub!Accounts PROVE gain[b] = -PaidIn(s, b) - Locked(bids, b)
      OBVIOUS
    <2>1. net[j][b] = -PaidIn(old, b) - Locked(subBids[j], b)
      BY <1>1, <1>2 DEF WellKept, PaidInIsHeld, Unfinished
    <2>2. b \in Parties => subBids[j][b].collateral \in Nat
      BY <1>1 DEF SubBids, SubBid
    <2>3. Locked(bids, b) = IF b = a THEN subBids[j][a].collateral ELSE 0
      BY <1>8 DEF Locked
    <2>4. PaidIn(s, b) = IF b = r THEN price ELSE 0
      BY <1>4 DEF PaidIn
    <2>5. PaidIn(old, b) = IF b = r THEN old.payment ELSE 0
      BY DEF PaidIn
    <2>6. Locked(subBids[j], b) = IF b \in losers \/ b = a THEN subBids[j][b].collateral ELSE 0
      BY <1>1, <1>3 DEF Locked
    <2>7. a \notin losers
      OBVIOUS
    <2> HIDE DEF r, price, old, losers
    <2>8. CASE b = r
      BY <1>3, <1>9, <1>10, <2>1, <2>2, <2>3, <2>4, <2>5, <2>6, <2>8
    <2>9. CASE b # r /\ b \in losers
      BY <1>1, <1>3, <1>9, <1>10, <2>1, <2>2, <2>3, <2>4, <2>5, <2>6, <2>7, <2>9
    <2>10. CASE b # r /\ b \notin losers
      BY <1>3, <1>9, <1>10, <2>1, <2>2, <2>3, <2>4, <2>5, <2>6, <2>10
    <2> QED BY <2>8, <2>9, <2>10
  <1>12. WellKept(s, bids, gain)
    BY <1>3, <1>4, <1>8, <1>11
    DEF WellKept, PaidInIsHeld, OpenIsUndecided, OneContractor, Settlement, Unfinished, Ended
  <1>13. \A b \in Parties :
           /\ bids[b].collateral = IF b \in losers THEN 0 ELSE subBids[j][b].collateral
           /\ bids[b].status = IF b \in losers THEN "REFUNDED"
                               ELSE IF b \in Sub!Pending(j) THEN "ACCEPTED" ELSE subBids[j][b].status
    <2> SUFFICES ASSUME NEW b \in Parties
                 PROVE  /\ bids[b].collateral = IF b \in losers THEN 0 ELSE subBids[j][b].collateral
                        /\ bids[b].status = IF b \in losers THEN "REFUNDED"
                                            ELSE IF b \in Sub!Pending(j) THEN "ACCEPTED"
                                            ELSE subBids[j][b].status
      OBVIOUS
    <2>1. CASE b = a
      <3>1. a \notin losers /\ a \in Sub!Pending(j)
        BY <1>2 DEF Sub!Pending
      <3> QED BY <1>8, <2>1, <3>1
    <2>2. CASE b # a
      <3>1. bids[b] = Sub!Refunded(j, losers)[b] /\ (b \in losers <=> b \in Sub!Pending(j))
        BY <1>8, <2>2 DEF rest
      <3> HIDE DEF losers
      <3> QED BY <1>5, <3>1
    <2> QED BY <2>1, <2>2
  <1>14. \A b \in Parties \ {r} :
           gain[b] = net[j][b] + (IF b \in losers THEN subBids[j][b].collateral ELSE 0)
    <2> SUFFICES ASSUME NEW b \in Parties, b # r
                 PROVE  gain[b] = net[j][b] + (IF b \in losers THEN subBids[j][b].collateral ELSE 0)
      OBVIOUS
    <2>1. b \in Sub!Accounts /\ net[j][b] \in Int /\ subBids[j][b].collateral \in Int
      BY <1>1 DEF Gains, Sub!Accounts, SubBids, SubBid
    <2> HIDE DEF losers, r
    <2> QED BY <1>10, <2>1
  <1> HIDE DEF s
  <1>15. SubIInv' /\ Recorded(j, bids, gain)
    BY <1>2, <1>4, <1>8, <1>10, <1>12, OneSubJob
  <1>16. losers \in SUBSET Sub!Pending(j) /\ r \notin losers
    BY <1>3
  <1> HIDE DEF losers
  <1> QED BY <1>1, <1>8, <1>10, <1>13, <1>14, <1>15, <1>16, TenderResolve

\* deliverResult and disputeResult move nothing.
LEMMA ProgressStep ==
    ASSUME Sub!ConstantsOK, SubIInv, NEW j \in Sub!SubJobs, Sub!DeliverResult(j) \/ Sub!DisputeResult(j)
    PROVE  SubIInv' /\ UNCHANGED Tender!vars
  <1> DEFINE old == subJobs[j]
  <1>1. /\ SubTypes /\ old \in SubJob /\ subBids[j] \in SubBids /\ net[j] \in Gains
        /\ WellKept(old, subBids[j], net[j])
    BY SubJobTypes DEF SubIInv
  <1>2. PICK s : /\ subJobs' = [subJobs EXCEPT ![j] = s] /\ s \in SubJob
                 /\ s.status \in {"DELIVERED", "DISPUTED"}
                 /\ s.selected = old.selected /\ s.requester = old.requester
                 /\ s.payment = old.payment
    <2>1. CASE Sub!DeliverResult(j)
      <3> DEFINE s == [old EXCEPT !.status = "DELIVERED", !.delivered = TRUE]
      <3>1. subJobs' = [subJobs EXCEPT ![j] = s]
        BY <2>1 DEF Sub!DeliverResult
      <3>2. /\ s \in SubJob /\ s.status \in {"DELIVERED", "DISPUTED"}
            /\ s.selected = old.selected /\ s.requester = old.requester
            /\ s.payment = old.payment
        BY <1>1 DEF SubJob, Unfinished
      <3> HIDE DEF s
      <3> QED BY <3>1, <3>2, Zenon
    <2>2. CASE Sub!DisputeResult(j)
      <3> DEFINE s == [old EXCEPT !.status = "DISPUTED"]
      <3>1. subJobs' = [subJobs EXCEPT ![j] = s]
        BY <2>2 DEF Sub!DisputeResult, Sub!Becomes
      <3>2. /\ s \in SubJob /\ s.status \in {"DELIVERED", "DISPUTED"}
            /\ s.selected = old.selected /\ s.requester = old.requester
            /\ s.payment = old.payment
        BY <1>1 DEF SubJob, Unfinished
      <3> HIDE DEF s
      <3> QED BY <3>1, <3>2, Zenon
    <2> QED BY <2>1, <2>2
  <1>3. subBids' = subBids /\ net' = net /\ old.status \in {"IN_PROGRESS", "DELIVERED"}
    BY DEF Sub!DeliverResult, Sub!DisputeResult, Sub!Calling
  <1>4. subBids' = [subBids EXCEPT ![j] = subBids[j]] /\ net' = [net EXCEPT ![j] = net[j]]
    BY <1>1, <1>3 DEF SubTypes
  <1>5. WellKept(s, subBids[j], net[j])
    BY <1>1, <1>2, <1>3 DEF WellKept, PaidInIsHeld, OpenIsUndecided, OneContractor, Settlement,
                            PaidIn, Unfinished, Ended
  <1>6. SubIInv'
    BY <1>1, <1>2, <1>4, <1>5, OneSubJob
  <1>7. ASSUME NEW k \in Sub!SubJobs
        PROVE  subJobs'[k].requester = subJobs[k].requester
    <2>1. k \in DOMAIN subJobs
      BY <1>1, SubJobTypes DEF SubTypes
    <2> QED BY <1>2, <2>1
  <1>8. Sub!SubJobs' = Sub!SubJobs
    BY <1>2 DEF Sub!SubJobs
  <1>9. UNCHANGED Tender!vars
    <2>1. \A k, b : b \in Parties => /\ Sub!BidFor(k, b)' = Sub!BidFor(k, b)
                                     /\ Sub!GainAsBidder(k, b)' = Sub!GainAsBidder(k, b)
      BY <1>3, <1>7, <1>8 DEF Sub!BidFor, Sub!GainAsBidder, Sub!NoBid
    <2> QED BY <2>1, TenderUnseen
  <1> QED BY <1>6, <1>9

\* _slash: the share of the collateral that goes to the treasury.
LEMMA SlashedShare ==
    ASSUME NEW c \in Nat, NEW percent \in {0, 25, 50}
    PROVE  /\ (c * percent) \div 100 \in 0..c
           /\ percent = 0 => (c * percent) \div 100 = 0
  <1>1. (c * 0) \div 100 = 0 /\ (c * 25) \div 100 \in 0..c /\ (c * 50) \div 100 \in 0..c
    OBVIOUS
  <1> QED BY <1>1

\* acceptResult, resolveDispute and claimExpired: the payment goes to one party,
\* what is not slashed back to the contractor.
LEMMA SettleStep ==
    ASSUME Sub!ConstantsOK, SubIInv, NEW j \in Sub!SubJobs,
           NEW status \in Ended, NEW payee \in Parties, NEW percent \in {0, 25, 50},
           Sub!Settle(j, status, payee, percent),
           subJobs[j].status \in Unfinished \ {"OPEN"},
           status = "ACCEPTED" => payee = subJobs[j].selected /\ percent = 0,
           status # "ACCEPTED" => payee = subJobs[j].requester
    PROVE  SubIInv' /\ Tender!Next
  <1> DEFINE old == subJobs[j]
             a == old.selected
             r == old.requester
             price == subBids[j][a].price
             c == subBids[j][a].collateral
             slashed == (c * percent) \div 100
             s == [old EXCEPT !.status = status]
             bids == Sub!Refunded(j, {a})
             gain == Sub!Plus(net[j], Sub!Plus(Sub!To(payee, price),
                                Sub!Plus(Sub!To(SubTreasury, slashed), Sub!To(a, c - slashed))))
  <1>1. /\ SubTypes /\ old \in SubJob /\ subBids[j] \in SubBids /\ net[j] \in Gains
        /\ WellKept(old, subBids[j], net[j]) /\ SubTreasury \notin Parties /\ Nobody \notin Parties
        /\ Parties \subseteq Sub!Accounts /\ SubTreasury \in Sub!Accounts
    BY SubJobTypes DEF SubIInv, Sub!ConstantsOK, Sub!Accounts
  <1>2. /\ a \in Parties /\ r \in Parties /\ a # r /\ price = old.payment /\ price \in Nat /\ c \in Nat
        /\ \A b \in Parties \ {a} : subBids[j][b].collateral = 0
        /\ subBids[j][a].status = "ACCEPTED"
    BY <1>1 DEF WellKept, OneContractor, SubJob, SubBids, SubBid
  <1>3. /\ net' = [net EXCEPT ![j] = gain] /\ subBids' = [subBids EXCEPT ![j] = bids]
        /\ subJobs' = [subJobs EXCEPT ![j] = s]
    BY DEF Sub!Settle, Sub!Transfer, Sub!Becomes
  <1>4. /\ s \in SubJob /\ s.status = status /\ s.selected = a /\ s.requester = r
        /\ s.payment = old.payment
    BY <1>1 DEF SubJob, Ended
  <1>5. /\ bids \in SubBids /\ \A b \in Parties : bids[b].collateral = 0
        /\ bids[a].status = "REFUNDED" /\ \A b \in Parties \ {a} : bids[b] = subBids[j][b]
    <2> DEFINE S == {a}
    <2>1. S \in SUBSET Parties /\ \A b \in Parties : b \in S <=> b = a
      BY <1>2
    <2>2. bids = Sub!Refunded(j, S)
      OBVIOUS
    <2> HIDE DEF S, bids
    <2>3. /\ bids \in SubBids
          /\ \A b \in Parties :
               /\ bids[b].collateral = IF b \in S THEN 0 ELSE subBids[j][b].collateral
               /\ b \notin S => bids[b] = subBids[j][b]
               /\ b \in S => bids[b].status = "REFUNDED"
      BY <1>1, <2>1, <2>2, RefundsPaid
    <2> QED BY <1>2, <2>1, <2>3
  <1>6. slashed \in 0..c /\ slashed \in Int /\ (percent = 0 => slashed = 0)
    BY <1>2, SlashedShare
  <1>7. gain \in Gains /\ \A b \in Sub!Accounts :
          gain[b] = net[j][b] + ((IF b = payee THEN price ELSE 0)
                                  + ((IF b = SubTreasury THEN slashed ELSE 0)
                                      + (IF b = a THEN c - slashed ELSE 0)))
    <2> DEFINE rest == c - slashed
    <2>1. net[j] \in Gains /\ price \in Int /\ slashed \in Int /\ rest \in Int
      BY <1>1, <1>2, <1>6
    <2> HIDE DEF slashed, rest, a, price, c
    <2> DEFINE g1 == Sub!To(payee, price)
               g2 == Sub!To(SubTreasury, slashed)
               g3 == Sub!To(a, rest)
               g4 == Sub!Plus(g2, g3)
               g5 == Sub!Plus(g1, g4)
    <2>2. g1 \in Gains /\ \A b \in Sub!Accounts : g1[b] = IF b = payee THEN price ELSE 0
      BY <2>1, GainOfOne
    <2>3. g2 \in Gains /\ \A b \in Sub!Accounts : g2[b] = IF b = SubTreasury THEN slashed ELSE 0
      BY <2>1, GainOfOne
    <2>4. g3 \in Gains /\ \A b \in Sub!Accounts : g3[b] = IF b = a THEN rest ELSE 0
      BY <2>1, GainOfOne
    <2>5. gain = Sub!Plus(net[j], g5)
      BY DEF rest
    <2> HIDE DEF g1, g2, g3, gain
    <2>6. g4 \in Gains /\ \A b \in Sub!Accounts : g4[b] = g2[b] + g3[b]
      BY <2>3, <2>4, GainsAdded
    <2> HIDE DEF g4
    <2>7. g5 \in Gains /\ \A b \in Sub!Accounts : g5[b] = g1[b] + g4[b]
      BY <2>2, <2>6, GainsAdded
    <2> HIDE DEF g5
    <2>8. gain \in Gains /\ \A b \in Sub!Accounts : gain[b] = net[j][b] + g5[b]
      BY <2>1, <2>5, <2>7, GainsAdded
    <2> QED BY <2>2, <2>3, <2>4, <2>6, <2>7, <2>8 DEF rest
  <1> HIDE DEF gain, bids, slashed
  <1>8. \A b \in Sub!Accounts :
          /\ net[j][b] = -(IF b = r THEN price ELSE 0) - (IF b = a THEN c ELSE 0)
    <2> SUFFICES ASSUME NEW b \in Sub!Accounts
                 PROVE  net[j][b] = -(IF b = r THEN price ELSE 0) - (IF b = a THEN c ELSE 0)
      OBVIOUS
    <2>1. net[j][b] = -PaidIn(old, b) - Locked(subBids[j], b)
      BY <1>1 DEF WellKept, PaidInIsHeld
    <2>2. PaidIn(old, b) = IF b = r THEN price ELSE 0
      BY <1>2 DEF PaidIn
    <2>3. Locked(subBids[j], b) = IF b = a THEN c ELSE 0
      BY <1>2 DEF Locked
    <2> QED BY <2>1, <2>2, <2>3
  <1> HIDE DEF s, a, r, price, c, old
  <1>9. ASSUME Recorded(j, bids, gain) PROVE Tender!Next
    <2> DEFINE got == (IF payee = a THEN price ELSE 0) + (c - slashed)
    <2>1. got \in Int /\ got >= 0
      BY <1>2, <1>6
    <2>2. \A b \in Parties : b \in Sub!Accounts /\ b # SubTreasury /\ net[j][b] \in Int
      BY <1>1 DEF Gains
    <2>3. gain[a] = net[j][a] + got
      BY <1>2, <1>6, <1>7, <2>2
    <2>4. payee \in {a, r}
      BY DEF a, r, old, Ended
    <2>5. \A b \in Parties \ {a, r} : gain[b] = net[j][b]
      BY <1>2, <1>7, <2>2, <2>4
    <2>6. r = subJobs[j].requester
      BY DEF r, old
    <2> HIDE DEF got
    <2> QED BY <1>1, <1>2, <1>5, <1>7, <1>9, <2>1, <2>3, <2>5, <2>6, TenderSettle
  <1>10. CASE status = "ACCEPTED"
    <2>1. payee = a /\ slashed = 0
      BY <1>6, <1>10 DEF a, old
    <2>2. \A b \in Sub!Accounts : gain[b] = IF b = a THEN price ELSE -(IF b = r THEN price ELSE 0)
      <3> SUFFICES ASSUME NEW b \in Sub!Accounts
                   PROVE  gain[b] = IF b = a THEN price ELSE -(IF b = r THEN price ELSE 0)
        OBVIOUS
      <3> QED BY <1>2, <1>7, <1>8, <2>1
    <2>3. WellKept(s, bids, gain)
      BY <1>2, <1>4, <1>5, <1>10, <2>2
      DEF WellKept, PaidInIsHeld, OpenIsUndecided, OneContractor, Settlement, PaidIn, Unfinished
    <2>4. SubIInv' /\ Recorded(j, bids, gain)
      BY <1>3, <1>4, <1>5, <1>7, <2>3, OneSubJob DEF r, old
    <2> QED BY <1>9, <2>4
  <1>11. CASE status # "ACCEPTED"
    <2>1. payee = r /\ status \in {"EXPIRED", "CANCELLED"}
      BY <1>11 DEF r, old, Ended
    <2>2. \A b \in Sub!Accounts \ {a, SubTreasury} : gain[b] = 0
      <3> SUFFICES ASSUME NEW b \in Sub!Accounts \ {a, SubTreasury} PROVE gain[b] = 0
        OBVIOUS
      <3> QED BY <1>2, <1>7, <1>8, <2>1
    <2>3. gain[SubTreasury] = -gain[a]
      <3>1. gain[SubTreasury] = slashed
        BY <1>1, <1>2, <1>6, <1>7, <1>8, <2>1
      <3>2. gain[a] = -slashed
        BY <1>1, <1>2, <1>6, <1>7, <1>8, <2>1
      <3> QED BY <1>6, <3>1, <3>2
    <2>4. WellKept(s, bids, gain)
      BY <1>2, <1>4, <1>5, <2>1, <2>2, <2>3
      DEF WellKept, PaidInIsHeld, OpenIsUndecided, OneContractor, Settlement, Unfinished
    <2>5. SubIInv' /\ Recorded(j, bids, gain)
      BY <1>3, <1>4, <1>5, <1>7, <2>4, OneSubJob DEF r, old
    <2> QED BY <1>9, <2>5
  <1> QED BY <1>10, <1>11

\* cancelSubAuction: everybody has back what it paid in.
LEMMA CancelSubStep ==
    ASSUME Sub!ConstantsOK, SubIInv, NEW j \in Sub!SubJobs, Sub!CancelSubAuction(j)
    PROVE  SubIInv' /\ Tender!Next
  <1> DEFINE old == subJobs[j]
             r == old.requester
             S == Sub!Pending(j)
             s == [old EXCEPT !.status = "CANCELLED"]
             bids == Sub!Refunded(j, S)
             gain == Sub!Plus(net[j], Sub!Plus(Sub!Refunds(j, S), Sub!To(r, old.payment)))
  <1>1. /\ SubTypes /\ old \in SubJob /\ subBids[j] \in SubBids /\ net[j] \in Gains
        /\ WellKept(old, subBids[j], net[j]) /\ SubTreasury \notin Parties /\ Nobody \notin Parties
        /\ S \subseteq Parties /\ SubTreasury \in Sub!Accounts /\ old.payment \in Int
    BY SubJobTypes DEF SubIInv, Sub!ConstantsOK, Sub!Accounts, Sub!Pending, SubJob
  <1>2. /\ net' = [net EXCEPT ![j] = gain] /\ subBids' = [subBids EXCEPT ![j] = bids]
        /\ subJobs' = [subJobs EXCEPT ![j] = s] /\ old.status = "OPEN"
    BY DEF Sub!CancelSubAuction, Sub!Transfer, Sub!Becomes, Sub!Calling
  <1>3. /\ r \in Parties /\ old.selected = Nobody /\ r \notin S
        /\ \A b \in Parties \ S : subBids[j][b].collateral = 0
    BY <1>1, <1>2, OpenSubJob DEF Sub!Pending
  <1>4. s \in SubJob /\ s.status = "CANCELLED" /\ s.selected = Nobody
        /\ s.selected # s.requester /\ s.requester = r
    BY <1>1, <1>3 DEF SubJob, Ended
  <1>5. /\ bids \in SubBids
        /\ \A b \in Parties : bids[b].collateral = IF b \in S THEN 0 ELSE subBids[j][b].collateral
        /\ \A b \in Parties : bids[b].status = IF b \in S THEN "REFUNDED" ELSE subBids[j][b].status
        /\ Sub!Refunds(j, S) \in Gains
        /\ \A b \in Sub!Accounts :
             Sub!Refunds(j, S)[b] = IF b \in S THEN subBids[j][b].collateral ELSE 0
    BY <1>1, RefundsPaid
  <1>6. \A b \in Parties : bids[b].collateral = 0
    BY <1>3, <1>5
  <1>7. gain \in Gains /\ \A b \in Sub!Accounts :
          gain[b] = net[j][b] + ((IF b \in S THEN subBids[j][b].collateral ELSE 0)
                                  + (IF b = r THEN old.payment ELSE 0))
    <2> DEFINE back == Sub!To(r, old.payment)
               change == Sub!Plus(Sub!Refunds(j, S), back)
    <2>1. /\ back \in Gains
          /\ \A b \in Sub!Accounts : back[b] = IF b = r THEN old.payment ELSE 0
      BY <1>1, GainOfOne
    <2> HIDE DEF back
    <2>2. /\ change \in Gains
          /\ \A b \in Sub!Accounts : change[b] = Sub!Refunds(j, S)[b] + back[b]
      BY <1>5, <2>1, GainsAdded
    <2>3. gain = Sub!Plus(net[j], change)
      BY DEF back
    <2> HIDE DEF change, gain
    <2>4. gain \in Gains /\ \A b \in Sub!Accounts : gain[b] = net[j][b] + change[b]
      BY <1>1, <2>2, <2>3, GainsAdded
    <2> QED BY <1>5, <2>1, <2>2, <2>4
  <1> HIDE DEF gain, bids
  <1>8. \A b \in Sub!Accounts : gain[b] = 0
    <2> SUFFICES ASSUME NEW b \in Sub!Accounts PROVE gain[b] = 0
      OBVIOUS
    <2>1. net[j][b] = -PaidIn(old, b) - Locked(subBids[j], b)
      BY <1>1, <1>2 DEF WellKept, PaidInIsHeld, Unfinished
    <2>2. PaidIn(old, b) = IF b = r THEN old.payment ELSE 0
      BY DEF PaidIn
    <2>3. Locked(subBids[j], b) = IF b \in S THEN subBids[j][b].collateral ELSE 0
      BY <1>1, <1>3 DEF Locked
    <2>4. b \in Parties => subBids[j][b].collateral \in Nat
      BY <1>1 DEF SubBids, SubBid
    <2> HIDE DEF S, r, old
    <2> QED BY <1>1, <1>7, <2>1, <2>2, <2>3, <2>4
  <1>9. WellKept(s, bids, gain)
    BY <1>1, <1>4, <1>6, <1>8
    DEF WellKept, PaidInIsHeld, OpenIsUndecided, OneContractor, Settlement, Unfinished
  <1>10. \A b \in Parties \ {r} :
           gain[b] = net[j][b] + (IF b \in S THEN subBids[j][b].collateral ELSE 0)
    <2> SUFFICES ASSUME NEW b \in Parties, b # r
                 PROVE  gain[b] = net[j][b] + (IF b \in S THEN subBids[j][b].collateral ELSE 0)
      OBVIOUS
    <2>1. b \in Sub!Accounts /\ net[j][b] \in Int /\ subBids[j][b].collateral \in Int
      BY <1>1 DEF Gains, Sub!Accounts, SubBids, SubBid
    <2> HIDE DEF S, r
    <2> QED BY <1>7, <2>1
  <1> HIDE DEF s
  <1>11. SubIInv' /\ Recorded(j, bids, gain)
    BY <1>2, <1>4, <1>5, <1>7, <1>9, OneSubJob
  <1>12. S \in SUBSET Sub!Pending(j)
    OBVIOUS
  <1> QED BY <1>1, <1>3, <1>5, <1>7, <1>10, <1>11, <1>12, TenderResolve

LEMMA SubStep ==
    ASSUME Sub!ConstantsOK, SubIInv, [Sub!Next]_Sub!subVars
    PROVE  SubIInv' /\ [Tender!Next]_(Tender!vars)
  <1> DEFINE Done == SubIInv' /\ (Tender!Next \/ UNCHANGED Tender!vars)
  <1>1. ASSUME UNCHANGED <<subJobs, subBids, net>> PROVE Done
    <2>1. SubIInv'
      BY <1>1 DEF SubIInv, SubTypes, Sub!SubJobs, WellKept, PaidInIsHeld, OpenIsUndecided,
                  OneContractor, Settlement, Sub!Accounts
    <2>2. \A k, b : b \in Parties => /\ Sub!BidFor(k, b)' = Sub!BidFor(k, b)
                                     /\ Sub!GainAsBidder(k, b)' = Sub!GainAsBidder(k, b)
      BY <1>1 DEF Sub!BidFor, Sub!GainAsBidder, Sub!SubJobs, Sub!NoBid
    <2> QED BY <2>1, <2>2, TenderUnseen
  <1>2. ASSUME NEW j \in Sub!SubJobs, Sub!AcceptResult(j) \/ Sub!ClaimExpired(j)
                                        \/ \E verdict \in BOOLEAN : Sub!ResolveDispute(j, verdict)
        PROVE  Done
    <2>1. /\ subJobs[j].status \in Unfinished \ {"OPEN"}
          /\ subJobs[j].requester \in Parties /\ subJobs[j].selected \in Parties
      <3>1. subJobs[j].status \in Unfinished \ {"OPEN"}
        BY <1>2 DEF Sub!AcceptResult, Sub!ClaimExpired, Sub!ResolveDispute, Sub!Calling, Unfinished
      <3>2. subJobs[j] \in SubJob /\ WellKept(subJobs[j], subBids[j], net[j])
        BY SubJobTypes DEF SubIInv
      <3> QED BY <3>1, <3>2 DEF SubJob, WellKept, OneContractor
    <2>2. 0 \in {0, 25, 50} /\ 25 \in {0, 25, 50} /\ 50 \in {0, 25, 50}
      OBVIOUS
    <2>3. CASE Sub!Settle(j, "ACCEPTED", subJobs[j].selected, 0)
      BY <2>1, <2>2, <2>3, SettleStep DEF Ended
    <2>4. CASE Sub!Settle(j, "CANCELLED", subJobs[j].requester, 50)
      BY <2>1, <2>2, <2>4, SettleStep DEF Ended
    <2>5. CASE Sub!Settle(j, "EXPIRED", subJobs[j].requester, 25)
      BY <2>1, <2>2, <2>5, SettleStep DEF Ended
    <2> QED BY <1>2, <2>3, <2>4, <2>5 DEF Sub!AcceptResult, Sub!ClaimExpired, Sub!ResolveDispute
  <1>3. ASSUME NEW j \in Sub!SubJobs, NEW deadline, Sub!Passes(j, deadline) PROVE Done
    BY <1>1, <1>3 DEF Sub!Passes
  <1>4. ASSUME Sub!Pause \/ Sub!SetAgentRegistry \/ UNCHANGED Sub!subVars PROVE Done
    BY <1>1, <1>4 DEF Sub!Pause, Sub!SetAgentRegistry, Sub!subVars
  <1> QED BY <1>2, <1>3, <1>4, CreateSubStep, SubmitStep, SelectStep, ProgressStep, CancelSubStep
          DEF Sub!Next

\* A sum of which all but one member, or all but two, are zero.
LEMMA SumOfOne ==
    ASSUME NEW D, IsFiniteSet(D), NEW x \in D, NEW f, f[x] \in Int,
           \A y \in D \ {x} : f[y] = 0
    PROVE  SumFunctionOnSet(f, D) = f[x]
  <1> DEFINE zero == [y \in D |-> 0]
  <1>1. \A y \in D : zero[y] = 0
    OBVIOUS
  <1>2. SumFunctionOnSet(zero, D) = 0
    BY <1>1, SumZero
  <1>3. \A y \in D : zero[y] \in Int /\ f[y] \in Int
    BY <1>1
  <1> HIDE DEF zero
  <1>4. SumFunctionOnSet(f, D) = SumFunctionOnSet(zero, D) + f[x] - zero[x]
    BY <1>1, <1>3, SumOneChanged
  <1> QED BY <1>1, <1>2, <1>4

LEMMA SumOfTwo ==
    ASSUME NEW D, IsFiniteSet(D), NEW x \in D, NEW z \in D, x # z, NEW f,
           f[x] \in Int, f[z] \in Int, \A y \in D \ {x, z} : f[y] = 0
    PROVE  SumFunctionOnSet(f, D) = f[x] + f[z]
  <1> DEFINE one == [y \in D |-> IF y = x THEN f[x] ELSE 0]
  <1>1. one[x] = f[x] /\ one[z] = 0 /\ \A y \in D \ {x} : one[y] = 0
    OBVIOUS
  <1>2. \A y \in D : one[y] \in Int /\ f[y] \in Int
    OBVIOUS
  <1>3. \A y \in D \ {z} : one[y] = f[y]
    OBVIOUS
  <1> HIDE DEF one
  <1>4. SumFunctionOnSet(one, D) = f[x]
    BY <1>1, SumOfOne
  <1>5. SumFunctionOnSet(f, D) = SumFunctionOnSet(one, D) + f[z] - one[z]
    BY <1>2, <1>3, SumOneChanged
  <1> QED BY <1>1, <1>4, <1>5

\* What all accounts together have gained or lost by a sub-job is the payment
\* that is still due and what the bids lock.
LEMMA GainsSum ==
    ASSUME Sub!ConstantsOK, NEW s \in SubJob, NEW bids \in SubBids, NEW gain \in Gains,
           WellKept(s, bids, gain)
    PROVE  -SumFunctionOnSet(gain, Sub!Accounts) =
             (IF s.status \in Ended THEN 0 ELSE s.payment)
               + SumFunctionOnSet([b \in Parties |-> bids[b].collateral], Parties)
  <1> DEFINE A == Sub!Accounts
             lock == [b \in A |-> Locked(bids, b)]
             coll == [b \in Parties |-> bids[b].collateral]
             both == [b \in A |-> gain[b] + lock[b]]
             r == s.requester
  <1>1. /\ IsFiniteSet(Parties) /\ SubTreasury \notin Parties /\ Nobody \notin Parties
        /\ Parties \subseteq A /\ SubTreasury \in A /\ A = Parties \cup {SubTreasury}
    BY SubFinite DEF Sub!ConstantsOK, Sub!Accounts
  <1>2. IsFiniteSet(A)
    BY <1>1, FS_AddElement
  <1>3. /\ s.status \in Unfinished \cup Ended /\ r \in Parties /\ r \in A
        /\ s.payment \in Nat
    BY <1>1 DEF SubJob
  <1>4. /\ \A b \in Parties : bids[b].collateral \in Nat
        /\ \A b \in A : Locked(bids, b) \in Int /\ gain[b] \in Int
    BY DEF SubBids, SubBid, Gains, Locked
  <1>5. SumFunctionOnSet(lock, A) = SumFunctionOnSet(coll, Parties)
    <2>1. \A b \in A : lock[b] \in Int
      BY <1>4
    <2>2. SumFunctionOnSet(lock, Parties)
            = SumFunctionOnSet([b \in A |-> IF b \in Parties THEN lock[b] ELSE 0], A)
      BY <1>1, <1>2, <2>1, SumOfPart
    <2>3. \A b \in A : [x \in A |-> IF x \in Parties THEN lock[x] ELSE 0][b] = lock[b]
      BY DEF Locked
    <2>4. SumFunctionOnSet([b \in A |-> IF b \in Parties THEN lock[b] ELSE 0], A)
            = SumFunctionOnSet(lock, A)
      BY <1>2, <2>3, SumSame
    <2>5. \A b \in Parties : lock[b] = coll[b]
      BY <1>1 DEF Locked
    <2>6. SumFunctionOnSet(lock, Parties) = SumFunctionOnSet(coll, Parties)
      BY <1>1, <2>5, SumSame
    <2> QED BY <2>2, <2>4, <2>6
  <1>6. SumFunctionOnSet(both, A) = SumFunctionOnSet(gain, A) + SumFunctionOnSet(lock, A)
    <2>1. \A b \in A : gain[b] \in Int /\ lock[b] \in Int /\ both[b] = gain[b] + lock[b]
      BY <1>4
    <2> QED BY <1>2, <2>1, SumAdds
  <1>7. SumFunctionOnSet(gain, A) \in Int /\ SumFunctionOnSet(lock, A) \in Int
    <2>1. \A b \in A : gain[b] \in Int /\ lock[b] \in Int
      BY <1>4
    <2> QED BY <1>2, <2>1, SumInteger
  <1>8. \A b \in A : both[b] = gain[b] + Locked(bids, b)
    OBVIOUS
  <1> HIDE DEF both, lock, coll, A, r
  <1>9. SumFunctionOnSet(both, A) = IF s.status \in Ended THEN 0 ELSE -s.payment
    <2>1. CASE s.status \in Unfinished
      <3>1. \A b \in A : gain[b] = -PaidIn(s, b) - Locked(bids, b)
        BY <2>1 DEF WellKept, PaidInIsHeld, A
      <3>2. \A b \in A : PaidIn(s, b) = IF b = r THEN s.payment ELSE 0
        BY DEF PaidIn, r
      <3>3. \A b \in A : both[b] = IF b = r THEN -s.payment ELSE 0
        BY <1>3, <1>4, <1>8, <3>1, <3>2
      <3>4. SumFunctionOnSet(both, A) = both[r]
        BY <1>2, <1>3, <3>3, SumOfOne
      <3> QED BY <1>3, <2>1, <3>3, <3>4 DEF Unfinished, Ended
    <2>2. ASSUME s.status \in Ended PROVE \A b \in A : both[b] = gain[b]
      <3>1. \A b \in A : Locked(bids, b) = 0
        BY <2>2 DEF WellKept, Settlement, Locked
      <3> QED BY <1>4, <1>8, <3>1
    <2>3. CASE s.status = "ACCEPTED"
      <3> DEFINE a == s.selected
      <3>1. a \in A /\ a # r
        BY <1>1, <2>3 DEF WellKept, Settlement, Ended, r
      <3>2. \A b \in A : both[b] = IF b = a THEN s.payment ELSE IF b = r THEN -s.payment ELSE 0
        <4>1. \A b \in A : gain[b] = IF b = a THEN s.payment ELSE -PaidIn(s, b)
          BY <2>3 DEF WellKept, Settlement, A
        <4>2. \A b \in A : PaidIn(s, b) = IF b = r THEN s.payment ELSE 0
          BY DEF PaidIn, r
        <4> QED BY <1>3, <2>2, <2>3, <4>1, <4>2 DEF Ended
      <3> HIDE DEF a
      <3>3. SumFunctionOnSet(both, A) = both[a] + both[r]
        BY <1>2, <1>3, <3>1, <3>2, SumOfTwo
      <3> QED BY <1>3, <2>3, <3>1, <3>2, <3>3 DEF Ended
    <2>4. CASE s.status \in {"EXPIRED", "CANCELLED"}
      <3> DEFINE a == s.selected
      <3>1. /\ \A b \in A \ {a, SubTreasury} : both[b] = 0
            /\ both[SubTreasury] = IF a \in Parties THEN -gain[a] ELSE 0
            /\ a \in A => both[a] = gain[a]
        BY <1>1, <2>2, <2>4 DEF WellKept, Settlement, A, Ended
      <3>2. CASE a \in Parties
        <4>1. a \in A /\ a # SubTreasury /\ both[a] \in Int /\ both[SubTreasury] = -both[a]
              /\ both[SubTreasury] \in Int
          BY <1>1, <1>4, <3>1, <3>2 DEF A
        <4> HIDE DEF a
        <4>2. SumFunctionOnSet(both, A) = both[a] + both[SubTreasury]
          <5>1. SubTreasury \in A /\ \A y \in A \ {a, SubTreasury} : both[y] = 0
            BY <1>1, <3>1
          <5> QED BY <1>2, <4>1, <5>1, SumOfTwo
        <4> QED BY <2>4, <4>1, <4>2 DEF Ended
      <3>3. CASE a \notin Parties
        <4>1. A = Parties \cup {SubTreasury}
          BY <1>1
        <4>2. \A b \in A : both[b] = 0
          BY <3>1, <3>3, <4>1
        <4>3. SumFunctionOnSet(both, A) = 0
          BY <1>2, <4>2, SumZero
        <4> QED BY <2>4, <4>3 DEF Ended
      <3> QED BY <3>2, <3>3
    <2> QED BY <1>3, <2>1, <2>3, <2>4 DEF Ended
  <1>10. -SumFunctionOnSet(gain, A) = (IF s.status \in Ended THEN 0 ELSE s.payment)
                                        + SumFunctionOnSet(coll, Parties)
    BY <1>3, <1>5, <1>6, <1>7, <1>9
  <1> QED BY <1>10 DEF A, coll

LEMMA WellKeptBalances ==
    ASSUME Sub!ConstantsOK, SubIInv
    PROVE  Sub!SubJobsBalance
  <1> SUFFICES ASSUME NEW j \in Sub!SubJobs PROVE Sub!HoldsWhatItOwes(j) /\ Sub!EndsFairly(j)
    BY DEF Sub!SubJobsBalance
  <1> DEFINE s == subJobs[j]
             bids == subBids[j]
             gain == net[j]
             coll == [a \in Parties |-> bids[a].collateral]
  <1>1. /\ s \in SubJob /\ bids \in SubBids /\ gain \in Gains /\ WellKept(s, bids, gain)
        /\ SubTreasury \notin Parties /\ Nobody \notin Parties
    BY SubJobTypes DEF SubIInv, Sub!ConstantsOK
  <1>2. Sub!HoldsWhatItOwes(j)
    <2>1. Sub!Held(j) = -SumFunctionOnSet(gain, Sub!Accounts)
      <3>1. DOMAIN gain = Sub!Accounts
        BY <1>1 DEF Gains
      <3>2. Sub!SumFunction(gain) = SumFunctionOnSet(gain, Sub!Accounts)
        BY <3>1, SubSums DEF SumFunction
      <3> QED BY <3>2 DEF Sub!Held
    <2>2. Sub!SumFunction(coll) = SumFunctionOnSet(coll, Parties)
      <3>1. DOMAIN coll = Parties
        OBVIOUS
      <3> QED BY <3>1, SubSums DEF SumFunction
    <2>3. -SumFunctionOnSet(gain, Sub!Accounts) =
             (IF s.status \in Ended THEN 0 ELSE s.payment) + SumFunctionOnSet(coll, Parties)
      BY <1>1, GainsSum
    <2> HIDE DEF gain
    <2> QED BY <2>1, <2>2, <2>3 DEF Sub!HoldsWhatItOwes, Ended
  <1>3. Sub!EndsFairly(j)
    <2> DEFINE a == s.selected
               r == s.requester
    <2>1. r \in Parties /\ r \in Sub!Accounts /\ Parties \subseteq Sub!Accounts /\ s.payment \in Nat
          /\ s.status \in Unfinished \cup Ended /\ a \in Parties \cup {Nobody}
      BY <1>1 DEF SubJob, Sub!Accounts
    <2>2. ASSUME s.status = "ACCEPTED" PROVE gain[r] = -gain[a]
      <3>1. a \in Parties \ {r} /\ \A b \in Sub!Accounts :
               gain[b] = IF b = a THEN s.payment ELSE -PaidIn(s, b)
        BY <1>1, <2>2 DEF WellKept, Settlement, Ended
      <3> QED BY <2>1, <3>1 DEF PaidIn
    <2>3. ASSUME s.status \in {"EXPIRED", "CANCELLED"}
          PROVE  gain[r] = 0 /\ \A b \in Parties \ {a} : gain[b] = 0
      BY <1>1, <2>1, <2>3 DEF WellKept, Settlement, Ended
    <2>4. ASSUME s.status # "OPEN" PROVE \A b \in Parties \ {a, r} : gain[b] = 0
      <3>1. CASE s.status \in Unfinished
        <4>1. \A b \in Parties \ {a, r} : /\ gain[b] = -PaidIn(s, b) - Locked(bids, b)
                                          /\ bids[b].collateral = 0
          BY <1>1, <2>1, <2>4, <3>1 DEF WellKept, PaidInIsHeld, OneContractor
        <4> QED BY <4>1 DEF PaidIn, Locked
      <3>2. CASE s.status = "ACCEPTED"
        BY <1>1, <2>1, <3>2 DEF WellKept, Settlement, PaidIn
      <3>3. CASE s.status \in {"EXPIRED", "CANCELLED"}
        BY <2>1, <1>1, <3>3 DEF WellKept, Settlement
      <3> QED BY <2>1, <3>1, <3>2, <3>3 DEF Ended
    <2> QED BY <2>1, <2>2, <2>3, <2>4 DEF Sub!EndsFairly
  <1> QED BY <1>2, <1>3

\* In whatever order sub-jobs are created, bid for, decided, delivered, disputed
\* and brought to one of their five ends, the contract holds exactly what it
\* owes of each, and each ends with the contractor paid what the requester has
\* lost, or with the requester having lost nothing.
THEOREM SubJobsSettled == Sub!Spec => []SubJobsBalance
  <1>1. Sub!Init => SubIInv
    BY SubInit, ServiceAssumption
  <1>2. SubIInv /\ [Sub!Next]_Sub!subVars => SubIInv'
    BY SubStep, ServiceAssumption
  <1>3. SubIInv => SubJobsBalance
    BY WellKeptBalances, ServiceAssumption DEF SubJobsBalance
  <1> QED BY <1>1, <1>2, <1>3, PTL DEF Sub!Spec

LEMMA TenderInit == Sub!ConstantsOK /\ Sub!Init => Tender!Init
  <1> SUFFICES ASSUME Sub!ConstantsOK, Sub!Init PROVE Tender!Init
    OBVIOUS
  <1>1. Sub!SubJobs = {}
    BY DEF Sub!Init, Sub!SubJobs
  <1>2. Sub!Phases = [j \in Sub!Tenders |-> [a \in Parties |-> "absent"]]
    BY <1>1 DEF Sub!Phases, Sub!BidFor, Sub!NoBid, Sub!DepositPhase
  <1>3. Sub!Deposits = [j \in Sub!Tenders |-> [a \in Parties |-> 0]]
    BY <1>1 DEF Sub!Deposits, Sub!BidFor, Sub!NoBid
  <1>4. ASSUME NEW b \in Parties PROVE Sub!Purses[b] = 0
    <2> DEFINE f == [k \in Sub!Tenders |-> Sub!GainAsBidder(k, b)]
    <2>1. IsFiniteSet(Sub!Tenders) /\ Sub!Purses[b] = SumFunctionOnSet(f, Sub!Tenders)
      BY TendersSum
    <2>2. \A k \in Sub!Tenders : f[k] = 0
      BY <1>1 DEF Sub!GainAsBidder
    <2> HIDE DEF f
    <2> QED BY ONLY <2>1, <2>2, SumZero
  <1>5. Sub!Purses \in [Parties -> Nat]
    <2>1. Sub!Purses = [b \in Parties |-> Sub!Purses[b]]
      BY DEF Sub!Purses
    <2> QED BY <1>4, <2>1
  <1> QED BY <1>2, <1>3, <1>5 DEF Tender!Init

\* Of the collateral of its bidders SubAuction keeps the promise that AuditAuction
\* keeps of its own: it moves only by a bid, by its return in full to all who
\* were not chosen as soon as someone is or the sub-job is cancelled, and by one
\* settlement with the contractor, who never gets less than nothing of it back.
THEOREM TenderKeepsCollateralHolds == Sub!Spec => TenderKeepsCollateral
  <1>1. Sub!Init => SubIInv /\ Tender!Init
    BY SubInit, TenderInit, ServiceAssumption
  <1>2. SubIInv /\ [Sub!Next]_Sub!subVars => SubIInv' /\ [Tender!Next]_(Tender!vars)
    BY SubStep, ServiceAssumption
  <1> QED BY <1>1, <1>2, PTL DEF Sub!Spec, TenderKeepsCollateral, Tender!Spec

-----------------------------------------------------------------------------
(***************************************************************************)
(* The invitations.                                                        *)
(***************************************************************************)

Everybody == 1 .. Registered
Rosters == [Everybody -> {"none", "fresh", "stale"}]
Caches == [Everybody -> [active : BOOLEAN, age : {"fresh", "old", "expired"}]]
Standing == {"inactive", "unfit", "fit"}
RunShape == [pc : {"idle", "asking", "awaiting", "listing", "listed", "checking", "profile",
                   "publishing", "done", "nobody", "invited", "unheard"},
             todo : SUBSET Everybody, kept : SUBSET Everybody, pass : {0, 1, 2},
             at : {{}} \cup {{a} : a \in Everybody}, seen : SUBSET Standing, old : BOOLEAN]

\* The cache does not pass over an active agent.
Knows(answer) == answer.age = "fresh" => answer.active

\* What a runner r owes to an agent that was active and fit all the time, while
\* nothing failed: in the second pass it keeps the agent or has yet to ask, in a
\* rebuilding it has yet to come to it or has renewed its entry, and what it
\* publishes names somebody.
Served(r, entry, answer, a) ==
    /\ r.pc # "nobody"
    /\ r.pc \in {"asking", "awaiting"} =>
         \/ r.pass = 1
         \/ /\ r.pass = 2 /\ Knows(answer)
            /\ a \in r.kept \cup r.todo \/ (r.pc = "awaiting" /\ a \in r.at)
    /\ r.pc \in {"listed", "checking", "profile"} /\ a \notin r.todo =>
         \/ r.pc = "checking" /\ a \in r.at
         \/ ((r.pc = "profile" /\ a \in r.at) \/ entry = "fresh") /\ Knows(answer)
    /\ r.pc = "publishing" => r.kept # {}

\* An agent that is active and fit, and whatever is on its way says so.
Certain(standing, a) ==
    standing[a] = "fit" /\ \A r \in Discoveries \cup {0} : a \in run[r].at => run[r].seen = {"fit"}

InviteShape ==
    /\ registry \in [Everybody -> Standing]
    /\ roster \in Rosters /\ cache \in Caches
    /\ run \in [Discoveries \cup {0} -> RunShape]
    /\ steady \in [Discoveries \cup {0} -> SUBSET Everybody]

InviteInv ==
    /\ InviteShape
    /\ \A d \in Discoveries : \A a \in steady[d] :
         Certain(registry, a) /\ Served(run[d], roster[a], cache[a], a)

LEMMA Numbered == 0 \notin Discoveries /\ Bidding!Runners = Discoveries \cup {0}
BY InvitationAssumption DEF Bidding!Runners

LEMMA Shapes ==
  ASSUME InviteInv
  PROVE  /\ registry \in [Everybody -> Standing] /\ roster \in Rosters /\ cache \in Caches
         /\ run \in [Discoveries \cup {0} -> RunShape]
         /\ steady \in [Discoveries \cup {0} -> SUBSET Everybody]
BY DEF InviteInv, InviteShape

-----------------------------------------------------------------------------
\* Failures end what is promised; otherwise a step of one runner leaves the
\* others served, when it forgets the answer and the entry of no agent whose
\* standing is certain.

LEMMA TroubledRunner ==
  ASSUME InviteInv, registry' = registry, roster' \in Rosters, cache' \in Caches,
         run' \in [Discoveries \cup {0} -> RunShape], Bidding!Trouble
  PROVE  InviteInv'
<1>1. steady' = [d \in Discoveries \cup {0} |-> {}] BY Numbered DEF Bidding!Trouble
<1>2. InviteShape' BY <1>1 DEF InviteInv, InviteShape
<1> QED BY <1>1, <1>2 DEF InviteInv

LEMMA QuietRunner ==
  ASSUME InviteInv, registry' = registry, roster' \in Rosters, cache' \in Caches,
         NEW r \in Discoveries \cup {0}, NEW next \in RunShape, run' = [run EXCEPT ![r] = next],
         steady' \in [Discoveries \cup {0} -> SUBSET Everybody],
         \A d \in Discoveries : steady'[d] \subseteq steady[d],
         \A a \in Everybody : Certain(registry, a) =>
            /\ Knows(cache[a]) => Knows(cache'[a])
            /\ roster[a] = "fresh" => roster'[a] = "fresh"
            /\ a \in next.at => next.seen = {"fit"},
         r \in Discoveries => \A a \in steady'[r] : Served(next, roster'[a], cache'[a], a)
  PROVE  InviteInv'
<1>1. InviteShape' BY Shapes DEF InviteShape
<1>2. ASSUME NEW d \in Discoveries, NEW a \in steady'[d]
      PROVE  Certain(registry, a)' /\ Served(run'[d], roster'[a], cache'[a], a)
  <2>1. /\ a \in steady[d] /\ a \in Everybody /\ Certain(registry, a)
        /\ Served(run[d], roster[a], cache[a], a)
    BY <1>2, Shapes DEF InviteInv
  <2>2. \A e \in Discoveries \cup {0} : run'[e] = IF e = r THEN next ELSE run[e] BY Shapes
  <2>3. Certain(registry, a)' BY <2>1, <2>2 DEF Certain
  <2>4. CASE d = r BY <1>2, <2>2, <2>3, <2>4
  <2>5. CASE d # r
    <3>1. run'[d] = run[d] BY <2>2, <2>5
    <3>2. /\ Knows(cache[a]) => Knows(cache'[a])
          /\ roster[a] = "fresh" => roster'[a] = "fresh"
      BY <2>1
    <3>3. Served(run[d], roster'[a], cache'[a], a) BY <2>1, <3>2 DEF Served
    <3> QED BY <2>3, <3>1, <3>3
  <2> QED BY <2>4, <2>5
<1> QED BY <1>1, <1>2 DEF InviteInv

-----------------------------------------------------------------------------
\* What the operators of the handlers make of a runner.

LEMMA RunIs ==
  ASSUME NEW pc \in {"idle", "asking", "awaiting", "listing", "listed", "checking", "profile",
                     "publishing", "done", "nobody", "invited", "unheard"}
  PROVE  /\ Bidding!Run(pc) \in RunShape /\ Bidding!Run(pc).pc = pc
         /\ Bidding!Run(pc).todo = {} /\ Bidding!Run(pc).at = {}
BY DEF Bidding!Run, RunShape

LEMMA AskingShape ==
  ASSUME NEW todo \in SUBSET Everybody, NEW kept \in SUBSET Everybody, NEW pass \in {0, 1, 2},
         NEW next, next = Bidding!Asking(todo, kept, pass)
  PROVE  next \in RunShape /\ next.at = {}
<1>1. next = [pc |-> IF todo # {} THEN "asking"
                     ELSE IF kept = {} /\ pass = 1 THEN "listing" ELSE "publishing",
              todo |-> todo, kept |-> kept, pass |-> pass, at |-> {}, seen |-> {}, old |-> FALSE]
  BY DEF Bidding!Asking, Bidding!Run
<1> QED BY <1>1 DEF RunShape

LEMMA AskingServes ==
  ASSUME NEW todo \in SUBSET Everybody, NEW kept \in SUBSET Everybody, NEW pass \in {1, 2},
         NEW next, next = Bidding!Asking(todo, kept, pass)
  PROVE  /\ next \in RunShape /\ next.at = {}
         /\ \A a, entry, answer : pass = 1 \/ (a \in todo \cup kept /\ Knows(answer)) =>
               Served(next, entry, answer, a)
<1>1. next = [pc |-> IF todo # {} THEN "asking"
                     ELSE IF kept = {} /\ pass = 1 THEN "listing" ELSE "publishing",
              todo |-> todo, kept |-> kept, pass |-> pass, at |-> {}, seen |-> {}, old |-> FALSE]
  BY DEF Bidding!Asking, Bidding!Run
<1>2. next \in RunShape /\ next.at = {} BY AskingShape
<1>3. /\ next.pc = IF todo # {} THEN "asking" ELSE IF kept = {} /\ pass = 1 THEN "listing" ELSE "publishing"
      /\ next.todo = todo /\ next.kept = kept /\ next.pass = pass
  BY <1>1
<1> QED BY <1>2, <1>3 DEF Served

LEMMA Evaluates ==
  ASSUME NEW d, NEW pass \in {1, 2}, NEW entries \in Rosters, Bidding!Evaluate(d, pass, entries)
  PROVE  \E next \in RunShape :
            /\ run' = [run EXCEPT ![d] = next] /\ next.at = {}
            /\ roster' \in Rosters /\ \A a \in Everybody : entries[a] = "fresh" => roster'[a] = "fresh"
            /\ \A a \in Everybody : \A entry, answer :
                 pass = 1 \/ (entries[a] = "fresh" /\ Knows(answer)) => Served(next, entry, answer, a)
<1>1. PICK todo : todo = {a \in Everybody : entries[a] = "fresh"} OBVIOUS
<1>2. PICK next : next = Bidding!Asking(todo, {}, pass) OBVIOUS
<1>3. todo \in SUBSET Everybody BY <1>1
<1>4. run' = [run EXCEPT ![d] = next] BY <1>1, <1>2 DEF Bidding!Evaluate, Bidding!Moves, Everybody
<1>5. roster' = [a \in Everybody |-> IF entries[a] = "stale" THEN "none" ELSE entries[a]]
  BY DEF Bidding!Evaluate, Everybody
<1>6. roster' \in Rosters /\ \A a \in Everybody : entries[a] = "fresh" => roster'[a] = "fresh"
  BY <1>5 DEF Rosters
<1>7. next \in RunShape /\ next.at = {} /\ \A a, entry, answer :
        pass = 1 \/ (a \in todo /\ Knows(answer)) => Served(next, entry, answer, a)
  BY <1>2, <1>3, AskingServes
<1> QED BY <1>1, <1>4, <1>6, <1>7

\* The runner has taken the next step of its rebuilding, fresh entries have
\* stayed fresh, and the agents ahead of it or renewed are served.
Rebuilt(r, todo, entries, next) ==
    /\ run' = [run EXCEPT ![r] = next] /\ next.at = {}
    /\ roster' \in Rosters /\ \A a \in Everybody : entries[a] = "fresh" => roster'[a] = "fresh"
    /\ r # 0 => \A a \in Everybody : \A answer :
         a \in todo \/ (entries[a] = "fresh" /\ Knows(answer)) => Served(next, roster'[a], answer, a)

LEMMA Rebuilds ==
  ASSUME NEW r \in Discoveries \cup {0}, NEW todo \in SUBSET Everybody, NEW entries \in Rosters,
         Bidding!Rebuilding(r, todo, entries)
  PROVE  \E next \in RunShape : Rebuilt(r, todo, entries, next)
<1>1. CASE todo = {} /\ r # 0
  <2>1. Bidding!Evaluate(r, 2, entries) BY <1>1 DEF Bidding!Rebuilding
  <2> QED BY <1>1, <2>1, Evaluates DEF Rebuilt
<1>2. CASE todo = {} /\ r = 0
  <2>1. run' = [run EXCEPT ![r] = Bidding!Run("done")] /\ roster' = entries
    BY <1>2 DEF Bidding!Rebuilding, Bidding!Moves
  <2> QED BY <1>2, <2>1, RunIs DEF Rebuilt
<1>3. CASE todo # {}
  <2>1. PICK next : next = [Bidding!Run("listed") EXCEPT !.todo = todo] OBVIOUS
  <2>2. run' = [run EXCEPT ![r] = next] /\ roster' = entries
    BY <1>3, <2>1 DEF Bidding!Rebuilding, Bidding!Moves
  <2>3. next \in RunShape /\ next.pc = "listed" /\ next.todo = todo /\ next.at = {}
    BY <2>1 DEF Bidding!Run, RunShape
  <2> QED BY <2>2, <2>3 DEF Served, Rebuilt
<1> QED BY <1>1, <1>2, <1>3

\* A runner that sends a read about an agent awaits an answer that says what the
\* registry says.
LEMMA ReadsShape ==
  ASSUME InviteInv, NEW r \in Discoveries \cup {0}, NEW a \in Everybody,
         NEW pc \in {"awaiting", "checking", "profile"}, NEW old \in BOOLEAN, Bidding!Reads(r, a, pc, old)
  PROVE  \E next \in RunShape :
            /\ run' = [run EXCEPT ![r] = next]
            /\ next.pc = pc /\ next.todo = run[r].todo \ {a} /\ next.kept = run[r].kept
            /\ next.pass = run[r].pass /\ next.at = {a} /\ next.seen = {registry[a]}
<1>1. PICK next : next = [run[r] EXCEPT !.pc = pc, !.todo = @ \ {a}, !.at = {a},
                                        !.seen = {registry[a]}, !.old = old]
  OBVIOUS
<1>2. run[r] \in RunShape /\ registry[a] \in Standing BY Shapes
<1>3. /\ next \in RunShape
      /\ next.pc = pc /\ next.todo = run[r].todo \ {a} /\ next.kept = run[r].kept
      /\ next.pass = run[r].pass /\ next.at = {a} /\ next.seen = {registry[a]}
  BY <1>1, <1>2 DEF RunShape
<1>4. run' = [run EXCEPT ![r] = next] BY <1>1, Shapes DEF Bidding!Reads
<1> QED BY <1>3, <1>4

-----------------------------------------------------------------------------
\* One lemma for each action.

\* What an entry of the cache becomes.
LEMMA Answers ==
  ASSUME cache \in Caches, NEW a \in Everybody, NEW active \in BOOLEAN,
         cache' = [cache EXCEPT ![a] = Bidding!Answer(active)]
  PROVE  /\ cache' \in Caches /\ cache'[a].active = active
         /\ \A b \in Everybody \ {a} : cache'[b] = cache[b]
<1>1. /\ Bidding!Answer(active) \in [active : BOOLEAN, age : {"fresh", "old", "expired"}]
      /\ Bidding!Answer(active).active = active
  BY DEF Bidding!Answer
<1> QED BY <1>1 DEF Caches

LEMMA BeginKeeps == ASSUME InviteInv, NEW d \in Discoveries, Bidding!Begin(d) PROVE InviteInv'
<1>1. /\ registry' = registry /\ cache' = cache /\ Bidding!Evaluate(d, 1, roster)
      /\ steady' = [steady EXCEPT ![d] = {a \in Everybody : registry[a] = "fit" /\ ~Bidding!Outdated(a)}]
  BY DEF Bidding!Begin, Everybody
<1>2. PICK next \in RunShape :
        /\ run' = [run EXCEPT ![d] = next] /\ next.at = {}
        /\ roster' \in Rosters /\ \A a \in Everybody : roster[a] = "fresh" => roster'[a] = "fresh"
        /\ \A a \in Everybody : \A entry, answer : Served(next, entry, answer, a)
  BY <1>1, Shapes, Evaluates
<1>3. steady' \in [Discoveries \cup {0} -> SUBSET Everybody] BY <1>1, Shapes
<1>4. InviteShape' BY <1>1, <1>2, <1>3, Shapes DEF InviteShape
<1>5. ASSUME NEW e \in Discoveries, NEW a \in steady'[e]
      PROVE  Certain(registry, a)' /\ Served(run'[e], roster'[a], cache'[a], a)
  <2>1. a \in Everybody BY <1>3, <1>5
  <2>2. Certain(registry, a)
    <3>1. CASE e = d
      <4>1. registry[a] = "fit" /\ ~Bidding!Outdated(a) BY <1>1, <1>5, <3>1, Shapes
      <4> QED BY <4>1, Numbered DEF Bidding!Outdated, Certain
    <3>2. CASE e # d
      <4>1. a \in steady[e] BY <1>1, <1>5, <3>2, Shapes
      <4> QED BY <4>1 DEF InviteInv
    <3> QED BY <3>1, <3>2
  <2>3. \A r \in Discoveries \cup {0} : run'[r] = IF r = d THEN next ELSE run[r] BY <1>2, Shapes
  <2>4. Certain(registry, a)' BY <1>1, <1>2, <2>2, <2>3 DEF Certain
  <2>5. CASE e = d BY <1>2, <2>1, <2>3, <2>4, <2>5
  <2>6. CASE e # d
    <3>1. a \in steady[e] /\ run'[e] = run[e] BY <1>1, <1>5, <2>3, <2>6, Shapes
    <3>2. Served(run[e], roster[a], cache[a], a) BY <3>1 DEF InviteInv
    <3>3. Served(run[e], roster'[a], cache[a], a) BY <1>2, <2>1, <3>2 DEF Served
    <3> QED BY <1>1, <2>4, <3>1, <3>3
  <2> QED BY <2>5, <2>6
<1> QED BY <1>4, <1>5 DEF InviteInv

\* A handler that has an answer about an agent, and keeps each that is certain.
LEMMA KeepsServes ==
  ASSUME InviteInv, NEW d \in Discoveries, NEW a \in Everybody, NEW active \in BOOLEAN, NEW todo,
         \/ run[d].pc = "asking" /\ todo = run[d].todo \ {a}
         \/ run[d].pc = "awaiting" /\ run[d].at = {a} /\ todo = run[d].todo,
         Bidding!Keeps(d, a, todo, active),
         UNCHANGED <<registry, roster, steady>>, cache' \in Caches,
         Certain(registry, a) /\ Knows(cache[a]) => active,
         \A b \in Everybody : Certain(registry, b) => (Knows(cache[b]) => Knows(cache'[b]))
  PROVE  InviteInv'
<1>1. run[d] \in RunShape BY Shapes
<1>2. todo \in SUBSET Everybody /\ run[d].pass \in {0, 1, 2} BY <1>1 DEF RunShape
<1>3. PICK kept : kept = IF active THEN run[d].kept \cup {a} ELSE run[d].kept OBVIOUS
<1>4. kept \in SUBSET Everybody BY <1>1, <1>3 DEF RunShape
<1>5. PICK next : next = Bidding!Asking(todo, kept, run[d].pass) OBVIOUS
<1>6. run' = [run EXCEPT ![d] = next] BY <1>3, <1>5 DEF Bidding!Keeps, Bidding!Moves
<1>7. next \in RunShape /\ next.at = {}
  <2>1. PICK pass \in {0, 1, 2} : pass = run[d].pass BY <1>2
  <2> QED BY <1>2, <1>4, <1>5, <2>1, AskingShape
<1>8. ASSUME NEW b \in steady[d] PROVE Served(next, roster[b], cache'[b], b)
  <2>1. b \in Everybody /\ Certain(registry, b) /\ Served(run[d], roster[b], cache[b], b)
    BY <1>8, Shapes DEF InviteInv
  <2>2. \/ run[d].pass = 1
        \/ run[d].pass = 2 /\ (b \in run[d].kept \cup todo \/ b = a) /\ Knows(cache[b])
    BY <2>1 DEF Served
  <2>3. CASE run[d].pass = 1 BY <1>2, <1>4, <1>5, <2>3, AskingServes
  <2>4. CASE run[d].pass = 2 /\ (b \in run[d].kept \cup todo \/ b = a) /\ Knows(cache[b])
    <3>1. b \in todo \cup kept /\ Knows(cache'[b]) BY <1>3, <2>1, <2>4
    <3> QED BY <1>2, <1>4, <1>5, <2>4, <3>1, AskingServes
  <2> QED BY <2>2, <2>3, <2>4
<1>9. registry' = registry /\ roster' = roster /\ steady' = steady OBVIOUS
<1> QED BY <1>6, <1>7, <1>8, <1>9, QuietRunner, Shapes

LEMMA AskKeeps ==
  ASSUME InviteInv, NEW d \in Discoveries, NEW a \in Everybody, Bidding!Ask(d, a)
  PROVE  InviteInv'
<1>1. run[d].pc = "asking" /\ a \in run[d].todo /\ UNCHANGED <<registry, roster, cache, steady>>
  BY DEF Bidding!Ask, Bidding!At, Bidding!First, Bidding!AllWell
<1>2. CASE cache[a].age = "fresh" /\ Bidding!Keeps(d, a, run[d].todo \ {a}, cache[a].active)
  <2>1. PICK active \in BOOLEAN : active = cache[a].active BY Shapes DEF Caches
  <2>2. PICK todo : todo = run[d].todo \ {a} OBVIOUS
  <2>3. Certain(registry, a) /\ Knows(cache[a]) => active BY <1>2, <2>1 DEF Knows
  <2> QED BY <1>1, <1>2, <2>1, <2>2, <2>3, KeepsServes, Shapes
<1>3. CASE Bidding!Reads(d, a, "awaiting", cache[a].age = "old" /\ cache[a].active)
  <2>1. PICK next \in RunShape :
          /\ run' = [run EXCEPT ![d] = next]
          /\ next.pc = "awaiting" /\ next.todo = run[d].todo \ {a} /\ next.kept = run[d].kept
          /\ next.pass = run[d].pass /\ next.at = {a} /\ next.seen = {registry[a]}
    <3>1. PICK old \in BOOLEAN : Bidding!Reads(d, a, "awaiting", old) BY <1>3
    <3>2. PICK pc \in {"awaiting", "checking", "profile"} : pc = "awaiting" OBVIOUS
    <3> QED BY <3>1, <3>2, ReadsShape
  <2>2. ASSUME NEW b \in steady[d] PROVE Served(next, roster[b], cache[b], b)
    <3>1. b \in Everybody /\ Served(run[d], roster[b], cache[b], b) BY <2>2, Shapes DEF InviteInv
    <3> QED BY <1>1, <2>1, <3>1 DEF Served
  <2> QED BY <1>1, <2>1, <2>2, QuietRunner, Shapes DEF Certain
<1> QED BY <1>2, <1>3 DEF Bidding!Ask

LEMMA AnsweredKeeps ==
  ASSUME InviteInv, NEW d \in Discoveries, NEW a \in Everybody, Bidding!Answered(d, a)
  PROVE  InviteInv'
<1>1. run[d].pc = "awaiting" /\ a \in run[d].at /\ UNCHANGED <<registry, roster, steady>>
  BY DEF Bidding!Answered, Bidding!At, Bidding!AllWell
<1>2. PICK standing \in run[d].seen :
        /\ cache' = [cache EXCEPT ![a] = Bidding!Answer(standing # "inactive")]
        /\ Bidding!Keeps(d, a, run[d].todo, standing # "inactive")
  BY DEF Bidding!Answered
<1>3. PICK active \in BOOLEAN : active = (standing # "inactive") OBVIOUS
<1>4. PICK todo : todo = run[d].todo OBVIOUS
<1>5. run[d].at = {a} BY <1>1, Shapes DEF RunShape
<1>6. Certain(registry, a) => active BY <1>1, <1>2, <1>3 DEF Certain
<1>7. cache' \in Caches /\ cache'[a].active = active /\ \A b \in Everybody \ {a} : cache'[b] = cache[b]
  BY <1>2, <1>3, Answers, Shapes
<1>8. \A b \in Everybody : Certain(registry, b) => (Knows(cache[b]) => Knows(cache'[b]))
  BY <1>6, <1>7 DEF Knows
<1>9. Bidding!Keeps(d, a, todo, active) BY <1>2, <1>3, <1>4
<1> QED BY <1>1, <1>4, <1>5, <1>6, <1>7, <1>8, <1>9, KeepsServes

LEMMA AskFailsKeeps ==
  ASSUME InviteInv, NEW d \in Discoveries, NEW a \in Everybody, Bidding!AskFails(d, a)
  PROVE  InviteInv'
<1>1. Bidding!Trouble /\ UNCHANGED <<registry, roster, cache>> /\ run[d] \in RunShape
  BY Shapes DEF Bidding!AskFails
<1>2. PICK active \in {FALSE, run[d].old} : Bidding!Keeps(d, a, run[d].todo, active) BY DEF Bidding!AskFails
<1>3. PICK todo, pass, kept : /\ todo = run[d].todo /\ pass = run[d].pass
                              /\ kept = IF active THEN run[d].kept \cup {a} ELSE run[d].kept
  OBVIOUS
<1>4. todo \in SUBSET Everybody /\ pass \in {0, 1, 2} /\ kept \in SUBSET Everybody
  BY <1>1, <1>3 DEF RunShape
<1>5. PICK next : next = Bidding!Asking(todo, kept, pass) OBVIOUS
<1>6. next \in RunShape BY <1>4, <1>5, AskingShape
<1>7. run' = [run EXCEPT ![d] = next] BY <1>2, <1>3, <1>5 DEF Bidding!Keeps, Bidding!Moves
<1>8. run' \in [Discoveries \cup {0} -> RunShape] BY <1>6, <1>7, Shapes
<1> QED BY <1>1, <1>8, TroubledRunner, Shapes

LEMMA ListKeeps == ASSUME InviteInv, NEW r \in Discoveries \cup {0}, Bidding!List(r) PROVE InviteInv'
<1>1. UNCHANGED <<registry, cache>> BY DEF Bidding!List
<1>2. CASE Bidding!Rebuilding(r, Everybody, roster) /\ Bidding!AllWell
  <2>1. PICK next \in RunShape : Rebuilt(r, Everybody, roster, next) BY <1>2, Rebuilds, Shapes
  <2>2. steady' = steady BY <1>2 DEF Bidding!AllWell
  <2>3. r \in Discoveries => \A a \in steady'[r] : Served(next, roster'[a], cache'[a], a)
    BY <2>1, <2>2, Numbered, Shapes DEF Rebuilt
  <2> QED BY <1>1, <2>1, <2>2, <2>3, QuietRunner, Shapes DEF Rebuilt
<1>3. CASE /\ Bidding!Moves(r, Bidding!Run(IF r = 0 THEN "done" ELSE "publishing"))
           /\ Bidding!Trouble /\ UNCHANGED roster
  <2>1. PICK pc \in {"done", "publishing"} : pc = IF r = 0 THEN "done" ELSE "publishing" OBVIOUS
  <2>2. run' = [run EXCEPT ![r] = Bidding!Run(pc)] BY <1>3, <2>1 DEF Bidding!Moves
  <2>3. run' \in [Discoveries \cup {0} -> RunShape] BY <2>2, RunIs, Shapes
  <2> QED BY <1>1, <1>3, <2>3, TroubledRunner, Shapes
<1> QED BY <1>2, <1>3 DEF Bidding!List, Everybody

LEMMA SyncActiveKeeps ==
  ASSUME InviteInv, NEW r \in Discoveries \cup {0}, NEW a \in Everybody, Bidding!SyncActive(r, a)
  PROVE  InviteInv'
<1>1. run[r].pc = "listed" /\ UNCHANGED <<registry, roster, cache, steady>>
  BY DEF Bidding!SyncActive, Bidding!At, Bidding!AllWell
<1>2. PICK next \in RunShape :
        /\ run' = [run EXCEPT ![r] = next]
        /\ next.pc = "checking" /\ next.todo = run[r].todo \ {a} /\ next.kept = run[r].kept
        /\ next.pass = run[r].pass /\ next.at = {a} /\ next.seen = {registry[a]}
  <2>1. Bidding!Reads(r, a, "checking", FALSE) BY DEF Bidding!SyncActive
  <2>2. PICK pc \in {"awaiting", "checking", "profile"} : pc = "checking" OBVIOUS
  <2> QED BY <2>1, <2>2, ReadsShape
<1>3. ASSUME r \in Discoveries, NEW b \in steady[r] PROVE Served(next, roster[b], cache[b], b)
  <2>1. Served(run[r], roster[b], cache[b], b) BY <1>3 DEF InviteInv
  <2> QED BY <1>1, <1>2, <2>1 DEF Served
<1> QED BY <1>1, <1>2, <1>3, QuietRunner, Shapes DEF Certain

LEMMA SyncActivatedKeeps ==
  ASSUME InviteInv, NEW r \in Discoveries \cup {0}, NEW a \in Everybody, Bidding!SyncActivated(r, a)
  PROVE  InviteInv'
<1>1. /\ run[r].pc = "checking" /\ a \in run[r].at /\ run[r] \in RunShape
      /\ UNCHANGED <<registry, roster, steady>>
  BY Shapes DEF Bidding!SyncActivated, Bidding!At, Bidding!AllWell
<1>2. PICK next \in RunShape :
        /\ run' = [run EXCEPT ![r] = next]
        /\ next.pc = "profile" /\ next.todo = run[r].todo \ {a} /\ next.kept = run[r].kept
        /\ next.pass = run[r].pass /\ next.at = {a} /\ next.seen = {registry[a]}
  <2>1. Bidding!Reads(r, a, "profile", FALSE) BY DEF Bidding!SyncActivated
  <2>2. PICK pc \in {"awaiting", "checking", "profile"} : pc = "profile" OBVIOUS
  <2> QED BY <2>1, <2>2, ReadsShape
<1>3. cache' = [cache EXCEPT ![a] = Bidding!Answer(TRUE)]
  BY DEF Bidding!SyncActivated, Bidding!Cached
<1>4. cache' \in Caches /\ cache'[a].active = TRUE /\ \A b \in Everybody \ {a} : cache'[b] = cache[b]
  BY <1>3, Answers, Shapes
<1>5. \A b \in Everybody : Knows(cache[b]) => Knows(cache'[b]) BY <1>4 DEF Knows
<1>6. ASSUME r \in Discoveries, NEW b \in steady[r] PROVE Served(next, roster[b], cache'[b], b)
  <2>1. b \in Everybody /\ Served(run[r], roster[b], cache[b], b) BY <1>6, Shapes DEF InviteInv
  <2>2. CASE b = a BY <1>2, <1>4, <2>2 DEF Served, Knows
  <2>3. CASE b # a
    <3>1. b \notin run[r].at BY <1>1, <2>3 DEF RunShape
    <3> QED BY <1>1, <1>2, <1>5, <2>1, <3>1 DEF Served
  <2> QED BY <2>2, <2>3
<1>7. \A b \in Everybody : Certain(registry, b) => (b \in next.at => next.seen = {"fit"})
  BY <1>2 DEF Certain
<1> QED BY <1>1, <1>2, <1>4, <1>5, <1>6, <1>7, QuietRunner, Shapes

LEMMA SyncInactiveKeeps ==
  ASSUME InviteInv, NEW r \in Discoveries \cup {0}, NEW a \in Everybody, Bidding!SyncInactive(r, a)
  PROVE  InviteInv'
<1>1. run[r].pc = "checking" /\ run[r].at = {a} /\ run[r] \in RunShape /\ registry' = registry
  BY Shapes DEF Bidding!SyncInactive, Bidding!At, RunShape
<1>2. cache' = [cache EXCEPT ![a] = Bidding!Answer(FALSE)] BY DEF Bidding!SyncInactive, Bidding!Cached
<1>3. cache' \in Caches /\ \A b \in Everybody \ {a} : cache'[b] = cache[b] BY <1>2, Answers, Shapes
<1>4. PICK todo : todo = run[r].todo OBVIOUS
<1>5. todo \in SUBSET Everybody /\ Bidding!Rebuilding(r, todo, roster)
  BY <1>1, <1>4 DEF RunShape, Bidding!SyncInactive
<1>6. PICK next \in RunShape : Rebuilt(r, todo, roster, next) BY <1>5, Rebuilds, Shapes
<1>7. CASE Bidding!Trouble
  <2>1. run' \in [Discoveries \cup {0} -> RunShape] /\ roster' \in Rosters BY <1>6, Shapes DEF Rebuilt
  <2> QED BY <1>1, <1>3, <1>7, <2>1, TroubledRunner
<1>8. CASE "inactive" \in run[r].seen /\ Bidding!AllWell
  <2>1. ~Certain(registry, a) BY <1>1, <1>8 DEF Certain
  <2>2. steady' = steady BY <1>8 DEF Bidding!AllWell
  <2>3. \A b \in Everybody : Certain(registry, b) => (Knows(cache[b]) => Knows(cache'[b]))
    BY <1>3, <2>1
  <2>4. ASSUME r \in Discoveries, NEW b \in steady[r] PROVE Served(next, roster'[b], cache'[b], b)
    <3>1. b \in Everybody /\ Certain(registry, b) /\ Served(run[r], roster[b], cache[b], b)
      BY <2>4, Shapes DEF InviteInv
    <3>2. b \in todo \/ (roster[b] = "fresh" /\ Knows(cache'[b]))
      BY <1>1, <1>4, <2>1, <2>3, <3>1 DEF Served
    <3> QED BY <1>6, <2>4, <3>1, <3>2, Numbered DEF Rebuilt
  <2>5. /\ run' = [run EXCEPT ![r] = next] /\ next.at = {} /\ roster' \in Rosters
        /\ \A b \in Everybody : roster[b] = "fresh" => roster'[b] = "fresh"
    BY <1>6 DEF Rebuilt
  <2> QED BY <1>1, <1>3, <2>2, <2>3, <2>4, <2>5, QuietRunner, Shapes
<1> QED BY <1>7, <1>8 DEF Bidding!SyncInactive

LEMMA SyncProfileKeeps ==
  ASSUME InviteInv, NEW r \in Discoveries \cup {0}, Bidding!SyncProfile(r)
  PROVE  InviteInv'
<1>1. /\ run[r].pc = "profile" /\ run[r] \in RunShape /\ UNCHANGED <<registry, cache, steady>>
  BY Shapes DEF Bidding!SyncProfile, Bidding!At, Bidding!AllWell
<1>2. PICK entry \in {"fresh", "none"} :
        /\ Bidding!Rebuilding(r, run[r].todo, [a \in Everybody |-> IF a \in run[r].at THEN entry ELSE roster[a]])
        /\ entry = "none" => run[r].seen # {"fit"}
  BY DEF Bidding!SyncProfile, Everybody
<1>3. PICK entries : entries = [a \in Everybody |-> IF a \in run[r].at THEN entry ELSE roster[a]] OBVIOUS
<1>4. entries \in Rosters BY <1>2, <1>3, Shapes DEF Rosters
<1>5. PICK todo : todo = run[r].todo OBVIOUS
<1>6. todo \in SUBSET Everybody /\ Bidding!Rebuilding(r, todo, entries) BY <1>1, <1>2, <1>3, <1>5 DEF RunShape
<1>7. PICK next \in RunShape : Rebuilt(r, todo, entries, next) BY <1>4, <1>6, Rebuilds
<1>8. \A b \in Everybody : Certain(registry, b) /\ (b \in run[r].at \/ roster[b] = "fresh") => entries[b] = "fresh"
  <2> SUFFICES ASSUME NEW b \in Everybody, Certain(registry, b), b \in run[r].at \/ roster[b] = "fresh"
               PROVE  entries[b] = "fresh"
    OBVIOUS
  <2>1. entries[b] = IF b \in run[r].at THEN entry ELSE roster[b] BY <1>3
  <2>2. CASE b \in run[r].at
    <3>1. run[r].seen = {"fit"} BY <2>2 DEF Certain
    <3> QED BY <1>2, <2>1, <2>2, <3>1
  <2>3. CASE b \notin run[r].at BY <2>1, <2>3
  <2> QED BY <2>2, <2>3
<1>9. ASSUME r \in Discoveries, NEW b \in steady[r] PROVE Served(next, roster'[b], cache'[b], b)
  <2>1. b \in Everybody /\ Certain(registry, b) /\ Served(run[r], roster[b], cache[b], b)
    BY <1>9, Shapes DEF InviteInv
  <2>2. b \in todo \/ (entries[b] = "fresh" /\ Knows(cache[b])) BY <1>1, <1>5, <1>8, <2>1 DEF Served
  <2> QED BY <1>1, <1>7, <1>9, <2>1, <2>2, Numbered DEF Rebuilt
<1>10. /\ run' = [run EXCEPT ![r] = next] /\ next.at = {} /\ roster' \in Rosters
       /\ \A b \in Everybody : Certain(registry, b) /\ roster[b] = "fresh" => roster'[b] = "fresh"
  BY <1>7, <1>8 DEF Rebuilt
<1> QED BY <1>1, <1>9, <1>10, QuietRunner, Shapes

LEMMA ProfileFailsKeeps ==
  ASSUME InviteInv, NEW r \in Discoveries \cup {0}, Bidding!ProfileFails(r)
  PROVE  InviteInv'
<1>1. /\ Bidding!Rebuilding(r, run[r].todo, roster) /\ Bidding!Trouble /\ UNCHANGED <<registry, cache>>
  BY DEF Bidding!ProfileFails
<1>2. PICK todo : todo = run[r].todo OBVIOUS
<1>3. todo \in SUBSET Everybody /\ Bidding!Rebuilding(r, todo, roster) BY <1>1, <1>2, Shapes DEF RunShape
<1>4. PICK next \in RunShape : run' = [run EXCEPT ![r] = next] /\ roster' \in Rosters BY <1>3, Rebuilds, Shapes DEF Rebuilt
<1>5. run' \in [Discoveries \cup {0} -> RunShape] BY <1>4, Shapes
<1> QED BY <1>1, <1>4, <1>5, TroubledRunner, Shapes

\* Nobody is left only where something failed, or no agent was steady.
LEMMA PublishKeeps == ASSUME InviteInv, NEW d \in Discoveries, Bidding!Publish(d) PROVE InviteInv'
<1>1. run[d].pc = "publishing" /\ UNCHANGED <<registry, roster, cache>> BY DEF Bidding!Publish, Bidding!At
<1>2. CASE run[d].kept = {} /\ Bidding!Moves(d, Bidding!Run("nobody")) /\ Bidding!AllWell
  <2>1. PICK next : next = Bidding!Run("nobody") OBVIOUS
  <2>2. next \in RunShape /\ next.at = {} /\ run' = [run EXCEPT ![d] = next] /\ steady' = steady
    BY <1>2, <2>1, RunIs DEF Bidding!Moves, Bidding!AllWell
  <2>3. ASSUME NEW a \in steady[d] PROVE FALSE
    BY <1>1, <1>2, <2>3 DEF InviteInv, Served
  <2> QED BY <1>1, <2>2, <2>3, QuietRunner, Shapes
<1>3. CASE Bidding!Moves(d, Bidding!Run("invited")) /\ steady' = [steady EXCEPT ![d] = {}]
  <2>1. PICK next : next = Bidding!Run("invited") OBVIOUS
  <2>2. next \in RunShape /\ next.at = {} /\ run' = [run EXCEPT ![d] = next]
    BY <1>3, <2>1, RunIs DEF Bidding!Moves
  <2>3. /\ steady' \in [Discoveries \cup {0} -> SUBSET Everybody] /\ steady'[d] = {}
        /\ \A e \in Discoveries : steady'[e] \subseteq steady[e]
    BY <1>3, Shapes
  <2> QED BY <1>1, <2>2, <2>3, QuietRunner, Shapes
<1>4. CASE Bidding!Moves(d, Bidding!Run("unheard")) /\ Bidding!Trouble
  <2>1. run' \in [Discoveries \cup {0} -> RunShape] BY <1>4, RunIs, Shapes DEF Bidding!Moves
  <2> QED BY <1>1, <1>4, <2>1, TroubledRunner, Shapes
<1> QED BY <1>2, <1>3, <1>4 DEF Bidding!Publish

\* What else goes on changes no runner.
LEMMA OtherStep ==
  ASSUME InviteInv, UNCHANGED <<run, registry, steady>>, roster' \in Rosters, cache' \in Caches,
         \A d \in Discoveries : \A a \in steady[d] :
            /\ Knows(cache[a]) => Knows(cache'[a])
            /\ roster[a] = "fresh" /\ run[d].pc \in {"listed", "checking", "profile"} /\ a \notin run[d].todo
                  => roster'[a] = "fresh"
  PROVE  InviteInv'
<1>1. InviteShape' BY Shapes DEF InviteShape
<1>2. ASSUME NEW d \in Discoveries, NEW a \in steady'[d]
      PROVE  Certain(registry, a)' /\ Served(run'[d], roster'[a], cache'[a], a)
  <2>1. Certain(registry, a) /\ Served(run[d], roster[a], cache[a], a) BY <1>2 DEF InviteInv
  <2>2. Certain(registry, a)' BY <2>1 DEF Certain
  <2>3. Served(run'[d], roster'[a], cache'[a], a) BY <1>2, <2>1 DEF Served
  <2> QED BY <2>2, <2>3
<1> QED BY <1>1, <1>2 DEF InviteInv

\* A change of the registry is on the way to those that await an answer about
\* the agent; nothing is promised about it any more.
LEMMA RegistryKeeps ==
  ASSUME InviteInv, NEW a \in Everybody, NEW standing \in Standing, Bidding!RegistryChanges(a, standing)
  PROVE  InviteInv'
<1>1. /\ registry' = [registry EXCEPT ![a] = standing]
      /\ steady' = [r \in Discoveries \cup {0} |-> steady[r] \ {a}]
      /\ run' = [r \in Discoveries \cup {0} |-> IF a \in run[r].at
                   THEN [run[r] EXCEPT !.seen = @ \cup {standing}] ELSE run[r]]
      /\ UNCHANGED <<roster, cache>>
  BY Numbered DEF Bidding!RegistryChanges
<1>2. ASSUME NEW r \in Discoveries \cup {0}
      PROVE  /\ run'[r] \in RunShape /\ run'[r].pc = run[r].pc /\ run'[r].todo = run[r].todo
             /\ run'[r].kept = run[r].kept /\ run'[r].pass = run[r].pass /\ run'[r].at = run[r].at
             /\ \A b \in Everybody \ {a} : b \in run[r].at => run'[r].seen = run[r].seen
  <2>1. run[r] \in RunShape BY Shapes
  <2>2. run'[r] = IF a \in run[r].at THEN [run[r] EXCEPT !.seen = @ \cup {standing}] ELSE run[r] BY <1>1
  <2>3. CASE a \in run[r].at
    <3>1. run[r].at = {a} BY <2>1, <2>3 DEF RunShape
    <3>2. run[r].seen \cup {standing} \in SUBSET Standing BY <2>1 DEF RunShape
    <3>3. run'[r] = [run[r] EXCEPT !.seen = run[r].seen \cup {standing}] BY <2>2, <2>3
    <3> QED BY <2>1, <3>1, <3>2, <3>3 DEF RunShape
  <2>4. CASE a \notin run[r].at BY <2>1, <2>2, <2>4
  <2> QED BY <2>3, <2>4
<1>3. run' \in [Discoveries \cup {0} -> RunShape] BY <1>1, <1>2
<1>4. registry' \in [Everybody -> Standing] /\ \A b \in Everybody \ {a} : registry'[b] = registry[b]
  BY <1>1, Shapes
<1>5. /\ steady' \in [Discoveries \cup {0} -> SUBSET Everybody]
      /\ \A d \in Discoveries : steady'[d] = steady[d] \ {a}
  BY <1>1, Shapes
<1>6. InviteShape' BY <1>1, <1>3, <1>4, <1>5, Shapes DEF InviteShape
<1>7. ASSUME NEW d \in Discoveries, NEW b \in steady'[d]
      PROVE  Certain(registry, b)' /\ Served(run'[d], roster'[b], cache'[b], b)
  <2>1. /\ b \in Everybody \ {a} /\ Certain(registry, b)
        /\ Served(run[d], roster[b], cache[b], b)
    BY <1>5, <1>7, Shapes DEF InviteInv
  <2>2. Certain(registry, b)' BY <1>2, <1>4, <2>1 DEF Certain
  <2>3. Served(run'[d], roster'[b], cache'[b], b) BY <1>1, <1>2, <2>1 DEF Served
  <2> QED BY <2>2, <2>3
<1> QED BY <1>6, <1>7 DEF InviteInv

LEMMA WorldKeeps ==
  ASSUME InviteInv, NEW a \in Everybody,
         Bidding!AgentRegistered(a) \/ Bidding!GrowsStale(a) \/ Bidding!Ages(a)
  PROVE  InviteInv'
<1>1. CASE Bidding!AgentRegistered(a)
  <2>1. roster' = [roster EXCEPT ![a] = "fresh"] /\ UNCHANGED <<registry, cache, run, steady>>
    BY <1>1 DEF Bidding!AgentRegistered, Bidding!AllWell
  <2>2. roster' \in Rosters /\ \A b \in Everybody : roster[b] = "fresh" => roster'[b] = "fresh"
    BY <2>1, Shapes DEF Rosters
  <2> QED BY <2>1, <2>2, OtherStep, Shapes
<1>2. CASE Bidding!GrowsStale(a)
  <2>1. roster' = [roster EXCEPT ![a] = "stale"] /\ UNCHANGED <<registry, cache, run, steady>>
    BY <1>2 DEF Bidding!GrowsStale, Bidding!AllWell
  <2>2. \A d \in Discoveries : ~(run[d].pc \in {"listed", "checking", "profile"} /\ a \notin run[d].todo)
    BY <1>2, Numbered DEF Bidding!GrowsStale, Bidding!Renewed
  <2>3. roster' \in Rosters /\ \A b \in Everybody \ {a} : roster'[b] = roster[b]
    BY <2>1, Shapes DEF Rosters
  <2> QED BY <2>1, <2>2, <2>3, OtherStep, Shapes
<1>3. CASE Bidding!Ages(a)
  <2>1. /\ cache' = [cache EXCEPT ![a] = IF @ = Bidding!Answer(TRUE) THEN [@ EXCEPT !.age = "old"]
                                         ELSE Bidding!Unknown]
        /\ UNCHANGED <<registry, roster, run, steady>>
    BY <1>3 DEF Bidding!Ages, Bidding!AllWell
  <2>2. PICK answer : answer = IF cache[a] = Bidding!Answer(TRUE) THEN [cache[a] EXCEPT !.age = "old"]
                               ELSE Bidding!Unknown
    OBVIOUS
  <2>3. answer \in [active : BOOLEAN, age : {"fresh", "old", "expired"}] /\ answer.age # "fresh"
    BY <2>2, Shapes DEF Caches, Bidding!Unknown
  <2>4. cache' = [cache EXCEPT ![a] = answer] BY <2>1, <2>2
  <2>5. cache' \in Caches /\ \A b \in Everybody : Knows(cache[b]) => Knows(cache'[b])
    BY <2>3, <2>4, Shapes DEF Caches, Knows
  <2> QED BY <2>1, <2>5, OtherStep, Shapes
<1> QED BY <1>1, <1>2, <1>3

LEMMA InviteBegins == Bidding!Init => InviteInv
<1> SUFFICES ASSUME Bidding!Init PROVE InviteInv OBVIOUS
<1>1. /\ registry \in [Everybody -> Standing] /\ roster \in Rosters
      /\ cache = [a \in Everybody |-> Bidding!Unknown]
      /\ run = [r \in Discoveries \cup {0} |-> Bidding!Run(IF r = 0 THEN "listing" ELSE "idle")]
      /\ steady = [r \in Discoveries \cup {0} |-> {}]
  BY Numbered DEF Bidding!Init, Bidding!Standings, Standing, Everybody, Rosters
<1>2. cache \in Caches BY <1>1 DEF Caches, Bidding!Unknown
<1>3. Bidding!Run("listing") \in RunShape /\ Bidding!Run("idle") \in RunShape BY RunIs
<1>4. run \in [Discoveries \cup {0} -> RunShape] BY <1>1, <1>3
<1> QED BY <1>1, <1>2, <1>4 DEF InviteInv, InviteShape

\* When a handler ends without anyone to invite, something failed since it began
\* or no agent was active and fit all the time with every answer on its way
\* saying so, for any agents and handlers.
THEOREM SomebodyIsInvitedHolds == Bidding!Spec => []SomebodyIsInvited
<1>1. InviteInv /\ [Bidding!Next]_Bidding!inviteVars => InviteInv'
  <2> SUFFICES ASSUME InviteInv, [Bidding!Next]_Bidding!inviteVars PROVE InviteInv' OBVIOUS
  <2>1. CASE Bidding!Next
    <3>1. ASSUME NEW d \in Discoveries, Bidding!Begin(d) \/ Bidding!Publish(d) PROVE InviteInv'
      BY <3>1, BeginKeeps, PublishKeeps
    <3>2. ASSUME NEW d \in Discoveries, NEW a \in Everybody,
                 Bidding!Ask(d, a) \/ Bidding!Answered(d, a) \/ Bidding!AskFails(d, a)
          PROVE  InviteInv'
      BY <3>2, AskKeeps, AnsweredKeeps, AskFailsKeeps
    <3>3. ASSUME NEW r \in Discoveries \cup {0}, Bidding!List(r) \/ Bidding!SyncProfile(r) \/ Bidding!ProfileFails(r)
          PROVE  InviteInv'
      BY <3>3, ListKeeps, SyncProfileKeeps, ProfileFailsKeeps
    <3>4. ASSUME NEW r \in Discoveries \cup {0}, NEW a \in Everybody,
                 Bidding!SyncActive(r, a) \/ Bidding!SyncActivated(r, a) \/ Bidding!SyncInactive(r, a)
          PROVE  InviteInv'
      BY <3>4, SyncActiveKeeps, SyncActivatedKeeps, SyncInactiveKeeps
    <3>5. ASSUME NEW a \in Everybody, NEW standing \in Bidding!Standings, Bidding!RegistryChanges(a, standing)
          PROVE  InviteInv'
      BY <3>5, RegistryKeeps DEF Bidding!Standings, Standing
    <3> QED BY <2>1, <3>1, <3>2, <3>3, <3>4, <3>5, WorldKeeps, Numbered DEF Bidding!Next, Everybody
  <2>2. CASE UNCHANGED Bidding!inviteVars
    BY <2>2, OtherStep, Shapes DEF Bidding!inviteVars
  <2> QED BY <2>1, <2>2
<1>2. InviteInv => SomebodyIsInvited
  <2> SUFFICES ASSUME InviteInv, NEW d \in Discoveries, run[d].pc = "nobody", NEW a \in steady[d]
               PROVE FALSE
    BY DEF SomebodyIsInvited, Bidding!SomebodyIsInvited, Bidding!At
  <2> QED BY DEF InviteInv, Served
<1> QED BY InviteBegins, <1>1, <1>2, PTL DEF Bidding!Spec
=============================================================================
