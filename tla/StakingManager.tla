--------------------------- MODULE StakingManager ---------------------------
(***************************************************************************)
(* The StakingManager contract: what agents stake is free, locked in jobs  *)
(* or unbonding, and a slash reaches all three.  Slashed GUARD waits in    *)
(* escrow until its appeal is decided or the window for one has closed.    *)
(* A transaction is one action; one that reverts is no step.  Whether the  *)
(* registry calls an agent active is left open.                            *)
(***************************************************************************)
EXTENDS Integers, FiniteSets, Functions

CONSTANTS
    Agents,             \* wallets that may stake
    Manager,            \* the contract's own GUARD account
    Treasury,
    NoAddress,          \* address(0)
    Amounts,            \* GUARD staked, unstaked, locked or unlocked in one call
    SlashRates,         \* basis points of the slash reasons
    MinStakeForActive,
    UnbondingPeriod,
    AppealWindow,
    InitialBalance,     \* GUARD an agent starts with
    MaxSlashes,         \* bound on nextSlashId
    MaxTime             \* bound on the clock

ASSUME AccountsAssumption ==
    /\ IsFiniteSet(Agents)
    /\ Manager # Treasury
    /\ Manager \notin Agents
    /\ Treasury \notin Agents
    /\ NoAddress \notin Agents

ASSUME AmountsAssumption ==
    /\ Amounts \subseteq Nat \ {0}
    /\ SlashRates \subseteq 1..10000
    /\ MinStakeForActive \in Nat \ {0}
    /\ UnbondingPeriod \in Nat
    /\ AppealWindow \in Nat
    /\ InitialBalance \in Nat
    /\ MaxSlashes \in Nat
    /\ MaxTime \in Nat

VARIABLES
    now,                \* block.timestamp
    paused,
    stakes,
    slashRecords, nextSlashId,
    slashEscrowBalance,
    agentTotalSlashed,
    balance             \* GUARD held by every account

vars == <<now, paused, stakes, slashRecords, nextSlashId, slashEscrowBalance,
          agentTotalSlashed, balance>>

-----------------------------------------------------------------------------

Accounts == Agents \cup {Manager, Treasury}

SlashIds == 1..MaxSlashes

StakeStatus == {"ACTIVE", "UNBONDING", "WITHDRAWN", "FROZEN"}

StakeInfo == [known : BOOLEAN, total : Nat, locked : Nat, available : Nat,
              unbonding : Nat, completeAt : Nat, status : StakeStatus]

NoStake == [known |-> FALSE, total |-> 0, locked |-> 0, available |-> 0,
            unbonding |-> 0, completeAt |-> 0, status |-> "ACTIVE"]

AppealStatus == {"NONE", "PENDING", "APPROVED", "DENIED"}

SlashRecord == [agent : Agents \cup {NoAddress}, amount : Nat, appeal : AppealStatus,
                deadline : Nat, filed : BOOLEAN]

NoRecord == [agent |-> NoAddress, amount |-> 0, appeal |-> "NONE",
             deadline |-> 0, filed |-> FALSE]

\* Indices up to the last slash; the others hold no record yet.
Slashes == 1..(nextSlashId - 1)

Min2(m, n) == IF m < n THEN m ELSE n

\* GUARD moves if the payer has it; otherwise the transaction reverts.
Transfer(payer, payee, amount) ==
    /\ balance[payer] >= amount
    /\ balance' = [balance EXCEPT ![payer] = @ - amount, ![payee] = @ + amount]

(***************************************************************************)
(* Faulty variants, one plausible slip each; no specification uses them.   *)
(***************************************************************************)
SkipsLocked(s, amount) ==               \* takes the free stake and what is unbonding only
    LET free == Min2(amount, s.available)
        bond == Min2(amount - free, s.unbonding)
    IN [s EXCEPT !.total = @ - amount, !.available = @ - free, !.unbonding = @ - bond]

ThawedByDeposit(s, amount) ==           \* adding stake also ends a freeze
    [s EXCEPT !.known = TRUE, !.total = @ + amount, !.available = @ + amount,
              !.status = IF s.total + amount >= MinStakeForActive THEN "ACTIVE" ELSE @]

StaysPending(r) == r                    \* the denial is not recorded

(***************************************************************************)
(* The operators of the contract.                                          *)
(***************************************************************************)
\* stake: a wallet that had withdrawn is ACTIVE again with the minimum.
Deposited(s, amount) ==
    [s EXCEPT !.known = TRUE,
              !.total = @ + amount,
              !.available = @ + amount,
              !.status = IF @ = "WITHDRAWN" /\ s.total + amount >= MinStakeForActive
                         THEN "ACTIVE" ELSE @]

Unbonding(s, amount, at) ==
    [s EXCEPT !.available = @ - amount, !.unbonding = amount, !.completeAt = at]

\* completeUnstake: the unbonding part is gone, and with it, maybe, the rest.
Withdrawn(s) ==
    LET left == s.total - s.unbonding IN
    [s EXCEPT !.total = left,
              !.unbonding = 0,
              !.completeAt = 0,
              !.status = IF left = 0 THEN "WITHDRAWN"
                         ELSE IF @ = "UNBONDING" /\ left >= MinStakeForActive
                         THEN "ACTIVE" ELSE @]

SlashShare(s, bps) == (s.total * bps) \div 10000

\* _deductSlash: available stake first, then locked, then unbonding.
Deducted(s, amount) ==
    LET free   == Min2(amount, s.available)
        locked == Min2(amount - free, s.locked)
        bond   == Min2(amount - free - locked, s.unbonding)
    IN [s EXCEPT !.total = @ - amount,
                 !.available = @ - free,
                 !.locked = @ - locked,
                 !.unbonding = @ - bond]

\* initiateSlash: short of the minimum, or slashed in full, the agent freezes.
Frozen(s, bps) ==
    IF s.total < MinStakeForActive \/ bps = 10000
    THEN [s EXCEPT !.status = "FROZEN"] ELSE s

\* resolveAppeal: the slashed amount is back, and with the minimum so is the agent.
Restored(s, amount) ==
    [s EXCEPT !.total = @ + amount,
              !.available = @ + amount,
              !.status = IF @ = "FROZEN" /\ s.total + amount >= MinStakeForActive
                         THEN "ACTIVE" ELSE @]

NewRecord(a, amount) ==
    [agent |-> a, amount |-> amount, appeal |-> "PENDING",
     deadline |-> now + AppealWindow, filed |-> FALSE]

\* Nobody appealed in time.
Expired(r) == r.appeal = "PENDING" /\ now > r.deadline /\ ~r.filed

Denied(r) == [r EXCEPT !.appeal = "DENIED"]

-----------------------------------------------------------------------------

Stake(a, amount) ==
    /\ ~paused
    /\ Transfer(a, Manager, amount)
    /\ stakes' = [stakes EXCEPT ![a] = Deposited(@, amount)]
    /\ UNCHANGED <<now, paused, slashRecords, nextSlashId, slashEscrowBalance, agentTotalSlashed>>

\* Nothing else of the agent's is unbonding.
NothingUnbonding(a) == stakes[a].unbonding = 0

RequestUnstake(a, amount) ==
    /\ ~paused
    /\ stakes[a].known
    /\ stakes[a].status = "ACTIVE"
    /\ amount <= stakes[a].available
    /\ NothingUnbonding(a)
    /\ stakes[a].total - amount >= MinStakeForActive
    /\ stakes' = [stakes EXCEPT ![a] = Unbonding(@, amount, now + UnbondingPeriod)]
    /\ UNCHANGED <<now, paused, slashRecords, nextSlashId, slashEscrowBalance,
                   agentTotalSlashed, balance>>

\* Allowed while paused and in any status.
CompleteUnstake(a) ==
    /\ stakes[a].unbonding > 0
    /\ now >= stakes[a].completeAt
    /\ Transfer(Manager, a, stakes[a].unbonding)
    /\ stakes' = [stakes EXCEPT ![a] = Withdrawn(@)]
    /\ UNCHANGED <<now, paused, slashRecords, nextSlashId, slashEscrowBalance, agentTotalSlashed>>

Deactivate(a) ==
    /\ ~paused
    /\ stakes[a].known
    /\ stakes[a].status \in {"ACTIVE", "UNBONDING"}
    /\ stakes[a].locked = 0
    /\ NothingUnbonding(a)
    /\ stakes[a].available > 0
    /\ stakes' = [stakes EXCEPT ![a] =
                    [Unbonding(@, @.available, now + UnbondingPeriod) EXCEPT !.status = "UNBONDING"]]
    /\ UNCHANGED <<now, paused, slashRecords, nextSlashId, slashEscrowBalance,
                   agentTotalSlashed, balance>>

\* An authorised contract locks stake for a job, and unlocks it afterwards.
LockStake(a, amount) ==
    /\ stakes[a].known
    /\ amount <= stakes[a].available
    /\ stakes' = [stakes EXCEPT ![a].available = @ - amount, ![a].locked = @ + amount]
    /\ UNCHANGED <<now, paused, slashRecords, nextSlashId, slashEscrowBalance,
                   agentTotalSlashed, balance>>

UnlockStake(a, amount) ==
    /\ stakes[a].known
    /\ amount <= stakes[a].locked
    /\ stakes' = [stakes EXCEPT ![a].locked = @ - amount, ![a].available = @ + amount]
    /\ UNCHANGED <<now, paused, slashRecords, nextSlashId, slashEscrowBalance,
                   agentTotalSlashed, balance>>

\* An authorised contract slashes; the GUARD stays here, in escrow.
InitiateSlash(a, bps) ==
    /\ ~paused
    /\ nextSlashId <= MaxSlashes
    /\ stakes[a].known
    /\ stakes[a].total > 0
    /\ \E amount \in 0..stakes[a].total :
         /\ amount = SlashShare(stakes[a], bps)
         /\ stakes' = [stakes EXCEPT ![a] = Frozen(Deducted(@, amount), bps)]
         /\ slashRecords' = [slashRecords EXCEPT ![nextSlashId] = NewRecord(a, amount)]
         /\ slashEscrowBalance' = slashEscrowBalance + amount
         /\ agentTotalSlashed' = [agentTotalSlashed EXCEPT ![a] = @ + amount]
    /\ nextSlashId' = nextSlashId + 1
    /\ UNCHANGED <<now, paused, balance>>

FileAppeal(i) ==
    /\ slashRecords[i].appeal = "PENDING"
    /\ now <= slashRecords[i].deadline
    /\ slashRecords' = [slashRecords EXCEPT ![i].filed = TRUE]
    /\ UNCHANGED <<now, paused, stakes, nextSlashId, slashEscrowBalance, agentTotalSlashed, balance>>

Appealed(i) == slashRecords[i].appeal = "PENDING" /\ slashRecords[i].filed

\* resolveAppeal(i, true): out of escrow, back to the agent.
ApproveAppeal(i) ==
    /\ Appealed(i)
    /\ slashEscrowBalance >= slashRecords[i].amount
    /\ agentTotalSlashed[slashRecords[i].agent] >= slashRecords[i].amount
    /\ stakes' = [stakes EXCEPT ![slashRecords[i].agent] = Restored(@, slashRecords[i].amount)]
    /\ slashEscrowBalance' = slashEscrowBalance - slashRecords[i].amount
    /\ agentTotalSlashed' = [agentTotalSlashed EXCEPT ![slashRecords[i].agent] = @ - slashRecords[i].amount]
    /\ slashRecords' = [slashRecords EXCEPT ![i].appeal = "APPROVED"]
    /\ UNCHANGED <<now, paused, nextSlashId, balance>>

\* resolveAppeal(i, false): out of escrow, to the treasury.
DenyAppeal(i) ==
    /\ Appealed(i)
    /\ slashEscrowBalance >= slashRecords[i].amount
    /\ Transfer(Manager, Treasury, slashRecords[i].amount)
    /\ slashEscrowBalance' = slashEscrowBalance - slashRecords[i].amount
    /\ slashRecords' = [slashRecords EXCEPT ![i] = Denied(@)]
    /\ UNCHANGED <<now, paused, stakes, nextSlashId, agentTotalSlashed>>

\* Records nobody appealed in time.
ExpiredSlashes == {i \in Slashes : Expired(slashRecords[i])}

\* GUARD that the slashes of a set took.
Taken(slashes) == SumFunctionOnSet([i \in SlashIds |-> slashRecords[i].amount], slashes)

\* finalizeExpiredAppeals: all of them in one call, which reverts when the
\* escrow is short.
FinalizeExpiredAppeals ==
    /\ ExpiredSlashes # {}
    /\ \E amount \in 0..slashEscrowBalance :
         /\ amount = Taken(ExpiredSlashes)
         /\ Transfer(Manager, Treasury, amount)
         /\ slashEscrowBalance' = slashEscrowBalance - amount
    /\ slashRecords' = [i \in SlashIds |->
                          IF i \in ExpiredSlashes THEN Denied(slashRecords[i]) ELSE slashRecords[i]]
    /\ UNCHANGED <<now, paused, stakes, nextSlashId, agentTotalSlashed>>

SetPaused(p) ==
    /\ paused # p
    /\ paused' = p
    /\ UNCHANGED <<now, stakes, slashRecords, nextSlashId, slashEscrowBalance,
                   agentTotalSlashed, balance>>

Tick ==
    /\ now < MaxTime
    /\ now' = now + 1
    /\ UNCHANGED <<paused, stakes, slashRecords, nextSlashId, slashEscrowBalance,
                   agentTotalSlashed, balance>>

-----------------------------------------------------------------------------

Init ==
    /\ now = 0
    /\ paused = FALSE
    /\ stakes = [a \in Agents |-> NoStake]
    /\ slashRecords = [i \in SlashIds |-> NoRecord]
    /\ nextSlashId = 1
    /\ slashEscrowBalance = 0
    /\ agentTotalSlashed = [a \in Agents |-> 0]
    /\ balance = [c \in Accounts |-> IF c \in Agents THEN InitialBalance ELSE 0]

AgentStep(a) ==
    \/ \E amount \in Amounts : Stake(a, amount) \/ RequestUnstake(a, amount)
    \/ CompleteUnstake(a)
    \/ Deactivate(a)

SlasherStep(a) ==
    \/ \E amount \in Amounts : LockStake(a, amount) \/ UnlockStake(a, amount)
    \/ \E bps \in SlashRates : InitiateSlash(a, bps)

AppealStep(i) == FileAppeal(i) \/ ApproveAppeal(i) \/ DenyAppeal(i)

Next ==
    \/ \E a \in Agents : AgentStep(a) \/ SlasherStep(a)
    \/ \E i \in Slashes : AppealStep(i)
    \/ FinalizeExpiredAppeals
    \/ \E p \in BOOLEAN : SetPaused(p)
    \/ Tick

Spec == Init /\ [][Next]_vars

-----------------------------------------------------------------------------
(***************************************************************************)
(* Properties.                                                             *)
(***************************************************************************)

TypeOK ==
    /\ now \in Nat
    /\ paused \in BOOLEAN
    /\ stakes \in [Agents -> StakeInfo]
    /\ slashRecords \in [SlashIds -> SlashRecord]
    /\ nextSlashId \in 1..(MaxSlashes + 1)
    /\ slashEscrowBalance \in Nat
    /\ agentTotalSlashed \in [Agents -> Nat]
    /\ balance \in [Accounts -> Nat]

\* Total and parts agree, and with them the status: a wallet with nothing left
\* is out or frozen, one that is out has nothing unbonding, and one that never
\* staked has the zero record.  Every function keeps a part of this; a slash
\* must take from the parts exactly what it takes from the total.
PartsMakeTheTotal ==
    \A a \in Agents : LET s == stakes[a] IN
      /\ s.total = s.available + s.locked + s.unbonding
      /\ ~s.known => s = NoStake
      /\ s.known /\ s.total = 0 => s.status \in {"WITHDRAWN", "FROZEN"}
      /\ s.status = "WITHDRAWN" => s.unbonding = 0

\* Every agent's GUARD is accounted for: what it holds, has staked and was
\* slashed for good or for now add up to what it brought, through any sequence
\* of stakes, unbondings, slashes and appeals.
NoStakeLost ==
    \A a \in Agents : balance[a] + stakes[a].total + agentTotalSlashed[a] = InitialBalance

\* An undecided slash is some agent's, who has a record to restore it to.
PendingIsSomeones ==
    \A i \in SlashIds : slashRecords[i].appeal = "PENDING" =>
      slashRecords[i].agent \in Agents /\ stakes[slashRecords[i].agent].known

IInv == TypeOK /\ PartsMakeTheTotal /\ NoStakeLost /\ PendingIsSomeones

\* The escrow is exactly what undecided slashes took, the account covers all
\* stakes and the escrow, and the treasury has what denied slashes took: every
\* unbonding, restoration and denial can be paid, and none is paid twice.
EscrowBacked ==
    /\ slashEscrowBalance = Taken({i \in Slashes : slashRecords[i].appeal = "PENDING"})
    /\ balance[Treasury] = Taken({i \in Slashes : slashRecords[i].appeal = "DENIED"})
    /\ balance[Manager] = slashEscrowBalance
                            + SumFunction([a \in Agents |-> stakes[a].total])

\* A frozen agent is active again only when the owner approves an appeal of
\* its; otherwise it leaves the freeze only with nothing left.  Neither new
\* stake nor a finished unbonding thaws it.
FreezeHolds ==
    [][\A a \in Agents :
         stakes[a].status = "FROZEN" /\ stakes'[a].status # "FROZEN" =>
           \/ \E i \in Slashes : /\ slashRecords[i].agent = a
                                 /\ slashRecords[i].appeal = "PENDING"
                                 /\ slashRecords'[i].appeal = "APPROVED"
           \/ stakes'[a].status = "WITHDRAWN" /\ stakes'[a].total = 0]_vars
=============================================================================
