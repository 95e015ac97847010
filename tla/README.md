# AuditGuard: a verification of the audit marketplace

AuditGuard is a marketplace for audits of smart contracts. A scanner discovers
contracts, an orchestrator posts an audit job for each, agents bid on the jobs with
collateral, the orchestrator picks the winners, the winners audit, trade what they found, and a
report agent makes one report of it. Contracts on Hedera hold the stakes, the collateral and the
payments (all in the GUARD token); a dashboard and an iNFT service show what happens.

This directory holds TLA+ specifications of the parts of it where money, work or progress can be
lost by an order of steps that nobody wrote a test for, TLC configurations that check them on
small instances, and TLAPS proofs of the most important properties for every value of the
constants. Source paths below leave out the prefix `src/`; `contracts/` stands for
`packages/contracts/contracts/`, `orchestrator.js` for `orchestrator/src/orchestrator.js`.

 1. [The system](#1-the-system)
 2. [What is modelled, and how](#2-what-is-modelled-and-how)
 3. [What the runs check](#3-what-the-runs-check)
 4. [What is proved](#4-what-is-proved)
 5. [Where code and documentation differ, and what else was seen](#5-where-code-and-documentation-differ-and-what-else-was-seen)
 6. [What is not modelled](#6-what-is-not-modelled)
 7. [Plan](#7-plan)

To run: `tlc -config AuctionPool.cfg MCAuditAuction` model-checks one instance,
`tlapm StakingManager_proofs.tla` checks the proofs of one module. `PROJECT.json` lists every run
with the module and the `.cfg` it uses, the source lines of each definition, the hazards, and for
each property a faulty variant of the code that violates it.

## 1. The system

### Components

Contracts are sequential: a transaction runs alone and reverts as a whole. What is hard
about them is long sequences of calls by several parties over one balance. Orchestrator, agents,
dashboard and iNFT service are single-threaded JavaScript: what is hard about them is everything that
happens between two `await`s, and what a failed call or a restart leaves behind.

| Component | State | Operations | What must hold |
|---|---|---|---|
| **AuditAuction** (`contracts/AuditAuction.sol`) | jobs, bids, paid winners, escrow numbers, active ids; one GUARD account for all jobs | create a job; submit and lower a bid; select winners; release escrow; slash a bid; complete; cancel; pause, fee | collateral comes back exactly once; one payment per winner; bids frozen after the auction; jobs do not pay with each other's money |
| **AgentRegistry** (`contracts/AgentRegistry.sol`) | profiles: tier, status, stake, reputation, completed jobs; one GUARD account | register, add and withdraw stake, promotion, leave; score, record a job, slash; seed, pause | status and stake agree; stakes are covered; nobody's stake is lost |
| **StakingManager** (`contracts/StakingManager.sol`) | stake split into available, locked and unbonding; slash records with appeals; slash escrow | stake, request and complete unbonding, leave; lock and unlock; slash; appeal, decide, expire | parts make the total in any order; every slash is settled once; a freeze holds |
| **DelegatedStaking** (`contracts/DelegatedStaking.sol`) | pools per agent, delegations, reward accumulator | delegate, unbond, complete, distribute, claim (each in GUARD or HBAR); propagate a slash | totals follow the delegations; stake and rewards are covered despite rounding; rewards only for stake that was there |
| **SubAuction** (`contracts/SubAuction.sol`) | sub-jobs, bids, escrowed GUARD | create, bid, select, deliver, accept, dispute, resolve, claim, cancel | escrow and collateral leave once, to the right side |
| **PaymentSettlement** (`contracts/PaymentSettlement.sol`) | settlement records, split rules, one GUARD account | deposit, settle a job or a sub-job, withdraw excess | one settlement per job; no deposit left behind |
| **AuditScheduler** (`contracts/AuditScheduler.sol`) | schedules of repeated audits, each with one pending Hedera schedule | schedule, cancel, trigger, redeploy detected | one chain of pending schedules per contract |
| **AuditVault** (`contracts/AuditVault.sol`) | deposits, reservations, bounty pool, monitoring subscription | deposit, withdraw, reserve, draw, release, bounty; apply, claim, cancel monitoring; record an audit | what is reserved stays there; a monitor is paid for its time only |
| **DataMarketplace** (`contracts/DataMarketplace.sol`) | listings, purchases | list, purchase, renew, rate, delist | access lasts as long as was paid for |
| **Treasury, GuardExchange, HbarPool, VaultFactory, AuditBudgetVault** | fee shares; two balances; indices | single calls | arithmetic |
| **Orchestrator: discovery** (`orchestrator.js`) | discoveries seen, jobs, a lock on `createAuditJob`, roster, cache | deduplicate, create a job, predict its id, invite | one job per discovery, none lost, somebody invited |
| **Orchestrator: winner selection** | per job: entry, timer; in-flight maps; reconcile flag | timer, reconcile loop, report handler, start-up, contract events; read the chain, select or cancel, retry | one selection at a time, best bid wins, every expired auction ends |
| **Orchestrator: reports and settlement** | findings, report and settled flags of jobs | hear findings, publish, deposit, settle | settled once, and in the end |
| **Orchestrator: schedules and slashes** | a queue of failed enrichments; pending slashes | hear triggers, enrich, retry; pass slashes on after the appeal | every trigger discovered, every final slash passed on once |
| **Orchestrator: write queue** (`orchestrator/src/contract-client.js`) | queue, running flag, streak of high priority | enqueue, drain | one transaction at a time; no starvation |
| **Agents: lock and bidding** (`agents/shared/job-lock.ts`, `agents/{static-analysis,fuzzer,llm-contextual}`) | a map of promises; jobs bid on, won, done; a bid queue | run alone per job; invitation, checks, bid with retries, award, expiry | handlers and bids take turns; one audit per job |
| **Agents: audits and reports** (the same, `dependency`, `report`, the findings store) | cycles, purchases, sub-auctions, submissions, findings | audit, sell, buy, subcontract, store, aggregate, publish | counted once and shown; every audit ends; what is heard is reported |
| **Agents: scanner** | cursor, seen contracts | overlapping scan cycles | published once, none skipped |
| **Dashboard** (`packages/dashboard`) | a store, cursors, polls in flight | poll contracts and messages, reconnect | the store says what the chain does, and keeps up |
| **iNFT service** (`packages/inft`) | metadata in memory and in a file | listen, mint, discover | the iNFT says in the end what the chain says |
| **Analysis services, events API, SDK, scripts, alert and Slither agents** | in-memory job lists, a database, none | HTTP, external tools | |

### How they interact

    scanner --HCS--> orchestrator --createAuditJob--> AuditAuction <--submitBid-- agents
                          |                              |   |
                          | selectWinners / cancelJob    |   +-- isActiveAgent, updateReputation,
                          |  (via the write queue)       |       slashAgent --> AgentRegistry
                          +------------------------------+
    agents --findings (HCS, store)--> report agent --report--> orchestrator --> PaymentSettlement
    agents --sub-jobs--> SubAuction         agents --listings, purchases--> DataMarketplace
    AuditScheduler --AuditTriggered--> orchestrator --discovery--> itself
    StakingManager --slash events--> orchestrator --propagateSlash--> DelegatedStaking <--propagateSlash-- StakingManager
    contracts --logs--> dashboard, iNFT service         HCS --> events API --> dashboard

* Contracts call contracts synchronously. AuditAuction asks AgentRegistry whether a bidder is active
  (`submitBid`), and reports completion and slashes to it inside `try/catch`, so a refusal there undoes
  nothing here (`AuditAuction.sol:600-606`). SubAuction reports outcomes without `try`: a refusal reverts the call.
* The orchestrator reads contracts and sends transactions with awaited RPC calls that may fail before or
  after the transaction was accepted. All of its transactions share one wallet, hence the write queue.
* Agents and orchestrator exchange messages over the Hedera consensus service (HCS). An agent announces a bid
  when it sends the transaction, so the message may come before the bid is on chain, after it, or without it.
* Everything the orchestrator and the agents need between two steps is in memory; the chain is the only record
  that a restart is sure to find. Two iNFT processes share one file, which each overwrites as a whole.

### What is hard

* **Shared balances.** Each contract keeps one GUARD account for all of its users. A number in a job's record is
  a promise on that account, and only sequences of calls of several users show whether it is covered.
* **Stale reads.** Winner selection reads status, deadline, number of bids and bids over four awaits before it
  acts; the settlement, the invitations and the dashboard do the like.
* **Partial failure.** A failed read has a default: zero bids, the list heard so far, no winner, nothing
  stored. A receipt can be lost although the transaction is mined.
* **Restarts.** Timers, in-flight maps, pending slashes, the enrichment queue and submissions vanish.
* **Rounding and freezing.** Slash shares round down to nothing or take everything; rewards are booked per
  token and rounded twice; a monitor's pay is rounded and capped at each claim.
* **Liveness.** An in-flight entry that is never removed, a streak that never ends, a report window that is
  never closed, a poll whose flag is never released.

`PROJECT.json` lists forty such places under "hazards", with line and properties. Not on that list for space, and
without a property: `tx.wait()` has no timeout (`contract-client.js:260`), so that a dropped transaction leaves its caller and the
job's in-flight entry waiting for ever; the cap, cursor and cooldown of the reconcile loop (`orchestrator.js:2744`); the escape from a slash by unbonding
(`DelegatedStaking.sol:603`) and re-registration after one (`AgentRegistry.sol:335`); sub-jobs settled
repeatedly (`PaymentSettlement.sol:306`); the in-memory jobs of the fuzzer service.

## 2. What is modelled, and how

| Module | Models | Checked by |
|---|---|---|
| `AuditAuction` | `contracts/AuditAuction.sol` | `MCAuditAuction` |
| `CollateralEscrow` | what an auction promises about collateral: an abstract specification | implemented by `AuditAuction` and, as `Tender` of `ServiceContracts`, by `SubAuction` |
| `AgentRegistry` | `contracts/AgentRegistry.sol` | `MCAgentRegistry` |
| `Invitations` | `orchestrator.js`: roster, cache, whom to invite, an instance of `InvitationProcesses` | `MCAgentRegistry` |
| `StakingManager` | `contracts/StakingManager.sol` | `MCStakingManager` |
| `DelegatedStaking` | `contracts/DelegatedStaking.sol` | `MCDelegatedStaking` |
| `AuditVault`, `DataMarketplace`, `SubAuction` | the contracts of these names, instances of `ServiceContracts` | `MCDelegatedStaking` |
| `WinnerSelection` | `orchestrator.js`: selection and close | `MCWinnerSelection`, `MCOrchestrator` |
| `ScheduledAudits` | `contracts/AuditScheduler.sol` and what the orchestrator makes of its events, an instance of `OrchestratorProcesses` | `MCOrchestrator` |
| `SlashRelay` | `StakingManager.sol` and `orchestrator.js`: from a slash to `propagateSlash`, an instance of `OrchestratorProcesses` | `MCOrchestrator` |
| `JobSettlement` | `orchestrator.js`: from findings to `settleJob`, with the two contracts as it uses them, an instance of `ServiceProcesses` | `MCServices` |
| `JobIntake` | `orchestrator.js`: from a discovery to a job, an instance of `ServiceProcesses` | `MCServices` |
| `Scanner` | `agents/scanner/index.ts`: the cycles, an instance of `ServiceProcesses` | `MCServices` |
| `AgentBidding` | the three auditing agents from invitation to award, `job-lock.ts` | `MCAgentBidding` |
| `AuditPipeline` | the audits, the report market, the dependency agent, the findings store, the report agent, an instance of `PipelineProcesses` | `MCAuditPipeline` |
| `WriteQueue` | `contract-client.js`: the queue | `MCClients` |
| `TwoClassQueue` | what the queue promises its callers: an abstract specification | implemented by `WriteQueue` |
| `DashboardFeed` | `packages/dashboard`: polls and store, an instance of `DashboardProcess` | `MCClients` |
| `InftMirror` | `packages/inft`: the iNFT of a job | `MCClients` |
| `..._proofs` | | theorems and proofs; `Contracts_proofs` has those of `AgentRegistry`, `AuditVault`, `DataMarketplace`, `SubAuction` and `Invitations`, `Orchestrator_proofs` those of `WinnerSelection`, `ScheduledAudits` and `SlashRelay`, `Agents_proofs` those of `AgentBidding` and `AuditPipeline`, `Services_proofs` those of `WriteQueue`, `JobSettlement`, `JobIntake`, `Scanner` and `DashboardFeed` |
| `SumLemmas` | | sums over finite sets, for the proofs |

### Conventions

A contract's transaction is one action, and one that reverts is no step: its `require`s are guards. A
GUARD transfer debits one account and credits another and needs the debited account to hold enough
(the Hedera token service does this; the repository's `MockHTS.sol` does not).

In JavaScript an action is the code from one `await` to the next; a record says for each call in flight what it
knows and where it awaits (`At(c, "...")`). Every awaited call may fail, up to a bound (`MaxFailures`,
`MaxTroubles`, ...), and a transaction whose sender gave up may still be mined.

What the functions make of one record is an operator of its own (`Deducted`, `Slashed`, `Joined`, `Enqueued`,
...), and an action says which records change and which account pays. A few faulty variants of those operators
stand together in each module under a heading that says so; no specification uses them, they serve to see that a
property would notice the slip.

**Side by side.** Four MC modules run several small specifications, one per behaviour: a variable `part`, which
never changes, says which, and the others stay where they begin. These specifications share no state and are not
composed; they are together because they belong to one area of the system, and the number of
states is the sum of theirs. Fairness of a part is demanded in its own behaviours.

### The contracts

**AuditAuction.** `job[j]` is `jobs[jobId]` with `isWinnerPaid` and `paidWinnerCount`; `bid[j][a]` is `_jobBids`
with `hasAgentBid`: one bid per agent and job, so the array of bids is a function of the agent, and bid indices
are left out here (they matter to `WinnerSelection`, which has them). `active[a]` is the registry's answer and
may change at any moment. `Fund` is a plain transfer to the contract's account, which is the only way a budget
can get there: no function of the contract takes one in. `SelectWinners` pays fee and refunds, `ReleaseEscrow`
payout and collateral, out of the pooled `balance[Contract]`. The setters of the registry, scheduler,
orchestrator and treasury addresses are left out.

**AgentRegistry.** `agents[a]` is the profile without its display fields; `Known` is `agentAddress # 0`. `seized`
is a history variable, the GUARD slashed from each agent. `orchestrator` and `auctionContract` are set once, by
`SetOrchestratorAndAuction`, to any of `Callers`.

**StakingManager.** `stakes[a]` is `StakeInfo`; `slashRecords`, `nextSlashId`, `slashEscrowBalance` and
`agentTotalSlashed` are the contract's. `Deducted` is `_deductSlash`: available, then locked, then unbonding. The
owner may decide an appeal at any time after it was filed; `FinalizeExpiredAppeals` takes all expired ones in one
call. Left out: the registry's `isActiveAgent` (whoever stakes is taken to be registered), setters of rates and
periods (constants), reputation calls in `try/catch`, snapshots, the running total of all slashes.
`delegatedStaking` is unset, as the deployment leaves it. The status of an agent that was frozen and has unbonded
all it had left becomes WITHDRAWN, and it may stake again: that is what the code does, and `FreezeHolds` says so.

**DelegatedStaking.** `agentPools` and `delegations` are the contract's. The calls in HBAR are the calls in GUARD
with `HbarPool` as the payer or payee. `PRECISION` is a small number in place of 10^18, so that rounding happens
in every run. Two behaviours to know of: rewards that were settled but not claimed stay in a closed delegation
until its owner delegates again, and a slash reduces a delegation before its rewards were settled
(`DelegatedStaking.sol:619`), so rewards earned on the whole are computed on what is left. Widths of `uint96` are
not modelled: sums of GUARD do not reach them.

**SubAuction.** Sub-jobs are numbered; `subBids[j]` is a function of the agent (one bid per agent and sub-job).
`net[j][a]` is a history variable, what each agent has paid to and got from the contract over sub-job `j`: what
the contract holds of it is the negative sum. `late` says of the two deadlines of a sub-job only whether they have passed. The registry may
be one that refuses to score (`scorer`): then `AcceptResult` and `ClaimExpired` revert, as they do under the
wiring of the repository (section 5).

**AuditVault.** The contract's variables under their names. Drawers are fixed at creation, since the factory
never changes them. Of the last audit the model keeps whether there was one and whether there was GUARD then, so
that the interval may be over and the balance may have doubled at any time. `spent`, `served` and `paid` are
history: GUARD that left other than to depositors, what each monitor's rate has amounted to for the time it was
the monitor, and its pay. `WEEK` is a few moments long, so that claims fall within and beyond a window.

**DataMarketplace.** Listings and purchases; of a sale only the entry it makes, since it leaves no GUARD in the
contract. `entitled` is history: until when the payments of a buyer reach.

### The orchestrator

**JobIntake** is `handleDiscovery`: each discovery is a handler of its own, which drops duplicates within the
window of a mark, creates a job under the lock of `createAuditJob`, reads the receipt or makes do with the id that
was expected, records the job, and sets the timer. `mishaps` collects which kinds of failure have happened, up to
`MaxMishaps` (an unread receipt, a failed creation, a mark that the creation outlasted, a job that somebody else posted).

**Invitations** is the end of the same handler: which agents of the roster are eligible, whether the registry
calls them active (with a cache of fifteen seconds), and the rebuilding of the roster when nobody is left. Each
discovery has a run of its own over one roster and one cache; the registry changes under them.
A read of the registry is awaited: `seen` holds the standings its agent had meanwhile, any of which the answer may
give, and what the cache stored in between is overwritten. `steady[d]` is history: the agents that were active and fit all
the time of the run, with no older answer on its way when it began, as long as nothing failed.

**WinnerSelection** is the life of one auction in the orchestrator. The chain is `status`, `bids` in order of
submission, `expired`, and `pool`, the wallet's transactions that are sent and not mined yet. The memory is the
job's entry (`job`), its timer, the in-flight maps (`selecting`, `closing`), the flag of the reconcile loop, and
`call`: what each call in flight knows and where it awaits.

| Action | Code |
|---|---|
| `TimerFires`, `ReportPublished`, `ReconcileStarts`, `Bootstrap` | what asks for a selection |
| `ReadJob`, `ReadCount`, `ReadHinted` | `requestWinnerSelection`, `evaluateWinnerSelectionReadiness` |
| `Hydrate`, `Precheck`, `ReadBids`, `SendSelect`, `SelectTransient`, `SelectReceipt` | `selectWinnersOnChain` |
| `SendCancel`, `CancelTransient`, `CancelReceipt`, `JoinClose` | `closeExpiredAuction` |
| `Inspect`, `InspectCount` | the reconcile loop |
| `HandleBidSubmitted`, `WinnersSelectedEvent`, `JobCancelledEvent` | handlers of messages and events |
| `SubmitBid`, `Expire`, `Mine` | the chain |
| `Crash` | a restart: the memory is empty, what was sent is still on its way |

Abstractions: status and list of bids are read in one step where the code reads one directly after the other;
publishing HCS messages does not interleave; block time and local clock agree; the cooldown, the cap and the
cursor of the reconcile loop are left out, since there is one job; an entry of the map that is replaced and the
object a call still holds are one; `wait()` that hangs for a dropped transaction is not modelled.
`auctionCloseSingleflightEnabled` is on. `Rehydrate` is a constant; it is TRUE in the runs, as in
`.env.example:122`.

**JobSettlement** is the way from findings to payment. Here the entry that a handler holds and the entry in the
map are two things: `entries` is the list of all objects ever made for the job, and a handler keeps the index of
the one it found. A report is published by number of findings or by timer, and each publication (or message) starts a
handler that hydrates the job, tests the flag, deposits GUARD and calls `settleJob`, whose receipt is not awaited
(`pool`). `payable` is whether the auction accepts `completeJob`; `opened` whether this process made the job's entry.

**ScheduledAudits** has the contract and the orchestrator together: `sched` and `pending` are AuditScheduler's
record and the network's schedules, `handler`, `queue` and `loop` are the event handlers, the queue of failed
enrichments and the flag of the timer that works through it. **SlashRelay** has of StakingManager the status of
each slash, of DelegatedStaking the number of calls that took effect, and in between the events on their way
(`heralds`), which may be handled in any order, and `pendingSlashes`. In both loops a discovery has reached the topic
(`heard`) before its receipt settles; an entry queued meanwhile under the same key is deleted with the other (`eclipsed`).

Both contracts and the orchestrator have a say in who propagates a slash (`wiring`). With StakingManager told of DelegatedStaking
and obeyed by it (`deploy-delegated-staking.js:174`, `wire-contracts.js:72`), `initiateSlash` propagates at once and
the orchestrator's own call reverts; with the orchestrator obeyed (`wire-delegated-staking.js:93`) it is the other way round, also
when StakingManager calls in vain. `Due` says when delegators have to pay in each; an approved appeal gives them nothing back.

**WriteQueue.** `queue`, `running` and `streak` are `_writeQueue`, `_writeQueueRunning` and `_highPriorityStreak`
(counted up to the cap, above which nothing changes); `sending` is the task whose `sendFn` is awaited. `Drain` is
one turn of the loop, from the end of one send to the beginning of the next. `passing` and `passed` are history
variables for `BoundedOvertaking`.

### The agents

**AgentBidding.** Static-analysis, fuzzer and LLM agent run the same code with three differences, so there are
three families of actions (`StaticAgent`, `FuzzerAgent`, `LlmAgent`) over one state: handlers in flight, the map of
the lock with the caller each one is behind, the queue of bids with its drain loop, the marks of jobs bid on and
done, bids on chain and in flight. A submission that timed out may be mined later; a retry asks the chain first,
and that question may fail too. A restart empties the memory. `overlapped` is history: jobs for which two handlers
submitted at the same time.

**AuditPipeline.** Processes of one job after its award: the cycle of each winner (audit, listing, purchase of
another's findings, sub-auction for dependencies), the dependency agent, the findings store whose calls may fail
without an exception, and the report agent: submissions heard, window, aggregation, publication, deletion.
`strict` is the configuration in which a failed step ends a cycle. `excused` and `replayed` name what the
properties leave out: a store that could not be reached, a submission stored between fetch and deletion, and
submissions handed again to a restarted report agent.

**Scanner.** Cycles started by `setInterval` overlap: each asks for a page of contracts behind the cursor,
publishes those not seen, at most `Cap`, and moves the cursor. `missed` is history: contracts that did not fit on a page.

### The clients

**DashboardFeed.** Two timers and the service of a reconnection over one store. A block holds one event; a poll
reads all blocks since the last one and handles them kind by kind, some of them after another await; so what it does to
the store is an operator for each kind, of the set of blocks that hold it (`BeforeAwait`, `AfterAwait`). `Legal` is what
the contracts guarantee of the events of one job and one sub-auction: which comes before which. `covered` is
history: blocks that were handled; `stale`: a poll of a stopped service has written since.

**InftMirror.** The event listener polls two contracts one after the other, applies each event in several
writes, and saves its cursor after the batch; a crash may fall between any two. The discovery listener, another
process, mints, and saves its own copy of the file over the listener's.

## 3. What the runs check

Passing runs:

| Run | Bounds | Properties |
|---|---|---|
| `auction_pool` | 2 agents, 2 jobs, prices and collaterals {20, 40}, budget 40, fee 5 %, 20 GUARD from outside | `IInv`, `PoolAccounting`, `SlashedJobNeverCompletes`, `BidsFrozenAfterAuction`, `PaidOnce`, `ImplementsEscrow` |
| `registry` | registry: 2 agents, 4 units = 100 GUARD, slashes of 25 % and all; invitations: 2 discoveries, 2 agents of which the first begins inactive, 1 failed read, 1 change of the registry | `IInv`, `StakesBacked`, `SomebodyIsInvited` |
| `staking_pool` | 2 agents, 2 slashes of 50 % or all, 2 moments of time | `IInv`, `EscrowBacked`, `FreezeHolds` |
| `delegation_pool` | delegation: 2 delegators, 2 agents, shares of 25 % and 50 %, slashes of 50 % or all; vault: 2 depositors, 2 monitors, 2 configurations, windows of 2 in 4 moments; market: 1 listing, 3 agents, 3 purchases, periods of 2 in 4 moments; sub-auction: 2 sub-jobs, 3 agents, collateral 5 | `DelegationsCovered`, `EarnedOnlyByDistribution`, `VaultWithinLimits`, `PaidTimeIsKept`, `SubJobsBalance` |
| `selection_faults` | 3 calls in flight, 2 agents, 2 attempts, 2 failures, 1 restart | `SingleFlight`, `TerminalIsFinal`, `BestBidWins` |
| `orchestrator_ends` | selection: 2 calls, 1 agent, 1 failure, 1 restart; schedules: 2 schedules, 2 triggers, 2 troubles; slashes: 2 slashes, 2 troubles, 4 wirings; all fair | `OneChain`, `ExpiredAuctionEnds`, `TriggeredIsDiscovered`, `DelegatorsPay` |
| `agent_bidding` | 3 handlers of one job, 2 attempts, 2 faults, 1 restart, each of the three agents | `HandlersTakeTurns`, `AuditedOnce` |
| `audit_pipeline` | up to 2 winners, 1 failure or restart, strict or not, fair | `CountedAndShown`, `CyclesEnd`, `HeardIsReported` |
| `services` | settlement: 3 handlers, 2 findings, 1 report message, 1 trouble; intake: 3 discoveries of 2 contracts, 2 attempts, 1 mishap; scanner: 2 cycles, 4 contracts, pages of 3, cap of 2, 1 failure; all fair | `SettledOnce`, `DueIsPaid`, `RecordsMatchChain`, `DiscoveredIsPosted`, `ScannedOnce` |
| `chain_clients` | queue: 2 high and 2 normal callers, cap 2; dashboard: 3 histories of 3 blocks, 2 services, 2 polls, 1 error; iNFT: 2 histories, 2 restarts; all fair | `BoundedOvertaking`, `EveryTaskIsSent`, `ImplementsTwoClasses`, `ShowsChain`, `KeepsUp`, `Mirrored` |

**Money.** `PoolAccounting` (auction), `StakesBacked` (registry), `EscrowBacked` (staking), `DelegationsCovered`, `SubJobsBalance` and
the first part of `VaultWithinLimits` each relate one account to all the records that make claims on it. A
function that moves GUARD without the matching record, or the reverse, breaks one of them, possibly many calls
later. `PoolAccounting` is an equation and not "the contract can pay": the latter is false, see section 5.
`SubJobsBalance` also says who has gained what when a sub-job ends, whichever of its five exits it took.
`VaultWithinLimits` also says that no order of claims, underbidding, cancelling and coming back pays a monitor more than its time; `PaidTimeIsKept`
is the like for subscribers.

**Once.** `BidsFrozenAfterAuction`: once the deadline has passed, or the auction is over, no bid is added or repriced, so that
the indices given to `selectWinners` keep their meaning. `PaidOnce` and the refinement `ImplementsEscrow` say that a deposit is taken,
bound and released once. In `CollateralEscrow` a deposit is *absent*, *open*, *bound*, then *settled*; the
refinement mapping reads the phase off the status and the collateral of a bid (`DepositPhase`), the amount off
the collateral, the owner's purse off its balance. `SettledOnce`, `AuditedOnce`, `ScannedOnce` and the safety part of `DelegatorsPay`
say the like of processes that are asked several times and may fail in between.

**Status.** `IInv` of registry and staking: no sequence of slashes, exits, returns, unbondings and appeals leaves
an agent ACTIVE without stake, or a total that differs from its parts. `FreezeHolds`: neither new stake nor a
finished unbonding thaws a frozen agent. `SlashedJobNeverCompletes` states the other side of a trap: a job with a
slashed winner is in progress for ever. `OneChain`: the schedule on record is the one that is pending, unless
somebody uses the orchestrator's address to trigger an audit by hand.

**Selection.** `SingleFlight` and `TerminalIsFinal` hold in spite of failures and restarts. `BestBidWins` holds
while the reads succeed; section 5 says what happens when they do not. It has three parts: the chain's winner is the best bid, the
winner announced is the chain's, and an auction that was cancelled had no bids. `ExpiredAuctionEnds` is
the reason the reconcile loop exists: timers are lost with the process, and a timer that fires while the chain
cannot be read is gone.

**Turns.** `HandlersTakeTurns` and `ImplementsTwoClasses` are about queues: of bids, where one task runs and whoever waits is
waiting for something that runs; of writes, where splicing into an array loses nothing, sends nothing twice
and keeps the order of each priority.

**Records.** `RecordsMatchChain`, `ShowsChain` and `Mirrored` compare what a process believes with the chain it
believes it of. Their exceptions are spelled out in the comment of each, and are listed in section 5.

**Progress.** `DueIsPaid`, `DiscoveredIsPosted`, `TriggeredIsDiscovered`, `HeardIsReported`, `CyclesEnd`, `EveryTaskIsSent` and `KeepsUp`
are liveness properties under the fairness below; each names the failures after which the code does not try again.

Two runs look for a state that the code or a comment rules out, and find it; section 5 quotes them.

### Why the bounds are enough

* *Auction*: two agents give a winner and a loser, two winners, or none; two jobs are the least in which one job's
  fee can be paid by the other's collateral. A payment of 19 empties the escrow of one bid of 20 and leaves some
  of two. The run has one fee and no price of zero, to keep two jobs affordable; the proofs have any.
* *Registry*: 4, 8 and 12 units are the three minimums, so that every promotion and every suspension is in reach;
  a quarter of 4 leaves 3, below the minimum. *Invitations*: two handlers are needed for one to prune the roster
  that the other reads; one failure and one change are what the property's exceptions need to be told apart. The change may
  make the first agent active while a rebuilding still waits for the answer that it is not.
* *Staking*: half of 2 is 1, below the minimum of 2; two slashes let one be denied while the other is appealed; one
  tick ends an unbonding and an appeal window.
* *Delegation*: rewards of 1 or 2 over 2 or 4 tokens at `PRECISION` 4 leave remainders in both divisions; the HBAR
  pool starts empty and pays with what was paid to it. *Vault*: two windows of two moments each, so that a claim falls
  within one, at its end and more than a window late; a rate of 1 in a window of 2 rounds. *Market*: a subscription can be renewed early, at its end
  and after it, and bought twice. *SubAuction*: a requester, a contractor and a loser, and two sub-jobs over one account; the
  collateral is odd, so that its shares are rounded.
* *Selection*: three calls are the timer, a report and the reconcile loop, each at any await. Two failures let the
  read of the count and the read of the bids, or two sends, fail in one history; one restart can fall between any
  two steps. The liveness run is smaller because TLC's check of a leads-to is.
* *Schedules and slashes*: a schedule and its successor twice over; two events of each slash that overtake each other.
* *Schedules*: two schedules are one and its replacement; two troubles let one trigger be queued and a second one be queued under
  its key while the first settles. *Slashes*: two, so that one expires while the other is appealed.
* *Bidding*: the lock fails with its third caller, so three handlers; two attempts are a submission and a retry.
* *Pipeline*: a fuzzer and a static or LLM winner make every trade of the report market; one failure or restart can
  strike any of the awaits.
* *Settlement, intake, scanner*: timer, number of findings and message each start a handler, so three; two discoveries of one
  contract and one of another; two cycles that overlap over a page that is full.
* *Queue*: two callers in each class are needed for an order within a class; a cap of two lets the streak be below,
  at and beyond it. Callers return for ever, so the histories are infinite although the states are finite.
* *Dashboard*: the histories pair the events whose handlers touch the same fields; two polls are one before and one
  after a reconnection. *iNFT*: one restart within a batch and one within its repetition.

Symmetry sets are used where the properties are invariants or action properties; runs with fairness have none.
In `delegation_pool` the two delegators are also the depositors, two of the traders and two of the bidders: no part treats
them differently, so that one set of permutations serves all four. The vault's monitors stay apart, since its first state names one.
Deadlock is not checked where a part comes to rest by design (a job that is settled, all blocks shown), or by the bounds.

### Fairness

Awaited promises settle, since every client has a timeout or is given one by the failure of the call; intervals
fire again and again; transactions that were accepted are mined. That is all that is assumed, by weak fairness of:

* `WinnerSelection`: the awaits of each call, `Mine`, and the start of the reconcile loop, a `setInterval`. Timers of
  a job get no fairness: they are lost at a restart. Events get none either.
* `WriteQueue`: a send settles (weak fairness), and a task that is being sent again and again succeeds in the end
  (strong fairness of `Resolve`). The latter is needed: the streak counts successes, so high-priority sends that
  fail for ever may overtake a normal one for ever. Callers get no fairness.
* `JobSettlement`: the timer of the publication, `Mine`, the handlers. `JobIntake`: the handlers.
* `Scanner`, `DashboardFeed`: the cycles and polls, their start included. `InftMirror`: `Listen`, since a poll sets its own timer again.
* `AuditPipeline`: the cycles, the dependency agent, the delivery of findings, the aggregation.
* `ScheduledAudits`: the handlers and `Retrying`. `SlashRelay`: the relay of each slash.

Nothing is assumed of restarts, failures, the arrival of users' calls, or time.

## 4. What is proved

For all values of the constants that satisfy the named assumptions (accounts are distinct, amounts are natural
numbers, percentages are percentages), TLAPS checks:

| Module | Theorem | States |
|---|---|---|
| `AuditAuction_proofs` | `InductiveInvariant` | `Spec => []IInv` |
| | `SettledJobsHoldNothingHolds`, `SlashedJobNeverCompletesHolds` | consequences of it |
| | `PoolAccountingHolds` | the account adds up over all jobs |
| | `ImplementsEscrowHolds` | `Spec => Escrow!Spec` |
| | `BidsFrozenAfterAuctionHolds`, `PaidOnceHolds` | action properties: bids stay once the deadline has passed or the auction is over; payment |
| `StakingManager_proofs` | `InductiveInvariant` | `Spec => []IInv` |
| | `FreezeHoldsAlways` | action property |
| | `EscrowBackedHolds` | the account covers all stakes and the escrow |
| `DelegatedStaking_proofs` | `InductiveInvariant` | `Spec => []IInv`, in units of the accumulator |
| | `DelegationsCoveredHolds` | books agree, stake and rewards are covered |
| | `EarnedOnlyByDistributionHolds` | action property |
| `Contracts_proofs` | `InductiveInvariant` (with `StandingMatchesStakeHolds`, `NoStakeLostHolds`) | AgentRegistry: `Spec => []IInv` |
| | `StakesBackedHolds` | AgentRegistry: the account covers all stakes |
| | `SubJobsSettled` | what sub-jobs hold, and who gained what |
| | `TenderKeepsCollateralHolds` | `Sub!Spec => Tender!Spec`: sub-auctions implement `CollateralEscrow` too |
| | `VaultLimits` | reserves of the vault, payments to monitors |
| | `PaidTime` | access against payments |
| | `SomebodyIsInvitedHolds` | invitations: any agents, discoveries, late answers and changes of the registry, while no read fails |
| `Services_proofs` | `InductiveInvariant`, `OneLoopHolds`, `BoundedOvertakingHolds` | the write queue: any callers, any cap |
| | `ImplementsTwoClassesHolds` | `Spec => Classes!Spec`: the write queue implements `TwoClassQueue` |
| | `SettledOnceHolds` | settlement: one report and one deposit, for any handlers and troubles |
| | `RecordsMatchChainHolds` | intake: what is remembered of jobs is what was posted, for any discoveries and mishaps |
| | `ScannedOnceHolds` | scanner: any cycles, pages and caps |
| | `ShowsChainHolds` | dashboard: any services, polls, failures and legal histories |
| `Agents_proofs` | `BiddingInvariant` | bidding: `Spec => []BidInv` |
| | `HandlersTakeTurnsHolds`, `AuditedOnceHolds` | any jobs, handlers, attempts, faults and restarts, each of the three agents |
| | `CountedAndShownHolds` | reports: any winners, any failures and restarts but the report agent's |
| `Orchestrator_proofs` | `InductiveInvariant` | winner selection: `Spec => []IInv` |
| | `SingleFlightHolds`, `TerminalIsFinalHolds` | any agents, calls in flight, failures and restarts |
| | `SteadyHolds`, `BestBidWinsHolds` | the best bid, while no read and no receipt fails |
| | `OneChainHolds` | schedules: one chain, any number of schedules, triggers and troubles |
| | `PayAtMostOnceHolds` | slashes: delegators pay at most once for each, and where the orchestrator asks for it only for final ones |

`SettledJobsHoldNothing`, `OneLoop`, `PayAtMostOnce` and `TenderKeepsCollateral` are stated by theorems only. The first two follow
from invariants that the runs check and the third is half of `DelegatorsPay`. The fourth TLC confirms of the sub-jobs of
`DelegationPool.cfg` (228,000 states when they run alone); with everything else of that run it takes too long.

**AuditAuction.** That a finished job holds nothing is not inductive: one must know that a job that is COMPLETED
had every winner paid, that a paid winner's bid locks nothing, that `paidWinnerCount` counts the paid winners, and
that only a PENDING bid of an open job can become ACCEPTED. `IInv` is the conjunction of types, `JobWellFormed` and
`BidWellFormed` that says so. The step of `completeJob` needs that a subset as large as the whole is the whole
(`AllPaid`); an unpaid accepted bid has positive collateral, which is why a slashed winner (none) is never a paid
one. The refinement and the two action properties take one lemma per action and use `IInv` in each.

**AgentRegistry and StakingManager.** The proofs speak of one record at a time: for each operator a lemma says that
it makes a proper record of a proper record (`SlashedProper`, `DeductedSound`, ...), and a lemma shared by all
actions says that rewriting one agent's record and moving the same amount between the accounts keeps the
invariant. In StakingManager `NoStakeLost` and `PartsMakeTheTotal` are needed together: an approved appeal adds to a
total what `agentTotalSlashed` gives up, and `PendingIsSomeones` says whose it is. `FreezeHolds` goes through the
operators that touch a status: a deposit, a slash, a withdrawal, an approved appeal.

**Sums.** That an account covers a sum over all agents or jobs is an induction over a set, and the prover cannot
instantiate the library's induction theorems, which take an operator. `SumLemmas` does without: the subsets of the finite set
for which a fact holds are a set `G`, and a subset outside of `G` of least cardinality, were there one, would lose an element and be
in `G` (`SubsetsByElement`). So it shows that the recursion of `SumFunctionOnSet` has a solution, and from that what a step
needs: only one term changes, two sums add, a sum is scaled, a sum bounds another. It needs finite sets of agents and
delegators, which the modules assume. `PoolAccounting` then follows term by term from what a step does to one
bid (`Net`, `Pooled`); `EscrowBacked` also needs that an id with no slash
yet carries no verdict (`FreshIds`), so that a new slash is one changed term, and that the sum over a set splits, since an expiry
settles any set of slashes at once.

**DelegatedStaking.** That rewards are covered is not inductive: a division in `_computePending` rounds down, and what
it cuts off counts again once the accumulator grows. `IInv` therefore says what each delegation is owed before any
division, in units of the accumulator (`Owed`: stake, unbonding and pending times `PRECISION`, plus its amount times what the
accumulator gained since), and that `PRECISION` times the balance covers the sum of it (`OwedByAll`). Settling a delegation loses less than a
unit of GUARD (`SettledSound`), a distribution adds at most what it brought, and the property follows by one division at the end.
`SoundPool` carries the totals, so that the saturating subtractions of a slash are exact.

**SubAuction, AuditVault and DataMarketplace** are the instances of `ServiceContracts`, which assumes the `ConstantsOK` of each
(who may hold GUARD is distinct, amounts are natural numbers). *SubAuction*: that the account holds what is owed is a sum over accounts, but
what a call does is about one or two of them. `WellKept` therefore says of each account what it gained from a sub-job
(`Settlement`), before and after the end, and that once someone is selected only the contractor's bid locks collateral
(`OneContractor`); the sum over all accounts is taken once, at the end. For the refinement of `CollateralEscrow` a purse is what an
agent has gained by bidding (`Purses`): the same wallet may pay for sub-jobs of its own, and that is no collateral. A call
writes one row of bids and one of gains (`Recorded`), and the three shapes of such a step are a deposit, a decision
and a settlement (`TenderDeposit`, `TenderResolve`, `TenderSettle`); that the contractor's bid is an ACCEPTED one until the end is part of
`OneContractor` for this. A share of the collateral, rounded down, is never more than the collateral (`SlashedShare`). *AuditVault*: that no monitor
is paid beyond its rates is not inductive, since a claim pays for the time that went by before it: `ClaimsWithinService` counts what the monitor on duty may
claim as paid already. It stays true when a claim is cut down to the week's budget and when a monitor with a better rate takes over.
*DataMarketplace*: `Kept` adds to the property that who never bought has paid for nothing, for a first purchase sets the count
to what it brings; that the latest purchase exists is the greatest element of a finite set of indices (`GreatestIndex`).

**WriteQueue.** `BoundedOvertaking` needs that the history is at most the streak while a normal task waits, and that
the next task is a normal one when the streak is at its cap. The first normal task is a least element, which exists
by well-foundedness of the natural numbers. For the refinement, `TwoClassQueue` has no sequence but the relation "called
before, with the same priority" (`ahead`), and `Ahead` reads it off the array. So it does not matter that the code splices
into the array and takes from its middle: what counts is that the code puts a task behind all others of its priority
(`PutIn`) and takes one that none of its priority is before (`TakenOut`). The mapping needs that no task is in the
array twice, and that on the fast path the high ones come first (`Ordered`), which is inductive by itself.

**JobSettlement, JobIntake and Scanner** are the instances of `ServiceProcesses`, which assumes their `ConstantsOK`. Each
proof has one lemma about a step of one handler or cycle that leaves the others alone, and the actions are shown to be such
steps. *JobSettlement*: what the property says of one deposit follows from who may make it. A process that opened the job
has a single entry of it (`OneEntry`), so the flag of that entry lets one handler past (`OnePublisher`), which holds until the
process restarts; while nothing fails the deposit is accounted for by that handler, the pool or the settlement
(`DepositUsed`). *JobIntake*: that an open job is the only one of its contract rests on the mark, which covers the time of
creation (`Right`, `Apart`); that the expected id is the right one rests on the lock: between reading `nextJobId` and posting,
nobody of this process posts, since who posts is the head of the line. *Scanner*: that the cursor passes no contract is not
inductive, because each cycle works on a page of its own. `Sound` says that below any contract of a page nothing is
forgotten: it is on the page too, was seen, or is noted as missed; so the cursor may be set to the least contract of any page,
forwards or back.

**DashboardFeed**, the instance of `DashboardProcess`, which assumes `ConstantsOK`: the histories are `Legal`. The order of the
handlers within a poll is not that of the blocks, so one must know where a poll starts. `PollsSound` says that a poll on its
way is the only one of its service and takes up behind `lastProcessedBlock`; `NotAhead`, that until a stopped service
has written, nothing was handled beyond the end of the active service's poll; `NotTwice`, that the first service handles no block
again. Given these, an end of the job handled before belongs to an earlier block than any JobPosted now found, which legal
histories rule out, so that the kind-by-kind order comes to the same as that of the chain (`JobKept`); likewise nothing that a sub-job
paid was handled before it was known to whom (`SubJobKeeps`). Bids are added up over disjoint ranges (`BidsCounted`). A
payment is shown or held by the poll that waits for the details (`PaidIsShown`).

**WinnerSelection.** `SingleFlight` is inductive with the shapes of the state alone until a transaction is mined: then a
call moves that did not act itself, and `SendersWait` says which: a transaction of the pool that has a sender is the only
one of that sender, which waits for its receipt. For `TerminalIsFinal` one must know that a cancellation whose receipt is
in has ended the auction (`MinedIsEnded`): the handler marks the job after the await, and nothing it can read says so.
`Moves` is what an action of one call may do to the calls and the entries of the single flights; each action is shown to
be such a move, and `CallStep` does the rest. A restart forgets the senders (`Orphaned`), and with them what
`SendersWait` promises. `BestBidWins` needs a second invariant, `Steady`: the first call that learns that the deadline has
passed learns it for good, and no bid comes after it, so while nothing fails whatever a call has counted, ranked or sent
(`SoundCall`, `SoundTx`) is about the final list of bids; only one of the transactions sent can succeed. That the ranking
finds a best bid at all (`BestIndexIsBest`) is an induction on the length of the list, by the least length for which it fails.

**ScheduledAudits.** `ChainInv` says that nothing is pending but what the record names. It is inductive because whoever
creates a schedule does so with none left (`CreateKeeps`): a replacement has deleted the old one, and the one that fires is
the one on record, spent by firing. It says nothing once somebody has triggered an audit by hand, after which a schedule may
be pending that no record names.

**SlashRelay.** A slash that is final is announced by one of two events, then its transaction is sent, then it has been
paid, and each of the three excludes the others (`OneStage`). It rests on `FinalizeSlash` taking the event and sending in one
step, and on a restart that forgets what was announced and sent at the same time. All of it is about the orchestrator's calls
where they are obeyed; where StakingManager's are (`Direct`), a slash is paid when it is initiated or never. DelegatedStaking
obeys one of the two (`OneMaster`).

**Invitations**, the instance of `InvitationProcesses`. What the property needs to know of a handler is what it owes an agent that was
active and fit all the time, while no read failed and every answer on its way said so (`Certain`, `Served`): in the second pass it keeps the agent or has yet to ask, and the
cache does not pass over it (`Knows`); while rebuilding, it has yet to come to the agent or has renewed its entry. That other
handlers work on the same roster and cache harms none of this: what a step does to them keeps a fresh entry fresh and an
answer of an active agent usable (`QuietRunner`), or is a failure, after which nothing is promised (`TroubledRunner`).

**AgentBidding.** `BidInv` is stated for given handlers, memory, lock and queue (`Handlers(calls, m, l, o)`, `QueueOf`,
`OneRuns`), because a task that ends is two steps in one: its handler leaves, and the drain loop takes the next task from the
handlers that result. So each of the two has a lemma (`HandedKeeps`, `DrainsOn`), and the actions put them together. That a
waiting handler waits for one that runs needs that the map's entry, when there is one, names a handler that runs
(`LockHeld`); nothing more can be said of the lock, since whoever leaves deletes the entry. That a job is audited once needs
to look back: while a bid is pending and the job was never overlapped, whoever still submits for it has had its answer
(`Submitted`), so nobody records it a second time after the award has cleared it; and a handler that comes later finds the
agent's bid on chain before it sends, because a job that was won has one (`Audited`, `Chain`).

**AuditPipeline**, the instance of `PipelineProcesses`. That a submission is added up once rests on the order of things: an auditor
submits once (`SubmitsOnce`: what is on the topic has its cycle past the submission), the report agent is handed each
message once, and it empties its list when a report is written; so what it lists is in no report yet, until the next one is
published (`HeardBefore`). That what is counted is shown rests on the other order, store before submit: findings on the topic
are in the store, excused, shown, or fetched for the report in the making (`StoredFirst`), and what is fetched reaches the report
before the agent takes up the next one (`InTheMaking`). A restart of the report agent breaks the first of these, so
`PipelineInv` promises nothing after it.

**Only model-checked:**

* liveness: TLAPS 1.4.5 reasons neither about fairness of these actions nor about ENABLED;
* hence the properties that say what finally happens, the only ones that no theorem states: `DueIsPaid`, `DiscoveredIsPosted`,
  `TriggeredIsDiscovered`, `HeardIsReported`, `CyclesEnd`, `EveryTaskIsSent`, `ExpiredAuctionEnds`, `KeepsUp`, `Mirrored`
  and the second half of `DelegatorsPay`, whose first is `PayAtMostOnce`.

## 5. Where code and documentation differ, and what else was seen

Two runs look for a state that the repository rules out, and find it:

* `auction_refunds_covered`: the fee of one job is paid out of the collateral of another, since no budget is ever
  transferred in (`AuditAuction.sol:476`); `cancelJob`, which "refunds all existing bidder collateral" (630), then
  reverts. The token mock always reports success, so the tests cannot see it.
* `agent_lock`: `job-lock.ts` promises one handler of a job at a time; a holder that leaves deletes the map's entry
  although a later caller has replaced it (17), so a third caller runs with the second. `HandlersTakeTurns` and
  `AuditedOnce` say what holds all the same.

The rest of this section lists what the code does that a reader may not expect. The properties are stated so as to allow for it, or
it lies outside the models.

**Contracts.**
* *AuditAuction*: a job whose winner was slashed can never be completed (621). The test title at `AuditGuard.test.js:811` says that
  `slashAgentBid` always reverts; the call to the registry is in a `try/catch` by now (600-606), so the bid loses its collateral and the
  registry records nothing.
* *AgentRegistry*: an agent slashed in full cannot add stake (`AuditGuard.test.js:318`), but may leave and register
  again with a new record (335, 168).
* *DelegatedStaking*: `propagateSlash` passes over a delegator who asked for all of its stake back (603), although it slashes
  unbonding stake to "prevent dodge via requestUndelegate" (609).
* *SubAuction*: under the repository's wiring the registry does not authorise this contract to score, so `acceptResult` reverts (a test calls
  it a known limitation, `AuditGuard.test.js:979`), and so does `claimExpired`, which exists "to prevent stuck funds": only disputes pay out, and the escrow of an
  undelivered sub-job stays. A delivered result that is neither accepted nor disputed has no timeout.
* *AuditScheduler*: a trigger by the orchestrator's own address forgets the pending schedule without deleting it
  (261), after which two chains run; only tests make that call.
* *AuditVault*: `drawBounty` takes GUARD that is reserved for auctions, after which `withdraw` and `reserveForAuction`
  revert on an underflow; `withdraw` and `drawPayment` take GUARD that is earmarked for bounties; depositors' claims exceed the
  balance by what was spent, first come first served; a claim after several weeks pays at most one week's budget
  and gives up the rest. No code of the repository calls the drawers' functions, so no re-audit is ever triggered.
* *DataMarketplace*: a second purchase of a subscription begins anew and loses the time that is left; a listing that is sold
  out, delisted or expired cannot be renewed by its subscribers; a repeated purchase uses up capacity.

**Orchestrator.**
* *Selection*: with the bids unreadable, the bid named in the transaction is the winner's position in the order in which
  messages arrived, possibly another agent's bid (`orchestrator.js:3124`); with the count unreadable, an auction with bids is
  cancelled as one without (419, 494).
* *Intake*: a creation that failed leaves its mark, and each duplicate renews it; an unread receipt together with a
  post by somebody else records a wrong id; the check for a redeployed contract (1974-1993) compares with a field that no call keeps.
* *Invitations*: an agent whose status read failed during a rebuild stays inactive in the cache and is passed over while another is
  eligible; so does one whose answer was read before it registered and stored after (1212-1216, 1270-1271), which may leave nobody to invite; an unreadable profile makes an entry without stake; a PONG uses up the nonce, so that one agent per ping is kept alive.
* *Settlement*: the report agent publishes on the audit log (`report/index.ts:442`), the orchestrator listens on
  agentComms (1370), so that only its own publication settles; `completeJob` wants `msg.sender` to be the orchestrator's
  address, which PaymentSettlement is not under the repository's deployment (`deploy-all.js:286`), so `settleJob` reverts and the deposit
  stays, while PAYMENT_SETTLED was published; two reports delivered on different entries deposit twice; findings that come late are never paid.
* *Schedules*: a trigger whose news the audit log refuses is lost (3631), and so is one that is queued under the key of another while the discovery of that one settles
  (3542-3544), as two triggers by hand of a contract without a schedule have one key. *Slashes*: a failed call or a restart loses
  the slash; delegators who leave during the appeal escape it, those who join bear it.

**Agents.**
* *Bidding*: a winner whose bid was given up as timed out but was mined never audits
  (`static-analysis/index.ts:1014-1019`, 1106).
* *Pipeline*: mock findings of the static agent count (the fuzzer's are kept from inflating scores,
  `fuzzer/index.ts:1293-1294`); a strict audit of the LLM agent never gets its dependency result, and one delivered before the wait began is lost; a
  submission stored between fetch and deletion is deleted unread (`report/index.ts:464-477`); the number of agents
  in a report may exceed those totalled (455); a failed publication leaves a flag after which the job is never reported.
* *Scanner*: a contract whose publication failed stays marked as seen; beyond a page, the oldest new contracts are
  skipped; a contract that cannot be described blocks those after it.

**Clients.**
* *Dashboard*: outside strict mode bids and totals count twice and a late JOB_CREATED drops a terminal status; a poll of a stopped
  service is not called off, may set a status back, and its `addSubJob` drops the selected agent, so that the sub-payment is never shown;
  events of failed secondary queries are lost, as are messages beyond 500 between two polls.
* *iNFT*: a job minted after the event listener started is linked only after a restart; each process overwrites the
  file as a whole; a handler's error is passed over; replayed events count bids twice.

## 6. What is not modelled

* **Judgement and presentation.** Most of the repository's lines are analyses (prompts, patterns, scores, mock findings), user
  interface, formatting, configuration and one-shot scripts for deployment and operation. They have no state that
  an order of steps could break, or their state is what they print. That is why the modules stand for a minor part
  of the lines: they cover the contracts and the control flow of the processes between messages, awaits and
  transactions. Widening them over heuristics would add lines and no behaviour.
* **I/O.** HCS, mirror node, RPC nodes, databases and files appear as what they may do to the code: lose, delay,
  reject, repeat. The clients themselves (retries inside one call, parsing) are a call that succeeds or fails.
* **Single-call arithmetic.** Treasury, GuardExchange, HbarPool, VaultFactory, prices and fees of DataMarketplace, splits of
  PaymentSettlement. AuditBudgetVault is drawn on by no code; TimeLockVault and the sample contracts are inputs for
  audits.
* **Single workers.** The job lists of the fuzzer and static-analysis services, the events API.
* **In modelled components**: the owner's setters of addresses and rates (constants), lists and totals for display,
  the reconcile loop's cap, cursor and cooldown, pings, iNFTs of agents and contract health, the dashboard's
  hydration, statistics and test mode.

`PROJECT.json` has every component with its sources, its status and the reason.

## 7. Plan

Done: the contracts that hold GUARD, with two refinements of `CollateralEscrow`; the orchestrator from discovery to settlement with
schedules and slashes; the agents from invitation to report; scanner, dashboard and the iNFT of a job; proofs of
AuditAuction, AgentRegistry, StakingManager, DelegatedStaking, SubAuction, AuditVault, DataMarketplace, WriteQueue,
WinnerSelection, ScheduledAudits, SlashRelay, Invitations, JobSettlement, JobIntake, Scanner, DashboardFeed,
AgentBidding and AuditPipeline.

Next, the most important first:

1. **Composition**: AuditAuction with the real AgentRegistry in place of `active`; StakingManager, SlashRelay and
   DelegatedStaking over one record of slashes, with delegators who come and go during the appeal.
2. **PaymentSettlement** with its splits and sub-jobs, composed with SubAuction.
3. **Balances topped up** (`agents/shared/hbar-autotopup.ts`, `guard-autotopup.ts`): cooldown and calls in flight.
4. **iNFTs of agents and contract health**, with the event listener's other contracts.
5. **The services' queues**, with their time-outs and results fetched late.
