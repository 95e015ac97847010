---------------------------- MODULE AuditAuction ----------------------------
(***************************************************************************)
(* The AuditAuction contract: audit jobs, the bids agents place on them,   *)
(* the GUARD collateral each bid locks, and the escrow out of which the    *)
(* winners are paid.  A transaction is one action; a transaction that      *)
(* reverts changes nothing and is not a step.                              *)
(*                                                                         *)
(* The GUARD token is the Hedera token service: a transfer debits one      *)
(* account and credits another and fails (reverting the transaction) when  *)
(* the debited account holds too little.  The agent registry appears as    *)
(* the one answer the contract acts on, isActiveAgent, which may change    *)
(* at any time.                                                            *)
(*                                                                         *)
(* Bid indices are abstracted: hasAgentBid allows one bid per agent and    *)
(* job, so the array _jobBids[jobId] is a function of the agent.           *)
(***************************************************************************)
EXTENDS Integers, FiniteSets, Functions

CONSTANTS
    Agents,             \* addresses that may bid
    Contract,           \* the auction's own GUARD account
    Treasury,           \* the treasury's GUARD account
    MinBidCollateral,   \* MIN_BID_COLLATERAL
    Prices,             \* bid amounts an agent may ask
    Collaterals,        \* collateral amounts an agent may offer
    Budgets,            \* budgetAvailable of a new job
    Durations,          \* auctionDurationSeconds of a new job
    Payments,           \* payment + bonus a release may name
    FeePercents,        \* platform fees the owner may set
    FundingAmounts,     \* GUARD sent to the contract from outside
    InitialBalance,     \* GUARD an agent starts with
    MaxJobs, MaxTime, MaxFunding    \* bounds of the instance

ASSUME AccountsAssumption ==
    /\ Contract # Treasury
    /\ Contract \notin Agents
    /\ Treasury \notin Agents
    /\ IsFiniteSet(Agents)

ASSUME AmountsAssumption ==
    /\ MinBidCollateral \in Nat \ {0}
    /\ Prices \subseteq Nat
    /\ Collaterals \subseteq Nat
    /\ Budgets \subseteq Nat \ {0}
    /\ Durations \subseteq Nat \ {0}
    /\ Payments \subseteq Nat
    /\ FeePercents \subseteq 0..10
    /\ FundingAmounts \subseteq Nat \ {0}
    /\ InitialBalance \in Nat
    /\ MaxJobs \in Nat /\ MaxTime \in Nat /\ MaxFunding \in Nat

VARIABLES
    now,            \* block.timestamp
    paused,         \* Pausable
    feePercent,     \* platformFeePercent
    nextJobId,      \* next id to hand out
    job,            \* jobs, isWinnerPaid and paidWinnerCount
    bid,            \* _jobBids, hasAgentBid
    activeJobIds,   \* ids not yet completed or cancelled
    balance,        \* GUARD held by every account
    funded,         \* GUARD the contract received from outside
    active          \* AgentRegistry.isActiveAgent

vars == <<now, paused, feePercent, nextJobId, job, bid, activeJobIds,
          balance, funded, active>>

-----------------------------------------------------------------------------

Accounts == Agents \cup {Contract, Treasury}
JobIds == 1..MaxJobs

\* NONE is the zeroed storage of an id that was never posted.  The contract
\* declares BIDDING_CLOSED, REPORT_PENDING and REJECTED and assigns none.
JobStatus == {"NONE", "AUCTION_OPEN", "BIDDING_CLOSED", "AUDITING_IN_PROGRESS",
              "REPORT_PENDING", "COMPLETED", "CANCELLED"}
BidStatus == {"NONE", "PENDING", "ACCEPTED", "REJECTED", "REFUNDED"}

Job == [status : JobStatus, budget : Nat, deadline : Nat, escrow : Nat,
        winners : SUBSET Agents, paid : SUBSET Agents, paidCount : Nat]
Bid == [status : BidStatus, amount : Nat, collateral : Nat]

NoJob == [status |-> "NONE", budget |-> 0, deadline |-> 0, escrow |-> 0,
          winners |-> {}, paid |-> {}, paidCount |-> 0]
NoBid == [status |-> "NONE", amount |-> 0, collateral |-> 0]

(***************************************************************************)
(* Faulty variants of the operators below, one plausible slip each.  No    *)
(* specification uses them: they stand in for the operator they resemble   *)
(* when a property is tested for its power to notice the slip.             *)
(***************************************************************************)
FeeWithoutDivision(total) == total * feePercent             \* forgets the / 100
RefundedStillLocked(b) == [b EXCEPT !.status = "REFUNDED"]  \* forgets to zero the collateral
OpenByDeadlineOnly(j) == now < job[j].deadline              \* forgets the status
OpenByStatusOnly(j) == job[j].status = "AUCTION_OPEN"       \* forgets the deadline
AlwaysUnpaid(j, a) == a = a                                 \* forgets isWinnerPaid
NoWinnerOwed(j) ==                                          \* lets a slashed winner pass as paid
    \A a \in job[j].winners : a \in job[j].paid \/ bid[j][a].status = "REFUNDED"

(***************************************************************************)
(* The requirements several functions share, and their arithmetic.         *)
(***************************************************************************)
BiddingOpen(j) == job[j].status = "AUCTION_OPEN" /\ now < job[j].deadline
Auditing(j) == job[j].status \in {"AUDITING_IN_PROGRESS", "REPORT_PENDING"}
Pending(j) == {a \in Agents : bid[j][a].status = "PENDING"}
Unpaid(j, a) == a \notin job[j].paid
AllWinnersPaid(j) == job[j].paidCount = Cardinality(job[j].winners)

\* What a set of bids of one job asks for, and the collateral they lock.
TotalPrice(j, S) == SumFunctionOnSet([a \in Agents |-> bid[j][a].amount], S)
TotalCollateral(j, S) == SumFunctionOnSet([a \in Agents |-> bid[j][a].collateral], S)

PlatformFee(total) == (total * feePercent) \div 100

\* A bid that has given back (or lost) what it locked.
Refunded(b) == [b EXCEPT !.status = "REFUNDED", !.collateral = 0]

-----------------------------------------------------------------------------
(***************************************************************************)
(* Jobs and bids.                                                          *)
(***************************************************************************)

CreateAuditJob(budget, duration) ==
    /\ ~paused
    /\ nextJobId \in JobIds
    /\ job' = [job EXCEPT ![nextJobId] =
                 [NoJob EXCEPT !.status = "AUCTION_OPEN", !.budget = budget,
                               !.deadline = now + duration]]
    /\ nextJobId' = nextJobId + 1
    /\ activeJobIds' = activeJobIds \cup {nextJobId}
    /\ UNCHANGED <<now, paused, feePercent, bid, balance, funded, active>>

SubmitBid(j, a, price, collateral) ==
    /\ ~paused
    /\ BiddingOpen(j)
    /\ bid[j][a].status = "NONE"
    /\ collateral >= MinBidCollateral
    /\ price <= job[j].budget
    /\ active[a]
    /\ balance[a] >= collateral
    /\ balance' = [balance EXCEPT ![a] = @ - collateral, ![Contract] = @ + collateral]
    /\ bid' = [bid EXCEPT ![j][a] =
                 [status |-> "PENDING", amount |-> price, collateral |-> collateral]]
    /\ UNCHANGED <<now, paused, feePercent, nextJobId, job, activeJobIds, funded, active>>

\* Lowers a bid.  The difference in collateral moves either way; the agent's
\* registry status is not asked for again.
UpdateBid(j, a, price, collateral) ==
    /\ ~paused
    /\ BiddingOpen(j)
    /\ bid[j][a].status = "PENDING"
    /\ collateral >= MinBidCollateral
    /\ price <= job[j].budget
    /\ price < bid[j][a].amount
    /\ LET deficit == collateral - bid[j][a].collateral
       IN /\ balance[a] >= deficit
          /\ balance[Contract] + deficit >= 0
          /\ balance' = [balance EXCEPT ![a] = @ - deficit, ![Contract] = @ + deficit]
    /\ bid' = [bid EXCEPT ![j][a].amount = price, ![j][a].collateral = collateral]
    /\ UNCHANGED <<now, paused, feePercent, nextJobId, job, activeJobIds, funded, active>>

\* The platform fee and the refunds of the losing bids leave the contract's
\* pooled balance; the escrow is a number, no budget is transferred in.
SelectWinners(j, W) ==
    /\ ~paused
    /\ job[j].status \in {"AUCTION_OPEN", "BIDDING_CLOSED"}
    /\ W # {}
    /\ W \subseteq Pending(j)
    /\ LET losers == Pending(j) \ W
       IN \E total \in 0..job[j].budget :
            /\ total = TotalPrice(j, W)
            /\ \E refund \in 0..(balance[Contract] - PlatformFee(total)) :
                 /\ refund = TotalCollateral(j, losers)
                 /\ balance' = [c \in Accounts |->
                      IF c = Contract THEN balance[c] - PlatformFee(total) - refund
                      ELSE IF c = Treasury THEN balance[c] + PlatformFee(total)
                      ELSE IF c \in losers THEN balance[c] + bid[j][c].collateral
                      ELSE balance[c]]
            /\ job' = [job EXCEPT ![j].status = "AUDITING_IN_PROGRESS",
                                  ![j].escrow = total - PlatformFee(total),
                                  ![j].winners = W]
            /\ bid' = [bid EXCEPT ![j] = [a \in Agents |->
                         IF a \in W THEN [bid[j][a] EXCEPT !.status = "ACCEPTED"]
                         ELSE IF a \in losers THEN Refunded(bid[j][a])
                         ELSE bid[j][a]]]
    /\ UNCHANGED <<now, paused, feePercent, nextJobId, activeJobIds, funded, active>>

-----------------------------------------------------------------------------
(***************************************************************************)
(* Settlement of the winners.                                              *)
(***************************************************************************)

\* Pays a winner out of the escrow and gives its collateral back.  The
\* registry update that follows is in a try/catch and cannot undo this.
ReleaseEscrow(j, a, payout) ==
    /\ ~paused
    /\ Auditing(j)
    /\ Unpaid(j, a)
    /\ bid[j][a].status = "ACCEPTED"
    /\ payout <= job[j].escrow
    /\ LET out == payout + bid[j][a].collateral
       IN /\ balance[Contract] >= out
          /\ balance' = [balance EXCEPT ![Contract] = @ - out, ![a] = @ + out]
    /\ job' = [job EXCEPT ![j].escrow = @ - payout,
                          ![j].paid = @ \cup {a},
                          ![j].paidCount = @ + 1]
    /\ bid' = [bid EXCEPT ![j][a].collateral = 0]
    /\ UNCHANGED <<now, paused, feePercent, nextJobId, activeJobIds, funded, active>>

SlashBps == {500, 1000, 10000}

\* What a slashed bid locked: a part goes to the treasury, the rest back.
Forfeited(j, a, slashed) ==
    balance' = [balance EXCEPT ![Contract] = @ - bid[j][a].collateral,
                               ![Treasury] = @ + slashed,
                               ![a] = @ + (bid[j][a].collateral - slashed)]

\* Takes a share of a winner's collateral.  The winner stays in winners, is
\* not paid, and the escrow keeps its share.
SlashAgentBid(j, a, bps) ==
    /\ ~paused
    /\ Auditing(j)
    /\ bps \in SlashBps
    /\ Unpaid(j, a)
    /\ bid[j][a].status = "ACCEPTED"
    /\ bid[j][a].collateral > 0
    /\ balance[Contract] >= bid[j][a].collateral
    /\ \E slashed \in 0..bid[j][a].collateral :
         /\ slashed = (bid[j][a].collateral * bps) \div 10000
         /\ Forfeited(j, a, slashed)
    /\ bid' = [bid EXCEPT ![j][a] = Refunded(@)]
    /\ UNCHANGED <<now, paused, feePercent, nextJobId, job, activeJobIds, funded, active>>

CompleteJob(j) ==
    /\ ~paused
    /\ Auditing(j)
    /\ job[j].winners # {}
    /\ AllWinnersPaid(j)
    /\ job[j].escrow = 0
    /\ job' = [job EXCEPT ![j].status = "COMPLETED"]
    /\ activeJobIds' = activeJobIds \ {j}
    /\ UNCHANGED <<now, paused, feePercent, nextJobId, bid, balance, funded, active>>

CancelJob(j) ==
    /\ ~paused
    /\ job[j].status = "AUCTION_OPEN"
    /\ \E refund \in 0..balance[Contract] :
         /\ refund = TotalCollateral(j, Pending(j))
         /\ balance' = [c \in Accounts |->
              IF c = Contract THEN balance[c] - refund
              ELSE IF c \in Pending(j) THEN balance[c] + bid[j][c].collateral
              ELSE balance[c]]
    /\ bid' = [bid EXCEPT ![j] = [a \in Agents |->
                 IF a \in Pending(j) THEN Refunded(bid[j][a]) ELSE bid[j][a]]]
    /\ job' = [job EXCEPT ![j].status = "CANCELLED"]
    /\ activeJobIds' = activeJobIds \ {j}
    /\ UNCHANGED <<now, paused, feePercent, nextJobId, funded, active>>

-----------------------------------------------------------------------------
(***************************************************************************)
(* Administration and the world around the contract.                       *)
(***************************************************************************)

SetPaused(p) ==
    /\ paused # p
    /\ paused' = p
    /\ UNCHANGED <<now, feePercent, nextJobId, job, bid, activeJobIds, balance, funded, active>>

SetPlatformFeePercent(percent) ==
    /\ percent <= 10
    /\ feePercent' = percent
    /\ UNCHANGED <<now, paused, nextJobId, job, bid, activeJobIds, balance, funded, active>>

\* Block time passes.
Tick ==
    /\ now < MaxTime
    /\ now' = now + 1
    /\ UNCHANGED <<paused, feePercent, nextJobId, job, bid, activeJobIds, balance, funded, active>>

\* GUARD sent to the contract's account by anyone: a plain token transfer the
\* contract neither sees nor records.
Fund(amount) ==
    /\ funded + amount <= MaxFunding
    /\ funded' = funded + amount
    /\ balance' = [balance EXCEPT ![Contract] = @ + amount]
    /\ UNCHANGED <<now, paused, feePercent, nextJobId, job, bid, activeJobIds, active>>

\* The registry changes its mind about an agent.
RegistryChange(a) ==
    /\ active' = [active EXCEPT ![a] = ~@]
    /\ UNCHANGED <<now, paused, feePercent, nextJobId, job, bid, activeJobIds, balance, funded>>

-----------------------------------------------------------------------------

Init ==
    /\ now = 0
    /\ paused = FALSE
    /\ feePercent \in FeePercents
    /\ nextJobId = 1
    /\ job = [j \in JobIds |-> NoJob]
    /\ bid = [j \in JobIds |-> [a \in Agents |-> NoBid]]
    /\ activeJobIds = {}
    /\ balance = [c \in Accounts |-> IF c \in Agents THEN InitialBalance ELSE 0]
    /\ funded = 0
    /\ active = [a \in Agents |-> TRUE]

\* The calls that concern one posted job.
JobStep(j) ==
    \/ \E a \in Agents, price \in Prices, collateral \in Collaterals :
         \/ SubmitBid(j, a, price, collateral)
         \/ UpdateBid(j, a, price, collateral)
    \/ \E W \in SUBSET Agents : SelectWinners(j, W)
    \/ \E a \in Agents, payout \in Payments \cup {job[j].escrow} : ReleaseEscrow(j, a, payout)
    \/ \E a \in Agents, bps \in SlashBps : SlashAgentBid(j, a, bps)
    \/ CompleteJob(j)
    \/ CancelJob(j)

AdminStep ==
    \/ \E p \in BOOLEAN : SetPaused(p)
    \/ \E percent \in FeePercents : SetPlatformFeePercent(percent)

EnvironmentStep ==
    \/ Tick
    \/ \E amount \in FundingAmounts : Fund(amount)
    \/ \E a \in Agents : RegistryChange(a)

Next ==
    \/ \E budget \in Budgets, duration \in Durations : CreateAuditJob(budget, duration)
    \/ \E j \in JobIds : JobStep(j)
    \/ AdminStep
    \/ EnvironmentStep

Spec == Init /\ [][Next]_vars
-----------------------------------------------------------------------------
(***************************************************************************)
(* Properties.                                                             *)
(***************************************************************************)

\* Every variable has its type (no unsigned amount below zero).
TypeOK ==
    /\ now \in Nat
    /\ paused \in BOOLEAN
    /\ feePercent \in 0..10
    /\ nextJobId \in 1..(MaxJobs + 1)
    /\ job \in [JobIds -> Job]
    /\ bid \in [JobIds -> [Agents -> Bid]]
    /\ activeJobIds \subseteq JobIds
    /\ balance \in [Accounts -> Nat]
    /\ funded \in Nat
    /\ active \in [Agents -> BOOLEAN]

\* Winners whose collateral was slashed: they won, and are REFUNDED.
SlashedWinners(j) == {a \in job[j].winners : bid[j][a].status = "REFUNDED"}

(***************************************************************************)
(* What every reachable state satisfies and every step needs: how the      *)
(* status of a job, the status of each bid, the collateral and the         *)
(* bookkeeping of paid winners fit together.                               *)
(***************************************************************************)

\* A job is blank until posted, and escrow and winners belong to selection.
JobWellFormed(j) ==
    /\ job[j].status \in {"NONE", "AUCTION_OPEN", "AUDITING_IN_PROGRESS", "COMPLETED", "CANCELLED"}
    /\ job[j].status = "NONE" <=> j >= nextJobId
    /\ job[j].status \in {"NONE", "AUCTION_OPEN", "CANCELLED"} =>
         job[j].winners = {} /\ job[j].escrow = 0
    /\ job[j].status = "COMPLETED" => job[j].paid = job[j].winners /\ job[j].escrow = 0
    /\ job[j].paid \subseteq job[j].winners
    /\ job[j].paidCount = Cardinality(job[j].paid)
    /\ j \in activeJobIds <=> job[j].status \in {"AUCTION_OPEN", "AUDITING_IN_PROGRESS"}

\* A bid is pending exactly while its job is open, accepted only as a winner,
\* and locks collateral until it is refunded, slashed or paid.
BidWellFormed(j, a) ==
    /\ bid[j][a].status \in {"NONE", "PENDING", "ACCEPTED", "REFUNDED"}
    /\ job[j].status = "NONE" => bid[j][a].status = "NONE"
    /\ job[j].status = "AUCTION_OPEN" => bid[j][a].status \in {"NONE", "PENDING"}
    /\ bid[j][a].status = "PENDING" =>
         job[j].status = "AUCTION_OPEN" /\ bid[j][a].collateral >= MinBidCollateral
    /\ bid[j][a].status \in {"NONE", "REFUNDED"} => bid[j][a].collateral = 0
    /\ bid[j][a].status = "ACCEPTED" => a \in job[j].winners
    /\ a \in job[j].winners => bid[j][a].status \in {"ACCEPTED", "REFUNDED"}
    /\ a \in job[j].paid => bid[j][a].status = "ACCEPTED" /\ bid[j][a].collateral = 0
    /\ bid[j][a].status = "ACCEPTED" /\ a \notin job[j].paid =>
         bid[j][a].collateral >= MinBidCollateral

WellFormed ==
    \A j \in JobIds : JobWellFormed(j) /\ (\A a \in Agents : BidWellFormed(j, a))

IInv == TypeOK /\ WellFormed

\* The contract's balance is exactly the collateral all bids still lock, plus
\* what was sent in from outside, less the fees and payouts made so far, which
\* the job records must account for: what the winners asked for less the
\* escrow still owed.  It relates every transfer of every function to the
\* records that function leaves behind.
SpentOn(j) == TotalPrice(j, job[j].winners) - job[j].escrow

PoolAccounting ==
    LET over(f) == SumFunctionOnSet(f, JobIds)
    IN balance[Contract] = over([j \in JobIds |-> TotalCollateral(j, Agents)])
                           + funded - over([j \in JobIds |-> SpentOn(j)])

\* A completed or cancelled job keeps nobody's money: no bid of it locks
\* collateral, its escrow is empty, and it has left the list of active jobs
\* (completeJob, cancelJob and _removeActiveJob).
SettledJobsHoldNothing ==
    \A j \in JobIds :
      /\ job[j].status \in {"COMPLETED", "CANCELLED"} =>
           /\ \A a \in Agents : bid[j][a].collateral = 0
           /\ job[j].escrow = 0
      /\ j \in activeJobIds <=> job[j].status \in {"AUCTION_OPEN", "AUDITING_IN_PROGRESS"}

\* completeJob counts paid winners against all winners, and a slashed winner
\* can never be paid: a job with a slashed winner stays in progress, and in the
\* active list, whatever else happens to it.
SlashedJobNeverCompletes ==
    \A j \in JobIds :
      SlashedWinners(j) # {} =>
        job[j].status = "AUDITING_IN_PROGRESS" /\ j \in activeJobIds

\* Once its deadline has passed or it has left the auction, the bids of a job
\* are settled facts, whatever is called in the time until its winners are
\* selected: no bid is added, no price moves, and no collateral is locked again.
\* And once it has left the auction only the bids of its winners change
\* (selectWinners and cancelJob both leave no bid PENDING for a later call to
\* pick up).
BidsFrozenAfterAuction ==
    [][\A j \in JobIds, a \in Agents :
         /\ job[j].status # "NONE" /\ (job[j].status # "AUCTION_OPEN" \/ now >= job[j].deadline) =>
              /\ bid[j][a].status = "NONE" => bid'[j][a] = bid[j][a]
              /\ bid'[j][a].amount = bid[j][a].amount
              /\ bid'[j][a].collateral <= bid[j][a].collateral
         /\ job[j].status \notin {"NONE", "AUCTION_OPEN"} /\ bid[j][a].status # "ACCEPTED" =>
              bid'[j][a] = bid[j][a]]_vars

\* A winner is paid at most once and never after it was slashed: the escrow of
\* a job in progress only shrinks in a step that adds to the paid winners one
\* who held an accepted bid with collateral still locked.
PaidOnce ==
    [][\A j \in JobIds :
         Auditing(j) /\ (job'[j].escrow # job[j].escrow \/ job'[j].paid # job[j].paid) =>
           \E a \in job[j].winners \ job[j].paid :
             /\ job'[j].paid = job[j].paid \cup {a}
             /\ job'[j].escrow <= job[j].escrow
             /\ bid[j][a].status = "ACCEPTED"
             /\ bid[j][a].collateral >= MinBidCollateral]_vars

(***************************************************************************)
(* The auction implements CollateralEscrow: one deposit per bid.           *)
(***************************************************************************)

DepositPhase(b) ==
    CASE b.status = "NONE" -> "absent"
      [] b.status = "PENDING" -> "open"
      [] b.status = "ACCEPTED" /\ b.collateral > 0 -> "bound"
      [] OTHER -> "settled"

Escrow == INSTANCE CollateralEscrow WITH
    Auctions <- JobIds, Owners <- Agents, Minimum <- MinBidCollateral,
    phase <- [j \in JobIds |-> [a \in Agents |-> DepositPhase(bid[j][a])]],
    amount <- [j \in JobIds |-> [a \in Agents |-> bid[j][a].collateral]],
    purse <- [a \in Agents |-> balance[a]]

\* Every step of the contract is a step of the collateral escrow or leaves all
\* deposits and all agents' purses alone.
ImplementsEscrow == Escrow!Spec

(***************************************************************************)
(* What the repository says of the contract and the code does not do.      *)
(***************************************************************************)

\* cancelJob "Cancels an open job and refunds all existing bidder collateral"
\* (AuditAuction.sol:630): the contract can pay back the bids of an open job.
CancelRefundsCovered ==
    \A j \in JobIds :
      job[j].status = "AUCTION_OPEN" =>
        TotalCollateral(j, Pending(j)) <= balance[Contract]
=============================================================================
