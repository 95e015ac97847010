------------------------ MODULE AuditAuction_proofs ------------------------
(***************************************************************************)
(* Proofs about AuditAuction, for every set of agents, every amount and    *)
(* every number of jobs.                                                   *)
(***************************************************************************)
EXTENDS AuditAuction, SumLemmas, FiniteSetTheorems, TLAPS

\* A platform fee of at most ten percent is a natural number no larger than
\* the amount it is taken from, so selectWinners' escrow cannot underflow.
LEMMA PlatformFeeBound ==
    ASSUME feePercent \in 0..10, NEW total \in Nat
    PROVE  /\ PlatformFee(total) \in Nat
           /\ PlatformFee(total) <= total
  <1>1. total * feePercent \in Nat
    OBVIOUS
  <1>2. total * feePercent <= total * 10
    OBVIOUS
  <1> DEFINE p == total * feePercent
  <1> HIDE DEF p
  <1>3. ASSUME p \in Nat, p <= total * 10
        PROVE  p \div 100 \in Nat /\ p \div 100 <= total
    BY <1>3
  <1> QED
    BY <1>1, <1>2, <1>3 DEF PlatformFee, p

-----------------------------------------------------------------------------
(***************************************************************************)
(* Every step preserves the inductive invariant: one lemma per action.     *)
(***************************************************************************)

\* Paying a winner that was not yet paid makes the count one larger.
LEMMA PaidCountStep ==
    ASSUME IInv, NEW j \in JobIds, NEW a \in Agents, a \notin job[j].paid
    PROVE  Cardinality(job[j].paid \cup {a}) = Cardinality(job[j].paid) + 1
  <1>1. job[j].paid \subseteq Agents /\ IsFiniteSet(Agents)
    BY AccountsAssumption DEF IInv, TypeOK, Job
  <1>2. IsFiniteSet(job[j].paid)
    BY <1>1, FS_Subset
  <1> QED
    BY <1>2, FS_AddElement

\* The initial state is well formed.
LEMMA InitIInv == Init => IInv
  <1> SUFFICES ASSUME Init PROVE IInv
    OBVIOUS
  <1>1. TypeOK
    <2>1. NoJob \in Job /\ NoBid \in Bid
      BY DEF NoJob, NoBid, Job, Bid, JobStatus, BidStatus
    <2>2. feePercent \in 0..10 /\ nextJobId \in 1..(MaxJobs + 1)
      BY AmountsAssumption DEF Init
    <2>3. balance \in [Accounts -> Nat]
      BY AmountsAssumption DEF Init
    <2> QED
      BY <2>1, <2>2, <2>3 DEF Init, TypeOK
  <1>2. WellFormed
    <2>1. Cardinality({}) = 0
      BY FS_EmptySet
    <2> SUFFICES ASSUME NEW j \in JobIds
                 PROVE  JobWellFormed(j) /\ (\A a \in Agents : BidWellFormed(j, a))
      BY DEF WellFormed
    <2>2. job[j] = NoJob /\ (\A a \in Agents : bid[j][a] = NoBid)
      BY DEF Init
    <2>3. nextJobId = 1 /\ activeJobIds = {} /\ j >= 1
      BY DEF Init, JobIds
    <2>4. JobWellFormed(j)
      BY <2>1, <2>2, <2>3 DEF JobWellFormed, NoJob
    <2>5. \A a \in Agents : BidWellFormed(j, a)
      BY <2>2 DEF BidWellFormed, NoBid, NoJob
    <2> QED
      BY <2>4, <2>5
  <1> QED
    BY <1>1, <1>2 DEF IInv

\* createAuditJob fills the next blank job.
LEMMA CreateAuditJobIInv ==
    ASSUME IInv, NEW budget \in Budgets, NEW duration \in Durations,
           CreateAuditJob(budget, duration)
    PROVE  IInv'
  <1> USE DEF CreateAuditJob
  <1>1. TypeOK'
    <2>1. nextJobId' \in 1..(MaxJobs + 1)
      BY AmountsAssumption DEF IInv, TypeOK, JobIds
    <2> budget \in Nat /\ now + duration \in Nat
      BY AmountsAssumption DEF IInv, TypeOK
    <2>2. [NoJob EXCEPT !.status = "AUCTION_OPEN", !.budget = budget,
                        !.deadline = now + duration] \in Job
      BY DEF NoJob, Job, JobStatus
    <2>3. job' \in [JobIds -> Job] /\ activeJobIds' \subseteq JobIds
      BY <2>2 DEF IInv, TypeOK
    <2> QED
      BY <2>1, <2>3 DEF IInv, TypeOK
  <1>2. WellFormed'
    <2> SUFFICES ASSUME NEW j \in JobIds
                 PROVE  JobWellFormed(j)' /\ (\A a \in Agents : BidWellFormed(j, a)')
      BY DEF WellFormed
    <2>1. CASE j = nextJobId
      BY <2>1, FS_EmptySet
      DEF IInv, TypeOK, WellFormed, JobWellFormed, BidWellFormed, NoJob, JobIds
    <2>2. CASE j # nextJobId
      BY <2>2 DEF IInv, TypeOK, WellFormed, JobWellFormed, BidWellFormed, JobIds
    <2> QED
      BY <2>1, <2>2
  <1> QED
    BY <1>1, <1>2 DEF IInv

\* submitBid turns a blank bid of an open job into a pending one.
LEMMA SubmitBidIInv ==
    ASSUME IInv, NEW j \in JobIds, NEW a \in Agents,
           NEW price \in Prices, NEW collateral \in Collaterals,
           SubmitBid(j, a, price, collateral)
    PROVE  IInv'
  <1> USE DEF SubmitBid
  <1>1. TypeOK'
    <2>1. price \in Nat /\ collateral \in Nat /\ a # Contract /\ {a, Contract} \subseteq Accounts
      BY AccountsAssumption, AmountsAssumption DEF Accounts
    <2>2. balance' \in [Accounts -> Nat]
      BY <2>1 DEF IInv, TypeOK
    <2>3. bid' \in [JobIds -> [Agents -> Bid]]
      BY <2>1 DEF IInv, TypeOK, Bid, BidStatus
    <2> QED
      BY <2>2, <2>3 DEF IInv, TypeOK
  <1>2. WellFormed'
    BY AmountsAssumption
    DEF IInv, TypeOK, WellFormed, JobWellFormed, BidWellFormed, BiddingOpen, Bid
  <1> QED
    BY <1>1, <1>2 DEF IInv

\* updateBid keeps a pending bid pending, with enough collateral.
LEMMA UpdateBidIInv ==
    ASSUME IInv, NEW j \in JobIds, NEW a \in Agents,
           NEW price \in Prices, NEW collateral \in Collaterals,
           UpdateBid(j, a, price, collateral)
    PROVE  IInv'
  <1> USE DEF UpdateBid
  <1>1. TypeOK'
    <2>1. price \in Nat /\ collateral \in Nat /\ a # Contract /\ {a, Contract} \subseteq Accounts
      BY AccountsAssumption, AmountsAssumption DEF Accounts
    <2>2. bid[j][a] \in Bid
      BY DEF IInv, TypeOK
    <2> DEFINE deficit == collateral - bid[j][a].collateral
    <2>3. deficit \in Int
      BY <2>1, <2>2 DEF Bid
    <2> HIDE DEF deficit
    <2>4. balance' \in [Accounts -> Nat]
      <3>1. balance' = [balance EXCEPT ![a] = @ - deficit, ![Contract] = @ + deficit]
        BY DEF deficit
      <3>2. balance[a] >= deficit /\ balance[Contract] + deficit >= 0
        BY DEF deficit
      <3> QED
        BY <2>1, <2>3, <3>1, <3>2 DEF IInv, TypeOK
    <2>5. bid' \in [JobIds -> [Agents -> Bid]]
      BY <2>1 DEF IInv, TypeOK, Bid, BidStatus
    <2> QED
      BY <2>4, <2>5 DEF IInv, TypeOK
  <1>2. /\ UNCHANGED <<job, nextJobId, activeJobIds>> /\ job[j].status = "AUCTION_OPEN"
        /\ bid[j][a].status = "PENDING" /\ collateral >= MinBidCollateral
    BY DEF BiddingOpen
  <1>3. /\ \A k \in JobIds, c \in Agents : <<k, c>> # <<j, a>> => bid'[k][c] = bid[k][c]
        /\ bid'[j][a].status = "PENDING" /\ bid'[j][a].collateral = collateral
    BY <1>2 DEF IInv, TypeOK, Bid
  <1> SUFFICES ASSUME NEW k \in JobIds
               PROVE  JobWellFormed(k)' /\ (\A c \in Agents : BidWellFormed(k, c)')
    BY <1>1 DEF IInv, WellFormed
  <1>4. JobWellFormed(k)'
    BY <1>2 DEF IInv, WellFormed, JobWellFormed
  <1>5. ASSUME NEW c \in Agents PROVE BidWellFormed(k, c)'
    <2>1. BidWellFormed(k, c) /\ BidWellFormed(j, a)
      BY DEF IInv, WellFormed
    <2>2. CASE <<k, c>> = <<j, a>>
      BY ONLY <1>2, <1>3, <2>1, <2>2 DEF BidWellFormed
    <2>3. CASE <<k, c>> # <<j, a>>
      BY ONLY <1>2, <1>3, <2>1, <2>3, k \in JobIds, c \in Agents DEF BidWellFormed
    <2> QED
      BY <2>2, <2>3
  <1> QED
    BY <1>4, <1>5

\* selectWinners accepts the winners' bids and refunds all the others, so that
\* no bid of the job is left pending; the fee never exceeds what was asked.
LEMMA SelectWinnersIInv ==
    ASSUME IInv, NEW j \in JobIds, NEW W \in SUBSET Agents, SelectWinners(j, W)
    PROVE  IInv'
  <1> DEFINE losers == Pending(j) \ W
  <1>0. PICK total \in 0..job[j].budget :
          /\ \E refund \in 0..(balance[Contract] - PlatformFee(total)) :
               balance' = [c \in Accounts |->
                 IF c = Contract THEN balance[c] - PlatformFee(total) - refund
                 ELSE IF c = Treasury THEN balance[c] + PlatformFee(total)
                 ELSE IF c \in losers THEN balance[c] + bid[j][c].collateral
                 ELSE balance[c]]
          /\ job' = [job EXCEPT ![j].status = "AUDITING_IN_PROGRESS",
                                ![j].escrow = total - PlatformFee(total),
                                ![j].winners = W]
    BY DEF SelectWinners
  <1>1. PICK refund \in 0..(balance[Contract] - PlatformFee(total)) :
          /\ balance' = [c \in Accounts |->
               IF c = Contract THEN balance[c] - PlatformFee(total) - refund
               ELSE IF c = Treasury THEN balance[c] + PlatformFee(total)
               ELSE IF c \in losers THEN balance[c] + bid[j][c].collateral
               ELSE balance[c]]
          /\ job' = [job EXCEPT ![j].status = "AUDITING_IN_PROGRESS",
                                ![j].escrow = total - PlatformFee(total),
                                ![j].winners = W]
    BY <1>0
  <1>2. bid' = [bid EXCEPT ![j] = [a \in Agents |->
                  IF a \in W THEN [bid[j][a] EXCEPT !.status = "ACCEPTED"]
                  ELSE IF a \in losers THEN Refunded(bid[j][a])
                  ELSE bid[j][a]]]
    BY DEF SelectWinners
  <1>3. /\ job[j].status \in {"AUCTION_OPEN", "BIDDING_CLOSED"}
        /\ W # {}
        /\ W \subseteq Pending(j)
        /\ UNCHANGED <<now, paused, feePercent, nextJobId, activeJobIds, funded, active>>
    BY DEF SelectWinners
  <1> DEFINE fee == PlatformFee(total)
  <1>4. total \in Nat /\ fee \in Nat /\ fee <= total
    <2>1. job[j].budget \in Nat /\ feePercent \in 0..10
      BY DEF IInv, TypeOK, Job
    <2>2. total \in Nat
      BY <2>1
    <2> QED
      BY <2>1, <2>2, PlatformFeeBound
  <1> HIDE DEF fee
  <1>5. TypeOK'
    <2>1. refund \in Nat /\ balance[Contract] - fee - refund \in Nat
      BY <1>4, AccountsAssumption DEF IInv, TypeOK, Accounts, fee
    <2>2. \A a \in Agents : bid[j][a].collateral \in Nat
      BY DEF IInv, TypeOK, Bid
    <2>3. balance' \in [Accounts -> Nat]
      <3>1. losers \subseteq Agents
        BY DEF Pending
      <3> QED
        BY <1>1, <1>4, <2>1, <2>2, <3>1 DEF IInv, TypeOK, fee
    <2>4. job' \in [JobIds -> Job]
      <3>1. total - fee \in Nat
        BY <1>4
      <3>2. [job[j] EXCEPT !.status = "AUDITING_IN_PROGRESS",
                           !.escrow = total - fee, !.winners = W] \in Job
        <4>1. job[j] \in Job /\ W \in SUBSET Agents
          BY DEF IInv, TypeOK
        <4> QED
          BY ONLY <3>1, <4>1, Zenon DEF Job, JobStatus
      <3> QED
        BY <1>1, <3>2 DEF IInv, TypeOK, fee
    <2>5. bid' \in [JobIds -> [Agents -> Bid]]
      <3>1. ASSUME NEW b \in Bid
            PROVE  [b EXCEPT !.status = "ACCEPTED"] \in Bid /\ Refunded(b) \in Bid
        BY DEF Bid, BidStatus, Refunded
      <3>2. \A a \in Agents : bid[j][a] \in Bid
        BY DEF IInv, TypeOK
      <3> QED
        BY <1>2, <3>1, <3>2 DEF IInv, TypeOK
    <2> QED
      BY <1>3, <2>3, <2>4, <2>5 DEF IInv, TypeOK
  <1>6. WellFormed'
    <2> SUFFICES ASSUME NEW k \in JobIds
                 PROVE  JobWellFormed(k)' /\ (\A a \in Agents : BidWellFormed(k, a)')
      BY DEF WellFormed
    <2>1. JobWellFormed(k) /\ (\A a \in Agents : BidWellFormed(k, a))
      BY DEF IInv, WellFormed
    <2>2. CASE k # j
      <3>1. job'[k] = job[k] /\ bid'[k] = bid[k]
        BY <1>1, <1>2, <2>2 DEF IInv, TypeOK
      <3> QED
        BY <1>3, <2>1, <3>1 DEF JobWellFormed, BidWellFormed
    <2>3. CASE k = j
      <3>1. /\ job'[j].status = "AUDITING_IN_PROGRESS"
            /\ job'[j].winners = W
            /\ job'[j].paid = job[j].paid
            /\ job'[j].paidCount = job[j].paidCount
        BY <1>1 DEF IInv, TypeOK, Job
      <3>2. job[j].status = "AUCTION_OPEN" /\ job[j].paid = {}
        BY <1>3, <2>1, <2>3 DEF JobWellFormed
      <3>3. JobWellFormed(k)'
        BY <1>3, <2>1, <2>3, <3>1, <3>2 DEF JobWellFormed
      <3>4. ASSUME NEW a \in Agents PROVE BidWellFormed(k, a)'
        <4>1. bid'[j][a] = IF a \in W THEN [bid[j][a] EXCEPT !.status = "ACCEPTED"]
                           ELSE IF a \in losers THEN Refunded(bid[j][a]) ELSE bid[j][a]
          BY <1>2 DEF IInv, TypeOK
        <4>2. bid[j][a] \in Bid
          BY DEF IInv, TypeOK
        <4>3. CASE a \in W
          BY <1>3, <2>1, <2>3, <3>1, <3>2, <4>1, <4>2, <4>3 DEF BidWellFormed, Pending, Bid
        <4>4. CASE a \notin W
          BY <2>1, <2>3, <3>1, <3>2, <4>1, <4>2, <4>4 DEF BidWellFormed, Pending, Bid, Refunded
        <4> QED
          BY <4>3, <4>4
      <3> QED
        BY <3>3, <3>4
    <2> QED
      BY <2>2, <2>3
  <1> QED
    BY <1>5, <1>6 DEF IInv

\* releaseEscrow pays an accepted winner and lets go of its collateral.
LEMMA ReleaseEscrowIInv ==
    ASSUME IInv, NEW j \in JobIds, NEW a \in Agents, NEW payout \in Nat,
           ReleaseEscrow(j, a, payout)
    PROVE  IInv'
  <1> USE DEF ReleaseEscrow, Unpaid
  <1>1. bid[j][a] \in Bid /\ job[j] \in Job
    BY DEF IInv, TypeOK
  <1>2. TypeOK'
    <2> DEFINE out == payout + bid[j][a].collateral
    <2>1. out \in Nat
      BY <1>1 DEF Bid
    <2>2. balance' \in [Accounts -> Nat]
      <3>1. balance[Contract] >= out
            /\ balance' = [balance EXCEPT ![Contract] = @ - out, ![a] = @ + out]
        OBVIOUS
      <3>2. a # Contract /\ {a, Contract} \subseteq Accounts
        BY AccountsAssumption DEF Accounts
      <3> HIDE DEF out
      <3> QED
        BY <2>1, <3>1, <3>2 DEF IInv, TypeOK
    <2>3. job[j].escrow - payout \in Nat
      BY <1>1 DEF Job
    <2>4. job' \in [JobIds -> Job]
      BY <1>1, <2>3 DEF IInv, TypeOK, Job
    <2>5. bid' \in [JobIds -> [Agents -> Bid]]
      BY <1>1 DEF IInv, TypeOK, Bid
    <2> QED
      BY <2>2, <2>4, <2>5 DEF IInv, TypeOK
  <1>3. /\ UNCHANGED <<nextJobId, activeJobIds>> /\ Auditing(j)
        /\ bid[j][a].status = "ACCEPTED" /\ a \notin job[j].paid
    OBVIOUS
  <1>4. /\ \A k \in JobIds \ {j} : job'[k] = job[k] /\ bid'[k] = bid[k]
        /\ \A c \in Agents \ {a} : bid'[j][c] = bid[j][c]
        /\ bid'[j][a].status = "ACCEPTED" /\ bid'[j][a].collateral = 0
    BY <1>1 DEF IInv, TypeOK, Bid
  <1>5. /\ job'[j].status = job[j].status /\ job'[j].winners = job[j].winners
        /\ job'[j].paid = job[j].paid \cup {a} /\ job'[j].paidCount = job[j].paidCount + 1
    BY <1>1 DEF IInv, TypeOK, Job
  <1>6. JobWellFormed(j) /\ \A k \in JobIds, c \in Agents : JobWellFormed(k) /\ BidWellFormed(k, c)
    BY DEF IInv, WellFormed
  <1>7. JobWellFormed(j)'
    BY ONLY <1>3, <1>5, <1>6, PaidCountStep, IInv, j \in JobIds, a \in Agents
    DEF JobWellFormed, BidWellFormed, Auditing
  <1>8. ASSUME NEW c \in Agents PROVE BidWellFormed(j, c)'
    BY ONLY <1>3, <1>4, <1>5, <1>6, j \in JobIds, a \in Agents, c \in Agents
    DEF BidWellFormed, Auditing
  <1>9. ASSUME NEW k \in JobIds \ {j}
        PROVE  JobWellFormed(k)' /\ \A c \in Agents : BidWellFormed(k, c)'
    BY ONLY <1>3, <1>4, <1>6, k \in JobIds \ {j} DEF JobWellFormed, BidWellFormed
  <1> QED
    BY <1>2, <1>7, <1>8, <1>9 DEF IInv, WellFormed

\* slashAgentBid makes a winner REFUNDED and takes what it locked.
LEMMA SlashAgentBidIInv ==
    ASSUME IInv, NEW j \in JobIds, NEW a \in Agents, NEW bps \in SlashBps,
           SlashAgentBid(j, a, bps)
    PROVE  IInv'
  <1> DEFINE locked == bid[j][a].collateral
  <1>1. bid[j][a] \in Bid /\ job[j] \in Job /\ locked \in Nat
    BY DEF IInv, TypeOK, Bid
  <1>2. /\ Auditing(j) /\ a \notin job[j].paid
        /\ bid[j][a].status = "ACCEPTED"
        /\ balance[Contract] >= locked
        /\ bid' = [bid EXCEPT ![j][a] = Refunded(@)]
        /\ UNCHANGED <<now, paused, feePercent, nextJobId, job, activeJobIds, funded, active>>
    <2>1. SlashAgentBid(j, a, bps)
      OBVIOUS
    <2> QED
      BY ONLY <2>1 DEF SlashAgentBid, Unpaid
  <1>3. PICK slashed \in 0..locked :
          balance' = [balance EXCEPT ![Contract] = @ - locked,
                                     ![Treasury] = @ + slashed,
                                     ![a] = @ + (locked - slashed)]
    <2>1. PICK slashed \in 0..bid[j][a].collateral : Forfeited(j, a, slashed)
      <3>1. SlashAgentBid(j, a, bps)
        OBVIOUS
      <3> QED
        BY ONLY <3>1 DEF SlashAgentBid
    <2> QED
      BY ONLY <2>1 DEF Forfeited, locked
  <1> HIDE DEF locked
  <1>4. TypeOK'
    <2>1. balance' \in [Accounts -> Nat]
      <3>1. /\ a # Contract /\ a # Treasury /\ Contract # Treasury
            /\ {a, Contract, Treasury} \subseteq Accounts
        BY AccountsAssumption DEF Accounts
      <3>2. balance[Contract] - locked \in Nat /\ locked - slashed \in Nat /\ slashed \in Nat
        BY <1>1, <1>2, <3>1 DEF IInv, TypeOK
      <3> QED
        BY <1>3, <3>1, <3>2 DEF IInv, TypeOK
    <2>2. bid' \in [JobIds -> [Agents -> Bid]]
      <3>1. Refunded(bid[j][a]) \in Bid
        BY <1>1 DEF Bid, BidStatus, Refunded
      <3> QED
        BY <1>2, <3>1 DEF IInv, TypeOK
    <2> QED
      BY <1>2, <2>1, <2>2 DEF IInv, TypeOK
  <1>5. WellFormed'
    BY <1>1, <1>2
    DEF IInv, TypeOK, WellFormed, JobWellFormed, BidWellFormed, Auditing, Job, Bid, Refunded
  <1> QED
    BY <1>4, <1>5 DEF IInv

\* As many paid winners as winners, all of them winners, are all the winners.
LEMMA AllPaid ==
    ASSUME IInv, NEW j \in JobIds, AllWinnersPaid(j)
    PROVE  job[j].paid = job[j].winners
  <1>1. /\ job[j].paid \subseteq job[j].winners
        /\ Cardinality(job[j].paid) = Cardinality(job[j].winners)
    BY DEF IInv, WellFormed, JobWellFormed, AllWinnersPaid
  <1>2. IsFiniteSet(job[j].winners)
    <2>1. job[j].winners \subseteq Agents
      BY DEF IInv, TypeOK, Job
    <2> QED
      BY <2>1, AccountsAssumption, FS_Subset
  <1> QED
    BY <1>1, <1>2, FS_Subset

\* completeJob closes a job whose winners were all paid.
LEMMA CompleteJobIInv ==
    ASSUME IInv, NEW j \in JobIds, CompleteJob(j)
    PROVE  IInv'
  <1> USE DEF CompleteJob
  <1>1. job[j].paid = job[j].winners
    BY AllPaid
  <1>2. TypeOK'
    <2>1. TypeOK /\ CompleteJob(j)
      BY DEF IInv
    <2>2. [job[j] EXCEPT !.status = "COMPLETED"] \in Job
      <3>1. job[j] \in Job
        BY ONLY <2>1, j \in JobIds DEF TypeOK
      <3> QED
        BY ONLY <3>1, Zenon DEF Job, JobStatus
    <2>3. job' = [job EXCEPT ![j] = [job[j] EXCEPT !.status = "COMPLETED"]]
      BY ONLY <2>1, Zenon DEF CompleteJob
    <2>4. job' \in [JobIds -> Job]
      BY ONLY <2>1, <2>2, <2>3 DEF TypeOK
    <2> QED
      BY ONLY <2>1, <2>4 DEF TypeOK, CompleteJob
  <1>3. WellFormed'
    BY <1>1 DEF IInv, TypeOK, WellFormed, JobWellFormed, BidWellFormed, Auditing, Job
  <1> QED
    BY <1>2, <1>3 DEF IInv

\* cancelJob refunds every bid of an open job.
LEMMA CancelJobIInv ==
    ASSUME IInv, NEW j \in JobIds, CancelJob(j)
    PROVE  IInv'
  <1> USE DEF CancelJob
  <1>1. TypeOK'
    <2>1. PICK refund \in 0..balance[Contract] :
            balance' = [c \in Accounts |->
              IF c = Contract THEN balance[c] - refund
              ELSE IF c \in Pending(j) THEN balance[c] + bid[j][c].collateral
              ELSE balance[c]]
      OBVIOUS
    <2>2. \A a \in Agents : bid[j][a].collateral \in Nat
      BY DEF IInv, TypeOK, Bid
    <2>3. balance' \in [Accounts -> Nat]
      <3>1. Pending(j) \subseteq Agents /\ Contract \in Accounts
        BY DEF Pending, Accounts
      <3> QED
        BY <2>1, <2>2, <3>1 DEF IInv, TypeOK
    <2>4. job' \in [JobIds -> Job]
      <3>1. [job[j] EXCEPT !.status = "CANCELLED"] \in Job
        <4>1. job[j] \in Job
          BY DEF IInv, TypeOK
        <4> QED
          BY ONLY <4>1, Zenon DEF Job, JobStatus
      <3>2. job' = [job EXCEPT ![j] = [job[j] EXCEPT !.status = "CANCELLED"]]
        <4>1. CancelJob(j)
          OBVIOUS
        <4> QED
          BY ONLY <4>1, Zenon DEF CancelJob
      <3> QED
        BY <3>1, <3>2 DEF IInv, TypeOK
    <2>5. bid' \in [JobIds -> [Agents -> Bid]]
      <3>1. ASSUME NEW b \in Bid
            PROVE  Refunded(b) \in Bid
        BY DEF Bid, BidStatus, Refunded
      <3> QED
        BY <3>1 DEF IInv, TypeOK
    <2> QED
      BY <2>3, <2>4, <2>5 DEF IInv, TypeOK
  <1>2. WellFormed'
    <2>1. \A a \in Agents : bid'[j][a] =
            IF bid[j][a].status = "PENDING" THEN Refunded(bid[j][a]) ELSE bid[j][a]
      BY DEF IInv, TypeOK, Pending
    <2>2. \A k \in JobIds \ {j} : bid'[k] = bid[k] /\ job'[k] = job[k]
      BY DEF IInv, TypeOK
    <2>3. \A a \in Agents : bid[j][a] \in Bid
      BY DEF IInv, TypeOK
    <2> SUFFICES ASSUME NEW k \in JobIds
                 PROVE  JobWellFormed(k)' /\ (\A a \in Agents : BidWellFormed(k, a)')
      BY DEF WellFormed
    <2>4. JobWellFormed(k) /\ (\A a \in Agents : BidWellFormed(k, a))
      BY DEF IInv, WellFormed
    <2>5. CASE k # j
      BY <2>2, <2>4, <2>5 DEF JobWellFormed, BidWellFormed
    <2>6. CASE k = j
      <3>1. job'[j] = [job[j] EXCEPT !.status = "CANCELLED"] /\ job[j] \in Job
        BY DEF IInv, TypeOK
      <3>2. job[j].winners = {}
        BY <2>4, <2>6 DEF JobWellFormed
      <3>3. JobWellFormed(k)'
        BY <2>4, <2>6, <3>1 DEF JobWellFormed, Job
      <3>4. ASSUME NEW a \in Agents PROVE BidWellFormed(k, a)'
        <4>1. bid[j][a].status \in {"NONE", "PENDING"} /\ a \notin job[j].paid
          BY <2>4, <2>6, <3>2 DEF BidWellFormed, JobWellFormed
        <4>2. job'[j].status = "CANCELLED" /\ job'[j].winners = {} /\ job'[j].paid = job[j].paid
          BY <3>1, <3>2 DEF Job
        <4>3. bid'[j][a].status \in {"NONE", "REFUNDED"} /\ bid'[j][a].collateral = 0
          <5>1. bid[j][a] \in Bid /\ bid'[j][a] =
                  IF bid[j][a].status = "PENDING" THEN Refunded(bid[j][a]) ELSE bid[j][a]
            BY <2>1, <2>3
          <5>2. bid[j][a].status = "NONE" => bid[j][a].collateral = 0
            BY <2>4, <2>6 DEF BidWellFormed
          <5> HIDE DEF CancelJob
          <5> QED
            BY <4>1, <5>1, <5>2 DEF Bid, Refunded
        <4> QED
          BY <2>6, <4>1, <4>2, <4>3 DEF BidWellFormed
      <3> QED
        BY <3>3, <3>4
    <2> QED
      BY <2>5, <2>6
  <1> QED
    BY <1>1, <1>2 DEF IInv

\* Administration, block time, outside funding and the registry touch neither
\* jobs nor bids.
LEMMA OtherStepsIInv ==
    ASSUME IInv, AdminStep \/ EnvironmentStep
    PROVE  IInv'
  <1>1. UNCHANGED <<nextJobId, job, bid, activeJobIds>>
    BY DEF AdminStep, EnvironmentStep, SetPaused, SetPlatformFeePercent, Tick, Fund, RegistryChange
  <1>2. WellFormed'
    BY <1>1 DEF IInv, WellFormed, JobWellFormed, BidWellFormed
  <1>3. TypeOK'
    <2>1. CASE AdminStep
      BY <2>1, AmountsAssumption DEF IInv, TypeOK, AdminStep, SetPaused, SetPlatformFeePercent
    <2>2. CASE Tick
      BY <2>2 DEF IInv, TypeOK, Tick
    <2>3. ASSUME NEW amount \in FundingAmounts, Fund(amount) PROVE TypeOK'
      <3>1. amount \in Nat /\ Contract \in Accounts
        BY AmountsAssumption DEF Accounts
      <3>2. balance' \in [Accounts -> Nat] /\ funded' \in Nat
        BY <2>3, <3>1 DEF IInv, TypeOK, Fund
      <3> QED
        BY <2>3, <3>2 DEF IInv, TypeOK, Fund
    <2>4. ASSUME NEW a \in Agents, RegistryChange(a) PROVE TypeOK'
      BY <2>4 DEF IInv, TypeOK, RegistryChange
    <2> QED
      BY <2>1, <2>2, <2>3, <2>4 DEF EnvironmentStep
  <1> QED
    BY <1>2, <1>3 DEF IInv

LEMMA NextIInv == IInv /\ [Next]_vars => IInv'
  <1> SUFFICES ASSUME IInv, [Next]_vars PROVE IInv'
    OBVIOUS
  <1>1. CASE UNCHANGED vars
    BY <1>1 DEF vars, IInv, TypeOK, WellFormed, JobWellFormed, BidWellFormed
  <1>2. CASE \E budget \in Budgets, duration \in Durations : CreateAuditJob(budget, duration)
    BY <1>2, CreateAuditJobIInv
  <1>3. ASSUME NEW j \in JobIds, JobStep(j) PROVE IInv'
    <2>1. job[j].escrow \in Nat /\ Payments \subseteq Nat
      BY AmountsAssumption DEF IInv, TypeOK, Job
    <2> QED
      BY <1>3, <2>1, SubmitBidIInv, UpdateBidIInv, SelectWinnersIInv, ReleaseEscrowIInv,
         SlashAgentBidIInv, CompleteJobIInv, CancelJobIInv
      DEF JobStep
  <1>4. CASE AdminStep \/ EnvironmentStep
    BY <1>4, OtherStepsIInv
  <1> QED
    BY <1>1, <1>2, <1>3, <1>4 DEF Next

-----------------------------------------------------------------------------
(***************************************************************************)
(* The theorems.                                                           *)
(***************************************************************************)

\* Type correctness and the inductive invariant: in every reachable state
\* amounts are natural numbers, and the status of jobs and bids, the locked
\* collateral and the record of paid winners fit together.
THEOREM InductiveInvariant == Spec => []IInv
  <1> QED
    BY InitIInv, NextIInv, PTL DEF Spec

\* A completed or cancelled job keeps nobody's collateral and no escrow, and
\* is no longer listed as active.
THEOREM SettledJobsHoldNothingHolds == Spec => []SettledJobsHoldNothing
  <1>1. IInv => SettledJobsHoldNothing
    <2> SUFFICES ASSUME IInv, NEW j \in JobIds
                 PROVE  /\ job[j].status \in {"COMPLETED", "CANCELLED"} =>
                             /\ \A a \in Agents : bid[j][a].collateral = 0
                             /\ job[j].escrow = 0
                        /\ j \in activeJobIds <=>
                             job[j].status \in {"AUCTION_OPEN", "AUDITING_IN_PROGRESS"}
      BY DEF SettledJobsHoldNothing
    <2>1. JobWellFormed(j) /\ (\A a \in Agents : BidWellFormed(j, a))
      BY DEF IInv, WellFormed
    <2> QED
      BY <2>1 DEF JobWellFormed, BidWellFormed
  <1> QED
    BY <1>1, InductiveInvariant, PTL

\* A job one of whose winners was slashed never completes and never leaves
\* the list of active jobs.
THEOREM SlashedJobNeverCompletesHolds == Spec => []SlashedJobNeverCompletes
  <1>1. IInv => SlashedJobNeverCompletes
    <2> SUFFICES ASSUME IInv, NEW j \in JobIds, NEW a \in SlashedWinners(j)
                 PROVE  job[j].status = "AUDITING_IN_PROGRESS" /\ j \in activeJobIds
      BY DEF SlashedJobNeverCompletes
    <2>1. JobWellFormed(j) /\ a \in job[j].winners /\ bid[j][a].status = "REFUNDED"
      BY DEF IInv, WellFormed, SlashedWinners
    <2>2. a \in Agents
      BY <2>1 DEF IInv, TypeOK, Job
    <2>3. a \notin job[j].paid
      BY <2>1, <2>2 DEF IInv, WellFormed, BidWellFormed
    <2> QED
      BY <2>1, <2>3 DEF JobWellFormed
  <1> QED
    BY <1>1, InductiveInvariant, PTL

-----------------------------------------------------------------------------
(***************************************************************************)
(* The contract's account against the sums over jobs and bids.             *)
(***************************************************************************)

\* What a job contributes to the account: collateral it locks, less what it
\* has let go in fees and payouts.  And all jobs together.
Net(j) == TotalCollateral(j, Agents) - SpentOn(j)
Pool == SumFunctionOnSet([j \in JobIds |-> Net(j)], JobIds)
Pooled == balance[Contract] = funded + Pool

LEMMA SetsFinite == IsFiniteSet(Agents) /\ IsFiniteSet(JobIds)
  <1>1. MaxJobs \in Nat
    BY AmountsAssumption
  <1> QED
    BY <1>1, AccountsAssumption, FS_Interval DEF JobIds

\* For any records of the right type.
LEMMA RecordSums ==
    ASSUME NEW b \in [Agents -> Bid], NEW k \in Job
    PROVE  /\ SumFunctionOnSet([a \in Agents |-> b[a].collateral], Agents) \in Int
           /\ SumFunctionOnSet([a \in Agents |-> b[a].amount], k.winners) \in Int
           /\ k.escrow \in Nat
  <1> DEFINE locks == [a \in Agents |-> b[a].collateral]
             asks == [a \in Agents |-> b[a].amount]
             W == k.winners
  <1>1. \A a \in Agents : locks[a] \in Int /\ asks[a] \in Int
    BY DEF Bid
  <1>2. W \in SUBSET Agents /\ k.escrow \in Nat
    BY DEF Job
  <1> HIDE DEF locks, asks, W
  <1>3. IsFiniteSet(W) /\ \A a \in W : asks[a] \in Int
    BY <1>1, <1>2, SetsFinite, FS_Subset
  <1>4. SumFunctionOnSet(locks, Agents) \in Int /\ SumFunctionOnSet(asks, W) \in Int
    BY <1>1, <1>3, SetsFinite, SumInteger
  <1> QED
    BY <1>2, <1>4 DEF locks, asks, W

LEMMA NetInteger ==
    ASSUME IInv, NEW j \in JobIds
    PROVE  /\ TotalCollateral(j, Agents) \in Int
           /\ TotalPrice(j, job[j].winners) \in Int
           /\ job[j].escrow \in Nat
           /\ SpentOn(j) \in Int /\ Net(j) \in Int
  <1>1. bid[j] \in [Agents -> Bid] /\ job[j] \in Job
    BY DEF IInv, TypeOK
  <1>2. /\ TotalCollateral(j, Agents) \in Int /\ TotalPrice(j, job[j].winners) \in Int
        /\ job[j].escrow \in Nat
    BY <1>1, RecordSums DEF TotalCollateral, TotalPrice
  <1> QED
    BY <1>2 DEF SpentOn, Net

\* And after a step.
LEMMA NetIntegerNext ==
    ASSUME IInv', NEW j \in JobIds
    PROVE  Net(j)' \in Int
  <1>1. bid'[j] \in [Agents -> Bid] /\ job'[j] \in Job
    BY DEF IInv, TypeOK
  <1>2. /\ TotalCollateral(j, Agents)' \in Int /\ TotalPrice(j, job[j].winners)' \in Int
        /\ job'[j].escrow \in Nat
    BY <1>1, RecordSums DEF TotalCollateral, TotalPrice
  <1> QED
    BY <1>2 DEF SpentOn, Net

\* The property is this equation.
LEMMA PooledIsAccounting ==
    ASSUME IInv, Pooled
    PROVE  PoolAccounting
  <1> DEFINE locks == [j \in JobIds |-> TotalCollateral(j, Agents)]
             spent == [j \in JobIds |-> SpentOn(j)]
             nets == [j \in JobIds |-> Net(j)]
  <1>1. \A j \in JobIds : /\ nets[j] \in Int /\ spent[j] \in Int
                          /\ locks[j] = nets[j] + spent[j] /\ locks[j] \in Int
    BY NetInteger DEF Net
  <1>2. Pool = SumFunctionOnSet(nets, JobIds)
    BY DEF Pool
  <1> HIDE DEF locks, spent, nets
  <1>3. SumFunctionOnSet(locks, JobIds)
          = SumFunctionOnSet(nets, JobIds) + SumFunctionOnSet(spent, JobIds)
    BY <1>1, SetsFinite, SumAdds
  <1>4. SumFunctionOnSet(nets, JobIds) \in Int /\ SumFunctionOnSet(spent, JobIds) \in Int
    BY <1>1, SetsFinite, SumInteger
  <1>5. funded \in Int
    BY DEF IInv, TypeOK
  <1>6. balance[Contract]
          = SumFunctionOnSet(locks, JobIds) + funded - SumFunctionOnSet(spent, JobIds)
    BY <1>2, <1>3, <1>4, <1>5 DEF Pooled
  <1> QED
    BY <1>6 DEF PoolAccounting, locks, spent

\* A step that writes the records of one job moves the pool by what that job's
\* contribution changes; the contract's account must move by the same.
LEMMA OneJobPools ==
    ASSUME IInv, IInv', Pooled, NEW j \in JobIds,
           \A k \in JobIds \ {j} : job'[k] = job[k] /\ bid'[k] = bid[k],
           balance'[Contract] - funded' = balance[Contract] - funded + Net(j)' - Net(j)
    PROVE  Pooled'
  <1> DEFINE before == [k \in JobIds |-> Net(k)]
             after == [k \in JobIds |-> Net(k)']
  <1>1. \A k \in JobIds : Net(k) \in Int
    BY NetInteger
  <1>2. \A k \in JobIds : Net(k)' \in Int
    BY NetIntegerNext
  <1>3. \A k \in JobIds \ {j} : Net(k)' = Net(k)
    BY DEF Net, SpentOn, TotalCollateral, TotalPrice
  <1>4. Pool = SumFunctionOnSet(before, JobIds) /\ Pool' = SumFunctionOnSet(after, JobIds)
    BY DEF Pool
  <1>5. /\ \A k \in JobIds : before[k] \in Int /\ after[k] \in Int
        /\ \A k \in JobIds \ {j} : before[k] = after[k]
        /\ before[j] = Net(j) /\ after[j] = Net(j)'
    BY <1>1, <1>2, <1>3
  <1> HIDE DEF before, after
  <1>6. SumFunctionOnSet(after, JobIds) = SumFunctionOnSet(before, JobIds) + after[j] - before[j]
    BY ONLY <1>5, j \in JobIds, SetsFinite, SumOneChanged
  <1>7. SumFunctionOnSet(before, JobIds) \in Int
    BY ONLY <1>5, SetsFinite, SumInteger
  <1>8. /\ balance[Contract] \in Int /\ balance'[Contract] \in Int
        /\ funded \in Int /\ funded' \in Int
    BY DEF IInv, TypeOK, Accounts
  <1> QED
    BY <1>4, <1>5, <1>6, <1>7, <1>8 DEF Pooled

\* A job without winners has spent nothing; one that keeps its winners and
\* their prices spends what its escrow loses.
LEMMA NothingSpent ==
    ASSUME NEW j \in JobIds, job[j].winners = {}, job[j].escrow = 0
    PROVE  SpentOn(j) = 0
  BY SumOfNothing DEF SpentOn, TotalPrice

LEMMA SpentKept ==
    ASSUME IInv, NEW j \in JobIds, job'[j].winners = job[j].winners,
           \A a \in Agents : bid'[j][a].amount = bid[j][a].amount
    PROVE  SpentOn(j)' = TotalPrice(j, job[j].winners) - job'[j].escrow
  <1>1. [a \in Agents |-> bid'[j][a].amount] = [a \in Agents |-> bid[j][a].amount]
    OBVIOUS
  <1> QED
    BY <1>1 DEF SpentOn, TotalPrice

\* One bid of a job is written.
LEMMA CollateralChanges ==
    ASSUME IInv, IInv', NEW j \in JobIds, NEW a \in Agents,
           \A c \in Agents \ {a} : bid'[j][c] = bid[j][c]
    PROVE  TotalCollateral(j, Agents)'
             = TotalCollateral(j, Agents) + bid'[j][a].collateral - bid[j][a].collateral
  <1> DEFINE before == [c \in Agents |-> bid[j][c].collateral]
             after == [c \in Agents |-> bid'[j][c].collateral]
  <1>1. /\ \A c \in Agents : before[c] \in Int /\ after[c] \in Int
        /\ \A c \in Agents \ {a} : before[c] = after[c]
        /\ before[a] = bid[j][a].collateral /\ after[a] = bid'[j][a].collateral
    BY DEF IInv, TypeOK, Bid
  <1>2. /\ TotalCollateral(j, Agents) = SumFunctionOnSet(before, Agents)
        /\ TotalCollateral(j, Agents)' = SumFunctionOnSet(after, Agents)
    BY DEF TotalCollateral
  <1> HIDE DEF before, after
  <1>3. SumFunctionOnSet(after, Agents) = SumFunctionOnSet(before, Agents) + after[a] - before[a]
    BY <1>1, SetsFinite, SumOneChanged
  <1> QED
    BY <1>1, <1>2, <1>3

\* The bids of some agents give their collateral back.
LEMMA CollateralReturned ==
    ASSUME IInv, IInv', NEW j \in JobIds, NEW L \in SUBSET Agents,
           \A a \in Agents :
             bid'[j][a].collateral = IF a \in L THEN 0 ELSE bid[j][a].collateral
    PROVE  TotalCollateral(j, Agents)' = TotalCollateral(j, Agents) - TotalCollateral(j, L)
  <1> DEFINE before == [a \in Agents |-> bid[j][a].collateral]
             after == [a \in Agents |-> bid'[j][a].collateral]
             back == [a \in Agents |-> IF a \in L THEN before[a] ELSE 0]
  <1>1. \A a \in Agents : bid[j][a].collateral \in Nat
    BY DEF IInv, TypeOK, Bid
  <1>2. \A a \in Agents : /\ before[a] \in Int /\ after[a] \in Int /\ back[a] \in Int
                          /\ before[a] = after[a] + back[a]
    BY <1>1
  <1>3. /\ TotalCollateral(j, Agents) = SumFunctionOnSet(before, Agents)
        /\ TotalCollateral(j, L) = SumFunctionOnSet(before, L)
        /\ TotalCollateral(j, Agents)' = SumFunctionOnSet(after, Agents)
    BY DEF TotalCollateral
  <1>4. back = [a \in Agents |-> IF a \in L THEN before[a] ELSE 0]
    OBVIOUS
  <1> HIDE DEF before, after, back
  <1>5. SumFunctionOnSet(before, L) = SumFunctionOnSet(back, Agents)
    BY <1>2, <1>4, SetsFinite, SumOfPart
  <1>6. SumFunctionOnSet(before, Agents)
          = SumFunctionOnSet(after, Agents) + SumFunctionOnSet(back, Agents)
    BY <1>2, SetsFinite, SumAdds
  <1>7. SumFunctionOnSet(after, Agents) \in Int /\ SumFunctionOnSet(back, Agents) \in Int
    BY <1>2, SetsFinite, SumInteger
  <1> QED
    BY <1>3, <1>5, <1>6, <1>7

\* A step that leaves what every job locks and has spent.
LEMMA NothingPooled ==
    ASSUME IInv, IInv', Pooled, UNCHANGED <<job, bid>>,
           balance'[Contract] - funded' = balance[Contract] - funded
    PROVE  Pooled'
  <1>1. Pool' = Pool
    BY DEF Pool, Net, SpentOn, TotalCollateral, TotalPrice
  <1>2. Pool \in Int
    <2> DEFINE nets == [j \in JobIds |-> Net(j)]
    <2>1. \A j \in JobIds : nets[j] \in Int
      BY NetInteger
    <2> HIDE DEF nets
    <2>2. SumFunctionOnSet(nets, JobIds) \in Int
      BY <2>1, SetsFinite, SumInteger
    <2> QED
      BY <2>2 DEF Pool, nets
  <1>3. /\ balance[Contract] \in Int /\ balance'[Contract] \in Int
        /\ funded \in Int /\ funded' \in Int
    BY DEF IInv, TypeOK, Accounts
  <1> QED
    BY <1>1, <1>2, <1>3 DEF Pooled

LEMMA CreateAuditJobPools ==
    ASSUME IInv, IInv', Pooled, NEW budget \in Budgets, NEW duration \in Durations,
           CreateAuditJob(budget, duration)
    PROVE  Pooled'
  <1>0. PICK n \in JobIds : n = nextJobId
    BY DEF CreateAuditJob
  <1>1. UNCHANGED <<bid, balance, funded>>
    BY DEF CreateAuditJob
  <1>2. job[n].winners = {} /\ job[n].escrow = 0
    BY <1>0 DEF IInv, TypeOK, WellFormed, JobWellFormed, JobIds
  <1>3. /\ job'[n].winners = {} /\ job'[n].escrow = 0
        /\ \A k \in JobIds \ {n} : job'[k] = job[k]
    BY <1>0 DEF CreateAuditJob, IInv, TypeOK, NoJob
  <1>4. SpentOn(n)' = 0 /\ SpentOn(n) = 0
    BY <1>1, <1>2, <1>3, SumOfNothing DEF SpentOn, TotalPrice
  <1>5. TotalCollateral(n, Agents)' = TotalCollateral(n, Agents)
    BY <1>1 DEF TotalCollateral
  <1>6. balance'[Contract] \in Int /\ funded' \in Int /\ Net(n) \in Int
    BY <1>1, NetInteger DEF IInv, TypeOK, Accounts
  <1>7. balance'[Contract] - funded' = balance[Contract] - funded + Net(n)' - Net(n)
    BY <1>1, <1>4, <1>5, <1>6 DEF Net
  <1> QED
    BY <1>1, <1>3, <1>7, OneJobPools

\* submitBid and updateBid: the contract gains what the bid locks more.
LEMMA BiddingPools ==
    ASSUME IInv, IInv', Pooled, NEW j \in JobIds, NEW a \in Agents, NEW collateral \in Nat,
           job[j].status = "AUCTION_OPEN",
           \A k \in JobIds \ {j} : bid'[k] = bid[k],
           \A c \in Agents \ {a} : bid'[j][c] = bid[j][c],
           bid'[j][a].collateral = collateral,
           balance'[Contract] = balance[Contract] + (collateral - bid[j][a].collateral),
           UNCHANGED <<job, funded>>
    PROVE  Pooled'
  <1>1. \A k \in JobIds \ {j} : job'[k] = job[k] /\ bid'[k] = bid[k]
    OBVIOUS
  <1>2. job[j].winners = {} /\ job[j].escrow = 0
    BY DEF IInv, WellFormed, JobWellFormed
  <1>3. SpentOn(j)' = 0 /\ SpentOn(j) = 0
    BY <1>2, SumOfNothing DEF SpentOn, TotalPrice
  <1>4. TotalCollateral(j, Agents)'
          = TotalCollateral(j, Agents) + collateral - bid[j][a].collateral
    BY CollateralChanges
  <1>5. /\ balance[Contract] \in Int /\ funded \in Int /\ TotalCollateral(j, Agents) \in Int
        /\ bid[j][a].collateral \in Int
    BY NetInteger DEF IInv, TypeOK, Accounts, Bid
  <1>6. balance'[Contract] - funded' = balance[Contract] - funded + Net(j)' - Net(j)
    BY <1>3, <1>4, <1>5 DEF Net
  <1> QED
    BY <1>1, <1>6, OneJobPools

LEMMA SubmitBidPools ==
    ASSUME IInv, IInv', Pooled, NEW j \in JobIds, NEW a \in Agents,
           NEW price \in Prices, NEW collateral \in Collaterals,
           SubmitBid(j, a, price, collateral)
    PROVE  Pooled'
  <1>1. collateral \in Nat /\ a # Contract /\ {a, Contract} \subseteq Accounts
    BY AccountsAssumption, AmountsAssumption DEF Accounts
  <1>2. job[j].status = "AUCTION_OPEN" /\ bid[j][a].collateral = 0
    BY DEF SubmitBid, BiddingOpen, IInv, WellFormed, BidWellFormed
  <1>3. balance'[Contract] = balance[Contract] + (collateral - 0)
    BY <1>1 DEF SubmitBid, IInv, TypeOK
  <1>4. /\ \A k \in JobIds \ {j} : bid'[k] = bid[k]
        /\ \A c \in Agents \ {a} : bid'[j][c] = bid[j][c]
        /\ bid'[j][a].collateral = collateral
        /\ UNCHANGED <<job, funded>>
    BY DEF SubmitBid, IInv, TypeOK
  <1> QED
    BY <1>1, <1>2, <1>3, <1>4, BiddingPools

LEMMA UpdateBidPools ==
    ASSUME IInv, IInv', Pooled, NEW j \in JobIds, NEW a \in Agents,
           NEW price \in Prices, NEW collateral \in Collaterals,
           UpdateBid(j, a, price, collateral)
    PROVE  Pooled'
  <1>1. collateral \in Nat /\ a # Contract /\ {a, Contract} \subseteq Accounts
    BY AccountsAssumption, AmountsAssumption DEF Accounts
  <1>2. job[j].status = "AUCTION_OPEN"
    BY DEF UpdateBid, BiddingOpen
  <1>3. balance'[Contract] = balance[Contract] + (collateral - bid[j][a].collateral)
    BY <1>1 DEF UpdateBid, IInv, TypeOK
  <1>4. /\ \A k \in JobIds \ {j} : bid'[k] = bid[k]
        /\ \A c \in Agents \ {a} : bid'[j][c] = bid[j][c]
        /\ bid'[j][a].collateral = collateral
        /\ UNCHANGED <<job, funded>>
    BY DEF UpdateBid, IInv, TypeOK, Bid
  <1> QED
    BY <1>1, <1>2, <1>3, <1>4, BiddingPools

\* selectWinners: the losers' collateral leaves, and of the winners' prices the
\* fee is spent at once and the rest is in escrow.
LEMMA SelectWinnersPools ==
    ASSUME IInv, IInv', Pooled, NEW j \in JobIds, NEW W \in SUBSET Agents, SelectWinners(j, W)
    PROVE  Pooled'
  <1> DEFINE losers == Pending(j) \ W
  <1>1. PICK total \in 0..job[j].budget :
          /\ total = TotalPrice(j, W)
          /\ \E refund \in 0..(balance[Contract] - PlatformFee(total)) :
               /\ refund = TotalCollateral(j, losers)
               /\ balance' = [c \in Accounts |->
                    IF c = Contract THEN balance[c] - PlatformFee(total) - refund
                    ELSE IF c = Treasury THEN balance[c] + PlatformFee(total)
                    ELSE IF c \in losers THEN balance[c] + bid[j][c].collateral
                    ELSE balance[c]]
          /\ job' = [job EXCEPT ![j].status = "AUDITING_IN_PROGRESS",
                                ![j].escrow = total - PlatformFee(total),
                                ![j].winners = W]
          /\ bid' = [bid EXCEPT ![j] = [a \in Agents |->
                       IF a \in W THEN [bid[j][a] EXCEPT !.status = "ACCEPTED"]
                       ELSE IF a \in losers THEN Refunded(bid[j][a])
                       ELSE bid[j][a]]]
    BY DEF SelectWinners
  <1>2. job[j].budget \in Nat /\ total \in Nat
    BY DEF IInv, TypeOK, Job
  <1>3. PlatformFee(total) \in Nat
    BY <1>2, PlatformFeeBound DEF IInv, TypeOK
  <1>4. /\ balance'[Contract]
             = balance[Contract] - PlatformFee(total) - TotalCollateral(j, losers)
        /\ TotalCollateral(j, losers) \in Int
    BY <1>1 DEF Accounts
  <1>5. losers \in SUBSET Agents /\ W \cap losers = {} /\ funded' = funded
    BY DEF Pending, SelectWinners
  <1>6. job[j].status = "AUCTION_OPEN"
    BY DEF SelectWinners, IInv, WellFormed, JobWellFormed
  <1>7. job[j].winners = {} /\ job[j].escrow = 0
    BY <1>6 DEF IInv, WellFormed, JobWellFormed
  <1>8. /\ \A k \in JobIds \ {j} : job'[k] = job[k] /\ bid'[k] = bid[k]
        /\ job'[j].winners = W /\ job'[j].escrow = total - PlatformFee(total)
        /\ \A a \in Agents : bid'[j][a] =
             IF a \in W THEN [bid[j][a] EXCEPT !.status = "ACCEPTED"]
             ELSE IF a \in losers THEN Refunded(bid[j][a]) ELSE bid[j][a]
    BY <1>1 DEF IInv, TypeOK, Job
  <1>9. \A a \in Agents : bid[j][a] \in Bid
    BY DEF IInv, TypeOK
  <1> HIDE DEF losers
  <1>10. \A a \in Agents :
           /\ bid'[j][a].amount = bid[j][a].amount
           /\ bid'[j][a].collateral = IF a \in losers THEN 0 ELSE bid[j][a].collateral
    BY <1>5, <1>8, <1>9 DEF Refunded, Bid
  <1>11. TotalCollateral(j, Agents)' = TotalCollateral(j, Agents) - TotalCollateral(j, losers)
    BY <1>5, <1>10, CollateralReturned
  <1>12. SpentOn(j) = 0
    BY <1>7, NothingSpent
  <1>13. SpentOn(j)' = PlatformFee(total)
    <2>1. [a \in Agents |-> bid'[j][a].amount] = [a \in Agents |-> bid[j][a].amount]
      BY <1>10
    <2>2. TotalPrice(j, job[j].winners)' = total
      BY <1>1, <1>8, <2>1 DEF TotalPrice
    <2>3. SpentOn(j)' = total - (total - PlatformFee(total))
      BY <1>8, <2>2 DEF SpentOn
    <2> QED
      BY <1>2, <1>3, <2>3
  <1>14. balance[Contract] \in Int /\ funded \in Int /\ TotalCollateral(j, Agents) \in Int
    BY NetInteger DEF IInv, TypeOK, Accounts
  <1>15. balance'[Contract] - funded' = balance[Contract] - funded + Net(j)' - Net(j)
    BY <1>3, <1>4, <1>5, <1>11, <1>12, <1>13, <1>14 DEF Net
  <1> QED
    BY <1>8, <1>15, OneJobPools

\* releaseEscrow and slashAgentBid: one bid's collateral leaves, and what the
\* escrow loses.
LEMMA SettlingPools ==
    ASSUME IInv, IInv', Pooled, NEW j \in JobIds, NEW a \in Agents, NEW payout \in Nat,
           \A k \in JobIds \ {j} : job'[k] = job[k] /\ bid'[k] = bid[k],
           \A c \in Agents \ {a} : bid'[j][c] = bid[j][c],
           bid'[j][a].collateral = 0, bid'[j][a].amount = bid[j][a].amount,
           job'[j].winners = job[j].winners, job'[j].escrow = job[j].escrow - payout,
           balance'[Contract] = balance[Contract] - payout - bid[j][a].collateral,
           funded' = funded
    PROVE  Pooled'
  <1>1. TotalCollateral(j, Agents)' = TotalCollateral(j, Agents) + 0 - bid[j][a].collateral
    BY CollateralChanges
  <1>2. SpentOn(j)' = TotalPrice(j, job[j].winners) - (job[j].escrow - payout)
    BY SpentKept
  <1>3. SpentOn(j) = TotalPrice(j, job[j].winners) - job[j].escrow
    BY DEF SpentOn
  <1>4. /\ balance[Contract] \in Int /\ funded \in Int /\ bid[j][a].collateral \in Int
        /\ TotalCollateral(j, Agents) \in Int /\ TotalPrice(j, job[j].winners) \in Int
        /\ job[j].escrow \in Int
    BY NetInteger DEF IInv, TypeOK, Accounts, Bid
  <1>5. balance'[Contract] - funded' = balance[Contract] - funded + Net(j)' - Net(j)
    BY <1>1, <1>2, <1>3, <1>4 DEF Net
  <1> QED
    BY <1>5, OneJobPools

LEMMA ReleaseEscrowPools ==
    ASSUME IInv, IInv', Pooled, NEW j \in JobIds, NEW a \in Agents, NEW payout \in Nat,
           ReleaseEscrow(j, a, payout)
    PROVE  Pooled'
  <1>1. a # Contract /\ {a, Contract} \subseteq Accounts
    BY AccountsAssumption DEF Accounts
  <1>2. /\ \A k \in JobIds \ {j} : job'[k] = job[k] /\ bid'[k] = bid[k]
        /\ job'[j].winners = job[j].winners /\ job'[j].escrow = job[j].escrow - payout
    BY DEF ReleaseEscrow, IInv, TypeOK, Job
  <1>3. /\ \A c \in Agents \ {a} : bid'[j][c] = bid[j][c]
        /\ bid'[j][a].collateral = 0 /\ bid'[j][a].amount = bid[j][a].amount
    BY DEF ReleaseEscrow, IInv, TypeOK, Bid
  <1>4. balance'[Contract] = balance[Contract] - (payout + bid[j][a].collateral)
    BY <1>1 DEF ReleaseEscrow, IInv, TypeOK
  <1>5. balance[Contract] \in Int /\ bid[j][a].collateral \in Int
    BY <1>1 DEF IInv, TypeOK, Bid
  <1>6. balance'[Contract] = balance[Contract] - payout - bid[j][a].collateral
    BY <1>4, <1>5
  <1>7. funded' = funded
    BY DEF ReleaseEscrow
  <1> QED
    BY <1>2, <1>3, <1>6, <1>7, SettlingPools

LEMMA SlashAgentBidPools ==
    ASSUME IInv, IInv', Pooled, NEW j \in JobIds, NEW a \in Agents, NEW bps \in SlashBps,
           SlashAgentBid(j, a, bps)
    PROVE  Pooled'
  <1>1. a # Contract /\ a # Treasury /\ Contract # Treasury /\ Contract \in Accounts
    BY AccountsAssumption DEF Accounts
  <1>2. /\ \A k \in JobIds \ {j} : job'[k] = job[k] /\ bid'[k] = bid[k]
        /\ job'[j].winners = job[j].winners /\ job'[j].escrow = job[j].escrow
    BY DEF SlashAgentBid, IInv, TypeOK
  <1>3. /\ \A c \in Agents \ {a} : bid'[j][c] = bid[j][c]
        /\ bid'[j][a].collateral = 0 /\ bid'[j][a].amount = bid[j][a].amount
    BY DEF SlashAgentBid, Refunded, IInv, TypeOK, Bid
  <1>4. balance'[Contract] = balance[Contract] - bid[j][a].collateral
    <2>1. PICK slashed : Forfeited(j, a, slashed)
      BY DEF SlashAgentBid
    <2> QED
      BY <1>1, <2>1 DEF Forfeited, IInv, TypeOK
  <1>5. /\ balance[Contract] \in Int /\ bid[j][a].collateral \in Int /\ job[j].escrow \in Int
    BY <1>1 DEF IInv, TypeOK, Bid, Job
  <1>6. /\ balance'[Contract] = balance[Contract] - 0 - bid[j][a].collateral
        /\ job'[j].escrow = job[j].escrow - 0 /\ funded' = funded
    BY <1>2, <1>4, <1>5 DEF SlashAgentBid
  <1> QED
    BY <1>2, <1>3, <1>6, SettlingPools

\* cancelJob: what the pending bids lock leaves.
LEMMA CancelJobPools ==
    ASSUME IInv, IInv', Pooled, NEW j \in JobIds, CancelJob(j)
    PROVE  Pooled'
  <1> DEFINE L == Pending(j)
  <1>1. /\ balance'[Contract] = balance[Contract] - TotalCollateral(j, L)
        /\ TotalCollateral(j, L) \in Int
    BY DEF CancelJob, Accounts
  <1>2. L \in SUBSET Agents /\ funded' = funded /\ job[j].status = "AUCTION_OPEN"
    BY DEF Pending, CancelJob
  <1>3. job[j].winners = {} /\ job[j].escrow = 0
    BY <1>2 DEF IInv, WellFormed, JobWellFormed
  <1>4. /\ \A k \in JobIds \ {j} : job'[k] = job[k] /\ bid'[k] = bid[k]
        /\ job'[j].winners = job[j].winners /\ job'[j].escrow = job[j].escrow
        /\ \A a \in Agents : bid'[j][a] = IF a \in L THEN Refunded(bid[j][a]) ELSE bid[j][a]
    BY DEF CancelJob, IInv, TypeOK
  <1>5. \A a \in Agents : bid[j][a] \in Bid
    BY DEF IInv, TypeOK
  <1> HIDE DEF L
  <1>6. \A a \in Agents : bid'[j][a].collateral = IF a \in L THEN 0 ELSE bid[j][a].collateral
    BY <1>4, <1>5 DEF Refunded, Bid
  <1>7. TotalCollateral(j, Agents)' = TotalCollateral(j, Agents) - TotalCollateral(j, L)
    BY <1>2, <1>6, CollateralReturned
  <1>8. SpentOn(j)' = 0 /\ SpentOn(j) = 0
    BY <1>3, <1>4, SumOfNothing DEF SpentOn, TotalPrice
  <1>9. balance[Contract] \in Int /\ funded \in Int /\ TotalCollateral(j, Agents) \in Int
    BY NetInteger DEF IInv, TypeOK, Accounts
  <1>10. balance'[Contract] - funded' = balance[Contract] - funded + Net(j)' - Net(j)
    BY <1>1, <1>2, <1>7, <1>8, <1>9 DEF Net
  <1> QED
    BY <1>4, <1>10, OneJobPools

LEMMA CompleteJobPools ==
    ASSUME IInv, IInv', Pooled, NEW j \in JobIds, CompleteJob(j)
    PROVE  Pooled'
  <1>1. /\ \A k \in JobIds \ {j} : job'[k] = job[k]
        /\ job'[j].winners = job[j].winners /\ job'[j].escrow = job[j].escrow
        /\ UNCHANGED <<bid, balance, funded>>
    BY DEF CompleteJob, IInv, TypeOK, Job
  <1>2. Net(j)' = Net(j)
    BY <1>1 DEF Net, SpentOn, TotalCollateral, TotalPrice
  <1>3. balance[Contract] \in Int /\ funded \in Int /\ Net(j) \in Int
    BY NetInteger DEF IInv, TypeOK, Accounts
  <1>4. balance'[Contract] - funded' = balance[Contract] - funded + Net(j)' - Net(j)
    BY <1>1, <1>2, <1>3
  <1> QED
    BY <1>1, <1>4, OneJobPools

LEMMA OtherStepsPool ==
    ASSUME IInv, IInv', Pooled, AdminStep \/ EnvironmentStep
    PROVE  Pooled'
  <1>1. /\ Contract \in Accounts /\ balance \in [Accounts -> Nat] /\ funded \in Nat
        /\ FundingAmounts \subseteq Nat
    BY AmountsAssumption DEF IInv, TypeOK, Accounts
  <1>2. UNCHANGED <<job, bid>>
    BY DEF AdminStep, EnvironmentStep, SetPaused, SetPlatformFeePercent, Tick, Fund, RegistryChange
  <1>3. balance'[Contract] - funded' = balance[Contract] - funded
    <2>1. ASSUME NEW amount \in FundingAmounts, Fund(amount)
          PROVE  balance'[Contract] - funded' = balance[Contract] - funded
      BY <1>1, <2>1 DEF Fund
    <2>2. AdminStep \/ Tick \/ (\E a \in Agents : RegistryChange(a)) => UNCHANGED <<balance, funded>>
      BY DEF AdminStep, SetPaused, SetPlatformFeePercent, Tick, RegistryChange
    <2> QED
      BY <2>1, <2>2 DEF EnvironmentStep
  <1> QED
    BY <1>2, <1>3, NothingPooled

LEMMA NextPools ==
    ASSUME IInv, IInv', Pooled, [Next]_vars
    PROVE  Pooled'
  <1>1. CASE UNCHANGED vars
    BY <1>1, NothingPooled DEF vars
  <1>2. CASE \E budget \in Budgets, duration \in Durations : CreateAuditJob(budget, duration)
    BY <1>2, CreateAuditJobPools
  <1>3. ASSUME NEW j \in JobIds, JobStep(j) PROVE Pooled'
    <2>1. job[j].escrow \in Nat /\ Payments \subseteq Nat
      BY AmountsAssumption DEF IInv, TypeOK, Job
    <2> QED
      BY <1>3, <2>1, SubmitBidPools, UpdateBidPools, SelectWinnersPools, ReleaseEscrowPools,
         SlashAgentBidPools, CompleteJobPools, CancelJobPools
      DEF JobStep
  <1>4. CASE AdminStep \/ EnvironmentStep
    BY <1>4, OtherStepsPool
  <1> QED
    BY <1>1, <1>2, <1>3, <1>4 DEF Next

LEMMA InitPools == Init => Pooled
  <1> SUFFICES ASSUME Init
               PROVE  Pooled
    OBVIOUS
  <1>1. ASSUME NEW j \in JobIds
        PROVE  Net(j) = 0
    <2> DEFINE locks == [a \in Agents |-> bid[j][a].collateral]
    <2>1. \A a \in Agents : locks[a] = 0
      BY DEF Init, NoBid
    <2>2. TotalCollateral(j, Agents) = SumFunctionOnSet(locks, Agents)
      BY DEF TotalCollateral
    <2> HIDE DEF locks
    <2>3. TotalCollateral(j, Agents) = 0
      BY <2>1, <2>2, SetsFinite, SumZero
    <2>4. job[j].winners = {} /\ job[j].escrow = 0
      BY DEF Init, NoJob
    <2>5. SpentOn(j) = 0
      BY <2>4, NothingSpent
    <2> QED
      BY <2>3, <2>5 DEF Net
  <1>2. Pool = 0
    <2> DEFINE nets == [j \in JobIds |-> Net(j)]
    <2>1. \A j \in JobIds : nets[j] = 0
      BY <1>1
    <2> HIDE DEF nets
    <2>2. SumFunctionOnSet(nets, JobIds) = 0
      BY <2>1, SetsFinite, SumZero
    <2> QED
      BY <2>2 DEF Pool, nets
  <1>3. balance[Contract] = 0 /\ funded = 0
    BY AccountsAssumption DEF Init, Accounts
  <1> QED
    BY <1>2, <1>3 DEF Pooled

\* The contract's GUARD account is always the collateral all bids lock, plus
\* what was sent in, less the fees and payouts the records of the jobs account
\* for: no sequence of bids, selections, releases, slashes and cancellations
\* pays a unit twice or forgets one.  For any agents, amounts and number of jobs.
THEOREM PoolAccountingHolds == Spec => []PoolAccounting
  <1>1. Init => Pooled
    BY InitPools
  <1>2. IInv /\ IInv' /\ Pooled /\ [Next]_vars => Pooled'
    BY NextPools
  <1>3. IInv /\ Pooled => PoolAccounting
    BY PooledIsAccounting
  <1> QED
    BY <1>1, <1>2, <1>3, InductiveInvariant, PTL DEF Spec

-----------------------------------------------------------------------------
(***************************************************************************)
(* What no step may do: the action properties, and the refinement of       *)
(* CollateralEscrow.                                                       *)
(***************************************************************************)

-----------------------------------------------------------------------------
(***************************************************************************)
(* Three shapes of step on the deposits.                                   *)
(***************************************************************************)

\* Writing a pending bid, and moving the difference in collateral, is a deposit.
LEMMA DepositStep ==
    ASSUME IInv, NEW j \in JobIds, NEW a \in Agents, NEW b \in Bid,
           b.status = "PENDING", b.collateral >= MinBidCollateral,
           bid[j][a].status \in {"NONE", "PENDING"},
           bid' = [bid EXCEPT ![j][a] = b],
           balance'[a] = balance[a] + bid[j][a].collateral - b.collateral,
           \A c \in Agents \ {a} : balance'[c] = balance[c]
    PROVE  Escrow!Deposit(j, a)
  <1>1. DepositPhase(bid[j][a]) \in {"absent", "open"} /\ DepositPhase(b) = "open"
    BY DEF DepositPhase
  <1>2. bid \in [JobIds -> [Agents -> Bid]]
    BY DEF IInv, TypeOK
  <1>3. bid'[j][a] = b
    BY <1>2
  <1> QED
    BY <1>1, <1>2, <1>3 DEF Escrow!Deposit

\* The bids after job j gave the deposits R back and accepted the other pending ones.
BidsResolved(j, R) ==
    [bid EXCEPT ![j] = [a \in Agents |->
       IF a \in Pending(j) \ R THEN [bid[j][a] EXCEPT !.status = "ACCEPTED"]
       ELSE IF a \in R THEN Refunded(bid[j][a])
       ELSE bid[j][a]]]

\* Refunding a set of pending bids and accepting the other pending ones
\* resolves the auction.
LEMMA ResolveStep ==
    ASSUME IInv, NEW j \in JobIds, NEW R \in SUBSET Pending(j),
           bid' = BidsResolved(j, R),
           \A c \in Agents : balance'[c] =
               IF c \in R THEN balance[c] + bid[j][c].collateral ELSE balance[c]
    PROVE  Escrow!Next
  <1>1. bid \in [JobIds -> [Agents -> Bid]] /\ (\A a \in Agents : bid[j][a] \in Bid)
    BY DEF IInv, TypeOK
  <1>2. \A a \in Agents : bid'[j][a] =
            IF a \in Pending(j) \ R THEN [bid[j][a] EXCEPT !.status = "ACCEPTED"]
            ELSE IF a \in R THEN Refunded(bid[j][a]) ELSE bid[j][a]
    BY <1>1 DEF BidsResolved
  <1>3. \A k \in JobIds \ {j} : bid'[k] = bid[k]
    BY <1>1 DEF BidsResolved
  <1>4. \A a \in Agents : a \in Pending(j) <=> DepositPhase(bid[j][a]) = "open"
    BY <1>1 DEF Pending, DepositPhase
  <1>5. Escrow!Open(j) = Pending(j)
    BY <1>4 DEF Escrow!Open, Pending
  <1>6. ASSUME NEW a \in Agents
        PROVE  /\ DepositPhase(bid'[j][a]) =
                    IF a \in R THEN "settled"
                    ELSE IF a \in Escrow!Open(j) THEN "bound" ELSE DepositPhase(bid[j][a])
               /\ bid'[j][a].collateral = IF a \in R THEN 0 ELSE bid[j][a].collateral
    <2>1. CASE a \in R
      <3>1. bid[j][a] \in Bid /\ bid'[j][a] = Refunded(bid[j][a]) /\ a \in R
        BY <1>1, <1>2, <2>1
      <3> QED
        BY ONLY <3>1 DEF DepositPhase, Refunded, Bid
    <2>2. CASE a \in Pending(j) \ R
      <3>1. bid[j][a].collateral >= MinBidCollateral
        BY <2>2 DEF IInv, WellFormed, BidWellFormed, Pending
      <3>2. bid[j][a].collateral \in Nat /\ bid[j][a].collateral > 0
        BY <1>1, <3>1, AmountsAssumption DEF Bid
      <3> QED
        BY <1>1, <1>2, <1>5, <2>2, <3>2 DEF DepositPhase, Bid
    <2>3. CASE a \notin Pending(j)
      BY <1>1, <1>2, <1>5, <2>3
    <2> QED
      BY <2>1, <2>2, <2>3
  <1> DEFINE P == [k \in JobIds |-> [a \in Agents |-> DepositPhase(bid[k][a])]]
             Prow == [a \in Agents |-> IF a \in R THEN "settled"
                        ELSE IF a \in Escrow!Open(j) THEN "bound" ELSE P[j][a]]
             C == [k \in JobIds |-> [a \in Agents |-> bid[k][a].collateral]]
             Crow == [a \in Agents |-> IF a \in R THEN 0 ELSE C[j][a]]
  <1>8. [k \in JobIds |-> [a \in Agents |-> DepositPhase(bid'[k][a])]] = [P EXCEPT ![j] = Prow]
    <2>1. ASSUME NEW k \in JobIds
          PROVE  [a \in Agents |-> DepositPhase(bid'[k][a])] = IF k = j THEN Prow ELSE P[k]
      <3>1. CASE k = j
        BY <1>6, <3>1
      <3>2. CASE k # j
        BY <1>3, <3>2
      <3> QED
        BY <3>1, <3>2
    <2>2. P = [k \in JobIds |-> P[k]]
      OBVIOUS
    <2> HIDE DEF P, Prow
    <2> QED
      BY <2>1, <2>2
  <1>9. [k \in JobIds |-> [a \in Agents |-> bid'[k][a].collateral]] = [C EXCEPT ![j] = Crow]
    <2>1. ASSUME NEW k \in JobIds
          PROVE  [a \in Agents |-> bid'[k][a].collateral] = IF k = j THEN Crow ELSE C[k]
      <3>1. CASE k = j
        BY <1>6, <3>1
      <3>2. CASE k # j
        BY <1>3, <3>2
      <3> QED
        BY <3>1, <3>2
    <2>2. C = [k \in JobIds |-> C[k]]
      OBVIOUS
    <2> HIDE DEF C, Crow
    <2> QED
      BY <2>1, <2>2
  <1>10. R \subseteq Agents
    BY DEF Pending
  <1>11. [a \in Agents |-> balance'[a]] =
           [a \in Agents |-> IF a \in R
              THEN [c \in Agents |-> balance[c]][a]
                   + [k \in JobIds |-> [o \in Agents |-> bid[k][o].collateral]][j][a]
              ELSE [c \in Agents |-> balance[c]][a]]
    BY <1>10
  <1>12. Escrow!Resolve(j, R)
    BY <1>8, <1>9, <1>11 DEF Escrow!Resolve
  <1> HIDE DEF P, Prow, C, Crow
  <1>13. \E S \in SUBSET Escrow!Open(j) : Escrow!Resolve(j, S)
    BY <1>5, <1>12
  <1> QED
    BY <1>13 DEF Escrow!Next

\* A step that leaves every bid and every agent's balance alone is no step of
\* the escrow.
LEMMA EscrowStutter ==
    ASSUME bid' = bid, \A c \in Agents : balance'[c] = balance[c]
    PROVE  UNCHANGED Escrow!vars
  BY DEF Escrow!vars

-----------------------------------------------------------------------------
(***************************************************************************)
(* Each function of the contract as a step of the escrow.                  *)
(***************************************************************************)

\* submitBid and updateBid are deposits.
LEMMA BiddingEscrow ==
    ASSUME IInv, NEW j \in JobIds, NEW a \in Agents,
           NEW price \in Prices, NEW collateral \in Collaterals,
           SubmitBid(j, a, price, collateral) \/ UpdateBid(j, a, price, collateral)
    PROVE  Escrow!Next
  <1>1. /\ price \in Nat /\ collateral \in Nat
        /\ a # Contract /\ {a, Contract} \subseteq Accounts /\ Contract \notin Agents
    BY AccountsAssumption, AmountsAssumption DEF Accounts
  <1>2. balance \in [Accounts -> Nat] /\ bid[j][a] \in Bid /\ Agents \subseteq Accounts
        /\ bid \in [JobIds -> [Agents -> Bid]]
    BY DEF IInv, TypeOK, Accounts
  <1> DEFINE b == [status |-> "PENDING", amount |-> price, collateral |-> collateral]
  <1>3. b \in Bid /\ b.status = "PENDING" /\ b.collateral = collateral
    BY <1>1 DEF Bid, BidStatus
  <1>4. collateral >= MinBidCollateral /\ bid[j][a].status \in {"NONE", "PENDING"}
    BY DEF SubmitBid, UpdateBid
  <1>5. bid' = [bid EXCEPT ![j][a] = b]
    BY <1>1, <1>2 DEF SubmitBid, UpdateBid, Bid
  <1>6. balance'[a] = balance[a] + bid[j][a].collateral - collateral
    <2>1. CASE SubmitBid(j, a, price, collateral)
      <3>1. bid[j][a].collateral = 0
        BY <2>1 DEF SubmitBid, IInv, WellFormed, BidWellFormed
      <3> QED
        BY <1>1, <1>2, <2>1, <3>1 DEF SubmitBid
    <2>2. CASE UpdateBid(j, a, price, collateral)
      BY <1>1, <1>2, <2>2 DEF UpdateBid, Bid
    <2> QED
      BY <2>1, <2>2
  <1>7. \A c \in Agents \ {a} : balance'[c] = balance[c]
    BY <1>1, <1>2 DEF SubmitBid, UpdateBid
  <1> HIDE DEF b
  <1>8. Escrow!Deposit(j, a)
    BY <1>3, <1>4, <1>5, <1>6, <1>7, DepositStep
  <1> QED
    BY <1>8 DEF Escrow!Next

\* selectWinners returns the losing deposits and binds the winning ones.
LEMMA SelectWinnersEscrow ==
    ASSUME IInv, NEW j \in JobIds, NEW W \in SUBSET Agents, SelectWinners(j, W)
    PROVE  Escrow!Next
  <1> DEFINE R == Pending(j) \ W
  <1>1. R \in SUBSET Pending(j) /\ Pending(j) \ R = W
    BY DEF SelectWinners
  <1>2. bid' = BidsResolved(j, R)
    BY <1>1 DEF SelectWinners, BidsResolved
  <1>3. ASSUME NEW c \in Agents
        PROVE  balance'[c] = IF c \in R THEN balance[c] + bid[j][c].collateral ELSE balance[c]
    <2>1. c # Contract /\ c # Treasury /\ c \in Accounts
      BY AccountsAssumption DEF Accounts
    <2> QED
      BY <2>1 DEF SelectWinners
  <1> HIDE DEF R
  <1> QED
    BY <1>1, <1>2, <1>3, ResolveStep

\* cancelJob returns every open deposit.
LEMMA CancelJobEscrow ==
    ASSUME IInv, NEW j \in JobIds, CancelJob(j)
    PROVE  Escrow!Next
  <1> DEFINE R == Pending(j)
  <1>1. bid' = BidsResolved(j, R)
    BY DEF CancelJob, BidsResolved
  <1>2. ASSUME NEW c \in Agents
        PROVE  balance'[c] = IF c \in R THEN balance[c] + bid[j][c].collateral ELSE balance[c]
    <2>1. c # Contract /\ c \in Accounts
      BY AccountsAssumption DEF Accounts
    <2> QED
      BY <2>1 DEF CancelJob
  <1>3. R \in SUBSET Pending(j)
    OBVIOUS
  <1> HIDE DEF R
  <1> QED
    BY <1>1, <1>2, <1>3, ResolveStep

\* Letting go of a bound deposit: what releaseEscrow and slashAgentBid share.
LEMMA SettleStep ==
    ASSUME IInv, NEW j \in JobIds, NEW a \in Agents, NEW b \in Bid,
           a \notin job[j].paid, bid[j][a].status = "ACCEPTED",
           b.status \in {"ACCEPTED", "REFUNDED"}, b.collateral = 0,
           bid' = [bid EXCEPT ![j][a] = b]
    PROVE  Escrow!Settle(j, a)
  <1>1. bid \in [JobIds -> [Agents -> Bid]] /\ bid[j][a].collateral \in Nat
    BY DEF IInv, TypeOK, Bid
  <1>2. bid[j][a].collateral > 0
    BY <1>1, AmountsAssumption DEF IInv, WellFormed, BidWellFormed
  <1>3. DepositPhase(bid[j][a]) = "bound" /\ DepositPhase(b) = "settled"
    BY <1>2 DEF DepositPhase
  <1> QED
    BY <1>1, <1>3 DEF Escrow!Settle

\* releaseEscrow returns a bound deposit in full, with the payout on top.
LEMMA ReleaseEscrowEscrow ==
    ASSUME IInv, NEW j \in JobIds, NEW a \in Agents, NEW payout \in Nat,
           ReleaseEscrow(j, a, payout)
    PROVE  Escrow!Next
  <1>1. bid \in [JobIds -> [Agents -> Bid]] /\ bid[j][a] \in Bid
        /\ balance \in [Accounts -> Nat]
    BY DEF IInv, TypeOK
  <1>2. a # Contract /\ {a, Contract} \subseteq Accounts /\ Contract \notin Agents
        /\ Agents \subseteq Accounts
    BY AccountsAssumption DEF Accounts
  <1> DEFINE b == [bid[j][a] EXCEPT !.collateral = 0]
  <1>3. b \in Bid /\ b.status = bid[j][a].status /\ b.collateral = 0
    BY <1>1 DEF Bid
  <1>4. bid' = [bid EXCEPT ![j][a] = b]
    BY DEF ReleaseEscrow
  <1>5. a \notin job[j].paid /\ bid[j][a].status = "ACCEPTED"
    BY DEF ReleaseEscrow, Unpaid
  <1> HIDE DEF b
  <1>6. Escrow!Settle(j, a)
    BY <1>3, <1>4, <1>5, SettleStep
  <1>7. balance'[a] = balance[a] + payout + bid[j][a].collateral
    BY <1>1, <1>2 DEF ReleaseEscrow, Bid
  <1>8. \A c \in Agents \ {a} : balance'[c] = balance[c]
    BY <1>1, <1>2 DEF ReleaseEscrow
  <1>9. balance[a] \in Nat /\ bid[j][a].collateral \in Nat
    BY <1>1, <1>2 DEF Bid
  <1>10. balance'[a] >= balance[a] + bid[j][a].collateral
    BY <1>7, <1>9
  <1>11. [c \in Agents |-> balance'[c]] = [[c \in Agents |-> balance[c]] EXCEPT ![a] = balance'[a]]
    BY <1>8
  <1>12. Escrow!Release(j, a)
    BY <1>6, <1>10, <1>11 DEF Escrow!Release
  <1> QED
    BY <1>12 DEF Escrow!Next

\* slashAgentBid forfeits a bound deposit.
LEMMA SlashAgentBidEscrow ==
    ASSUME IInv, NEW j \in JobIds, NEW a \in Agents, NEW bps \in SlashBps,
           SlashAgentBid(j, a, bps)
    PROVE  Escrow!Next
  <1> DEFINE locked == bid[j][a].collateral
  <1>1. bid \in [JobIds -> [Agents -> Bid]] /\ bid[j][a] \in Bid
        /\ balance \in [Accounts -> Nat] /\ locked \in Nat
    BY DEF IInv, TypeOK, Bid
  <1>2. /\ a # Contract /\ a # Treasury /\ Contract # Treasury
        /\ {a, Contract, Treasury} \subseteq Accounts
        /\ Contract \notin Agents /\ Treasury \notin Agents /\ Agents \subseteq Accounts
    BY AccountsAssumption DEF Accounts
  <1>3. Refunded(bid[j][a]) \in Bid /\ Refunded(bid[j][a]).status = "REFUNDED"
        /\ Refunded(bid[j][a]).collateral = 0
    BY <1>1 DEF Bid, BidStatus, Refunded
  <1>4. /\ bid' = [bid EXCEPT ![j][a] = Refunded(bid[j][a])]
        /\ a \notin job[j].paid /\ bid[j][a].status = "ACCEPTED"
    BY DEF SlashAgentBid, Unpaid
  <1>5. Escrow!Settle(j, a)
    BY <1>3, <1>4, SettleStep
  <1>6. PICK slashed \in 0..locked :
          balance' = [balance EXCEPT ![Contract] = @ - locked,
                                     ![Treasury] = @ + slashed,
                                     ![a] = @ + (locked - slashed)]
    <2>1. PICK slashed \in 0..bid[j][a].collateral : Forfeited(j, a, slashed)
      <3>1. SlashAgentBid(j, a, bps)
        OBVIOUS
      <3> QED
        BY ONLY <3>1 DEF SlashAgentBid
    <2> QED
      BY ONLY <2>1 DEF Forfeited, locked
  <1>7. /\ balance'[a] = balance[a] + (locked - slashed)
        /\ \A c \in Agents \ {a} : balance'[c] = balance[c]
    BY <1>1, <1>2, <1>6
  <1>8. balance'[a] \in balance[a]..(balance[a] + locked)
    BY <1>1, <1>2, <1>7
  <1> HIDE DEF locked
  <1>9. locked = bid[j][a].collateral
    BY DEF locked
  <1>10. Escrow!Forfeit(j, a)
    BY <1>5, <1>7, <1>8, <1>9 DEF Escrow!Forfeit
  <1> QED
    BY <1>10 DEF Escrow!Next

LEMMA NextEscrow == IInv /\ [Next]_vars => [Escrow!Next]_(Escrow!vars)
  <1> SUFFICES ASSUME IInv, [Next]_vars
               PROVE  Escrow!Next \/ UNCHANGED Escrow!vars
    OBVIOUS
  <1>1. CASE UNCHANGED vars
    BY <1>1, EscrowStutter DEF vars
  <1>2. CASE \E budget \in Budgets, duration \in Durations : CreateAuditJob(budget, duration)
    BY <1>2, EscrowStutter DEF CreateAuditJob
  <1>3. ASSUME NEW j \in JobIds, JobStep(j) PROVE Escrow!Next \/ UNCHANGED Escrow!vars
    <2>1. job[j].escrow \in Nat /\ Payments \subseteq Nat
      BY AmountsAssumption DEF IInv, TypeOK, Job
    <2>2. CompleteJob(j) => UNCHANGED Escrow!vars
      BY EscrowStutter DEF CompleteJob
    <2> QED
      BY <1>3, <2>1, <2>2, BiddingEscrow, SelectWinnersEscrow, ReleaseEscrowEscrow,
         SlashAgentBidEscrow, CancelJobEscrow
      DEF JobStep
  <1>4. CASE AdminStep
    BY <1>4, EscrowStutter DEF AdminStep, SetPaused, SetPlatformFeePercent
  <1>5. CASE EnvironmentStep
    <2>1. ASSUME NEW amount \in FundingAmounts, Fund(amount)
          PROVE  bid' = bid /\ \A c \in Agents : balance'[c] = balance[c]
      BY <2>1, AccountsAssumption DEF Fund, IInv, TypeOK, Accounts
    <2>2. Tick \/ (\E a \in Agents : RegistryChange(a)) =>
            bid' = bid /\ \A c \in Agents : balance'[c] = balance[c]
      BY DEF Tick, RegistryChange
    <2> QED
      BY <1>5, <2>1, <2>2, EscrowStutter DEF EnvironmentStep
  <1> QED
    BY <1>1, <1>2, <1>3, <1>4, <1>5 DEF Next

-----------------------------------------------------------------------------
(***************************************************************************)
(* The theorems.                                                           *)
(***************************************************************************)

\* The auction implements the collateral escrow: collateral moves only by
\* deposits, refunds of a decided auction, one release or one forfeit.
THEOREM ImplementsEscrowHolds == Spec => ImplementsEscrow
  <1>1. Init => Escrow!Init
    <2> SUFFICES ASSUME Init PROVE Escrow!Init
      OBVIOUS
    <2>1. \A j \in JobIds, a \in Agents :
            DepositPhase(bid[j][a]) = "absent" /\ bid[j][a].collateral = 0
      BY DEF Init, NoBid, DepositPhase
    <2>2. [a \in Agents |-> balance[a]] \in [Agents -> Nat]
      BY AmountsAssumption DEF Init, Accounts
    <2> QED
      BY <2>1, <2>2 DEF Escrow!Init
  <1> QED
    BY <1>1, NextEscrow, InductiveInvariant, PTL DEF Spec, ImplementsEscrow, Escrow!Spec

\* No function of the contract adds a bid to a job whose deadline has passed or
\* that has left its auction, or moves its price; and after the auction none
\* touches a bid except to let go of a winner's collateral.
THEOREM BidsFrozenAfterAuctionHolds == Spec => BidsFrozenAfterAuction
  <1> DEFINE Closed(j) == job[j].status # "NONE" /\ (job[j].status # "AUCTION_OPEN" \/ now >= job[j].deadline)
             Decided(j) == job[j].status \notin {"NONE", "AUCTION_OPEN"}
             Kept(j, a) == /\ Closed(j) =>
                                /\ bid[j][a].status = "NONE" => bid'[j][a] = bid[j][a]
                                /\ bid'[j][a].amount = bid[j][a].amount
                                /\ bid'[j][a].collateral <= bid[j][a].collateral
                           /\ Decided(j) /\ bid[j][a].status # "ACCEPTED" => bid'[j][a] = bid[j][a]
             Frozen == \A j \in JobIds, a \in Agents : Kept(j, a)
  <1>1. IInv /\ [Next]_vars => [Frozen]_vars
    <2> SUFFICES ASSUME IInv, Next, NEW k \in JobIds, NEW c \in Agents PROVE Kept(k, c)
      OBVIOUS
    <2>1. bid \in [JobIds -> [Agents -> Bid]] /\ bid[k][c] \in Bid
          /\ bid[k][c].collateral \in Nat /\ JobWellFormed(k)
      BY DEF IInv, TypeOK, WellFormed, Bid
    <2>2. CASE bid' = bid
      BY <2>1, <2>2
    <2>3. bid'[k] = bid[k] => Kept(k, c)
      BY <2>1
    <2>4. ASSUME NEW j \in JobIds, JobStep(j), bid' # bid
          PROVE  Kept(k, c)
      <3>1. ASSUME NEW a \in Agents, NEW price \in Prices, NEW collateral \in Collaterals,
                   SubmitBid(j, a, price, collateral) \/ UpdateBid(j, a, price, collateral)
            PROVE  Kept(k, c)
        <4>1. ~Closed(j) /\ ~Decided(j)
          <5>1. job[j].status = "AUCTION_OPEN" /\ now < job[j].deadline
            BY <3>1 DEF SubmitBid, UpdateBid, BiddingOpen
          <5>2. now \in Int /\ job[j].deadline \in Int
            BY DEF IInv, TypeOK, Job
          <5> QED
            BY <5>1, <5>2
        <4>2. k # j => bid'[k] = bid[k]
          BY <2>1, <3>1 DEF SubmitBid, UpdateBid
        <4> QED
          BY <2>3, <4>1, <4>2
      <3>2. ASSUME NEW W \in SUBSET Agents, SelectWinners(j, W)
            PROVE  Kept(k, c)
        <4>1. CASE k = j /\ ~Decided(k)
          <5>1. /\ bid'[k][c].amount = bid[k][c].amount
                /\ bid'[k][c].collateral <= bid[k][c].collateral
                /\ bid[k][c].status = "NONE" => bid'[k][c] = bid[k][c]
            <6>1. W \subseteq Pending(k)
              BY <3>2, <4>1 DEF SelectWinners
            <6>2. bid'[k][c] = IF c \in W THEN [bid[k][c] EXCEPT !.status = "ACCEPTED"]
                              ELSE IF c \in Pending(k) \ W THEN Refunded(bid[k][c])
                              ELSE bid[k][c]
              BY <2>1, <3>2, <4>1 DEF SelectWinners
            <6> QED
              BY <2>1, <6>1, <6>2 DEF Refunded, Pending, Bid
          <5> QED
            BY <4>1, <5>1
        <4>2. CASE k # j \/ Decided(k)
          <5>1. bid'[k] = bid[k]
            BY <2>1, <3>2, <4>2 DEF SelectWinners, JobWellFormed
          <5> QED
            BY <2>3, <5>1
        <4> QED
          BY <4>1, <4>2
      <3>3. ASSUME NEW a \in Agents, NEW payout \in Payments \cup {job[j].escrow},
                   ReleaseEscrow(j, a, payout)
            PROVE  Kept(k, c)
        <4>1. /\ bid'[k][c].amount = bid[k][c].amount
              /\ bid'[k][c].collateral <= bid[k][c].collateral
              /\ bid[k][c].status # "ACCEPTED" => bid'[k][c] = bid[k][c]
          BY <2>1, <3>3 DEF ReleaseEscrow, Bid
        <4> QED
          BY <4>1
      <3>4. ASSUME NEW a \in Agents, NEW bps \in SlashBps, SlashAgentBid(j, a, bps)
            PROVE  Kept(k, c)
        <4>1. bid' = [bid EXCEPT ![j][a] = Refunded(@)] /\ bid[j][a].status = "ACCEPTED"
          BY <3>4 DEF SlashAgentBid
        <4>2. /\ bid'[k][c].amount = bid[k][c].amount
              /\ bid'[k][c].collateral <= bid[k][c].collateral
              /\ bid[k][c].status # "ACCEPTED" => bid'[k][c] = bid[k][c]
          BY <2>1, <4>1 DEF Refunded, Bid
        <4> QED
          BY <4>2
      <3>5. ASSUME CancelJob(j) PROVE Kept(k, c)
        <4>1. CASE k = j
          <5>1. job[k].status = "AUCTION_OPEN"
            BY <3>5, <4>1 DEF CancelJob
          <5>2. bid'[k][c] = IF c \in Pending(k) THEN Refunded(bid[k][c]) ELSE bid[k][c]
            BY <2>1, <3>5, <4>1 DEF CancelJob
          <5>3. /\ bid'[k][c].amount = bid[k][c].amount
                /\ bid'[k][c].collateral <= bid[k][c].collateral
                /\ bid[k][c].status = "NONE" => bid'[k][c] = bid[k][c]
            BY <2>1, <5>2 DEF Refunded, Pending, Bid
          <5> QED
            BY <5>1, <5>3
        <4>2. CASE k # j
          BY <2>1, <2>3, <3>5, <4>2 DEF CancelJob
        <4> QED
          BY <4>1, <4>2
      <3>6. CompleteJob(j) => bid' = bid
        BY DEF CompleteJob
      <3> HIDE DEF Kept
      <3> QED
        BY <2>4, <3>1, <3>2, <3>3, <3>4, <3>5, <3>6 DEF JobStep
    <2>5. (\E budget \in Budgets, duration \in Durations : CreateAuditJob(budget, duration))
            => bid' = bid
      BY DEF CreateAuditJob
    <2>6. AdminStep \/ EnvironmentStep => bid' = bid
      BY DEF AdminStep, EnvironmentStep, SetPaused, SetPlatformFeePercent, Tick, Fund, RegistryChange
    <2> HIDE DEF Kept
    <2> QED
      BY <2>2, <2>4, <2>5, <2>6 DEF Next
  <1> QED
    BY <1>1, InductiveInvariant, PTL DEF Spec, BidsFrozenAfterAuction

\* The escrow of a job in progress shrinks, and its paid winners grow, only
\* together and only for a winner that still had collateral locked.
THEOREM PaidOnceHolds == Spec => PaidOnce
  <1> DEFINE Once == \A j \in JobIds :
                 Auditing(j) /\ (job'[j].escrow # job[j].escrow \/ job'[j].paid # job[j].paid) =>
                   \E a \in job[j].winners \ job[j].paid :
                     /\ job'[j].paid = job[j].paid \cup {a}
                     /\ job'[j].escrow <= job[j].escrow
                     /\ bid[j][a].status = "ACCEPTED"
                     /\ bid[j][a].collateral >= MinBidCollateral
  <1>1. IInv /\ [Next]_vars => [Once]_vars
    <2> SUFFICES ASSUME IInv, Next, NEW k \in JobIds, Auditing(k),
                        job'[k].escrow # job[k].escrow \/ job'[k].paid # job[k].paid
                 PROVE  \E a \in job[k].winners \ job[k].paid :
                          /\ job'[k].paid = job[k].paid \cup {a}
                          /\ job'[k].escrow <= job[k].escrow
                          /\ bid[k][a].status = "ACCEPTED"
                          /\ bid[k][a].collateral >= MinBidCollateral
      OBVIOUS
    <2>1. job \in [JobIds -> Job] /\ job[k] \in Job /\ job[k].escrow \in Nat
          /\ JobWellFormed(k) /\ (\A a \in Agents : BidWellFormed(k, a))
      BY DEF IInv, TypeOK, WellFormed, Job
    <2>2. job[k].status = "AUDITING_IN_PROGRESS"
      BY <2>1 DEF JobWellFormed, Auditing
    <2>3. \A j \in JobIds : job'[j] # job[j] => job' # job
      OBVIOUS
    <2>4. ASSUME NEW j \in JobIds, JobStep(j)
          PROVE  \E a \in Agents, payout \in Nat : ReleaseEscrow(k, a, payout)
      <3>1. \A a \in Agents, price \in Prices, collateral \in Collaterals :
              SubmitBid(j, a, price, collateral) \/ UpdateBid(j, a, price, collateral) => job' = job
        BY DEF SubmitBid, UpdateBid
      <3>2. \A W \in SUBSET Agents : SelectWinners(j, W) => job'[k] = job[k]
        BY <2>1, <2>2 DEF SelectWinners
      <3>3. \A a \in Agents, bps \in SlashBps : SlashAgentBid(j, a, bps) => job' = job
        BY DEF SlashAgentBid
      <3>4. CompleteJob(j) => job'[k].escrow = job[k].escrow /\ job'[k].paid = job[k].paid
        BY <2>1 DEF CompleteJob, Job
      <3>5. CancelJob(j) => job'[k] = job[k]
        BY <2>1, <2>2 DEF CancelJob
      <3>6. ASSUME NEW a \in Agents, NEW payout \in Payments \cup {job[j].escrow},
                   ReleaseEscrow(j, a, payout)
            PROVE  payout \in Nat /\ j = k
        <4>1. payout \in Nat
          BY AmountsAssumption DEF IInv, TypeOK, Job
        <4>2. j # k => job'[k] = job[k]
          BY <2>1, <3>6 DEF ReleaseEscrow
        <4> QED
          BY <4>1, <4>2
      <3> QED
        BY <2>4, <3>1, <3>2, <3>3, <3>4, <3>5, <3>6 DEF JobStep
    <2>5. ASSUME NEW budget \in Budgets, NEW duration \in Durations,
                 CreateAuditJob(budget, duration)
          PROVE  job'[k] = job[k]
      <3>1. k # nextJobId
        BY <2>1, <2>2 DEF IInv, TypeOK, JobWellFormed, JobIds
      <3> QED
        BY <2>1, <2>5, <3>1 DEF CreateAuditJob
    <2>6. AdminStep \/ EnvironmentStep => job' = job
      BY DEF AdminStep, EnvironmentStep, SetPaused, SetPlatformFeePercent, Tick, Fund, RegistryChange
    <2>7. PICK a \in Agents, payout \in Nat : ReleaseEscrow(k, a, payout)
      BY <2>4, <2>5, <2>6 DEF Next
    <2>8. a \notin job[k].paid /\ bid[k][a].status = "ACCEPTED"
      BY <2>7 DEF ReleaseEscrow, Unpaid
    <2>9. a \in job[k].winners /\ bid[k][a].collateral >= MinBidCollateral
      BY <2>1, <2>8 DEF BidWellFormed
    <2>10. job'[k].paid = job[k].paid \cup {a} /\ job'[k].escrow <= job[k].escrow
      BY <2>1, <2>7 DEF ReleaseEscrow, Job
    <2> QED
      BY <2>8, <2>9, <2>10
  <1> QED
    BY <1>1, InductiveInvariant, PTL DEF Spec, PaidOnce
=============================================================================
