----------------------------- MODULE SubAuction -----------------------------
(* SubAuction.sol: an agent that won a job puts part of it out to tender.     *)
(* The requester escrows the payment, each bidder locks a collateral, and     *)
(* both leave through one of five exits: acceptance, a dispute decided either *)
(* way, expiry, cancellation.                                                 *)
(*                                                                            *)
(* A transaction is one action and one that reverts is no step.  Whether the  *)
(* registry calls an agent active may change at any time and is left out, as  *)
(* is how much GUARD an agent has.  hasAgentSubBid allows one bid per agent   *)
(* and sub-job, so _subBids[j] is a function of the agent.  Of a deadline     *)
(* only whether it has passed is kept.                                        *)
EXTENDS Integers, Sequences, FiniteSets, Functions

CONSTANTS
    Agents,         \* wallets
    Winners,        \* those of them that won the parent jobs
    Treasury,       \* the treasury's GUARD account
    Nobody,         \* no contractor yet
    Offers,         \* what a requester may escrow
    Prices,         \* what a bidder may ask
    Collaterals,    \* what a bidder may lock
    MaxSubJobs      \* bound: sub-jobs created

VARIABLES
    subJobs,        \* status, requester, payment, selected, whether delivered
    subBids,        \* of each sub-job, the bid of each agent
    late,           \* of each, the deadlines that have passed
    net,            \* of each, what every account has gained by it
    scorer,         \* the registry lets this contract update reputations
    paused          \* Pausable

subVars == <<subJobs, subBids, late, net, scorer, paused>>

\* What the constants have to be: the treasury and the zero address are no
\* agents, and amounts of GUARD are unsigned.
ConstantsOK ==
    /\ IsFiniteSet(Agents) /\ Winners \subseteq Agents
    /\ Treasury \notin Agents /\ Nobody \notin Agents
    /\ Offers \subseteq Nat /\ Prices \subseteq Nat /\ Collaterals \subseteq Nat
    /\ MaxSubJobs \in Nat

SubJobs == DOMAIN subJobs
Accounts == Agents \cup {Treasury}
NoBid == [status |-> "NONE", price |-> 0, collateral |-> 0]
Pending(j) == {a \in Agents : subBids[j][a].status = "PENDING"}

\* What the contract's account holds, of one sub-job and of all.
Held(j) == -SumFunction(net[j])
Pool == SumFunction([j \in SubJobs |-> Held(j)])

(***************************************************************************)
(* Faulty variants, one plausible slip each; no specification uses them.   *)
(***************************************************************************)
NoDiscount(j, a) == 0         \* the excess stays in the contract

-----------------------------------------------------------------------------
\* Gains of the accounts, and their bookkeeping.

To(a, n) == [b \in Accounts |-> IF b = a THEN n ELSE 0]
Plus(g, h) == [b \in Accounts |-> g[b] + h[b]]
Refunds(j, S) == [b \in Accounts |-> IF b \in S THEN subBids[j][b].collateral ELSE 0]

\* GUARD moves between the contract and the accounts; the token service
\* refuses to move more out of the contract than it holds.
Transfer(j, gain) ==
    /\ SumFunction(gain) <= Pool
    /\ net' = [net EXCEPT ![j] = Plus(@, gain)]

\* The bids of S give up what they lock.
Refunded(j, S) ==
    [a \in Agents |-> IF a \in S
                      THEN [subBids[j][a] EXCEPT !.status = "REFUNDED", !.collateral = 0]
                      ELSE subBids[j][a]]

Becomes(j, status) == subJobs' = [subJobs EXCEPT ![j].status = status]

\* The requirements most functions begin with.
Calling(j, status) == ~paused /\ subJobs[j].status = status

-----------------------------------------------------------------------------

CreateSubAuction(requester, payment) ==
    /\ ~paused /\ Len(subJobs) < MaxSubJobs
    /\ subJobs' = Append(subJobs, [status |-> "OPEN", requester |-> requester,
                                   payment |-> payment, selected |-> Nobody,
                                   delivered |-> FALSE])
    /\ subBids' = Append(subBids, [a \in Agents |-> NoBid])
    /\ late' = Append(late, {})
    /\ net' = Append(net, To(requester, -payment))
    /\ UNCHANGED <<scorer, paused>>

SubmitSubBid(j, a, price, collateral) ==
    /\ Calling(j, "OPEN") /\ "auction" \notin late[j]
    /\ a # subJobs[j].requester /\ price <= subJobs[j].payment
    /\ subBids[j][a].status = "NONE"
    /\ Transfer(j, To(a, -collateral))
    /\ subBids' = [subBids EXCEPT ![j][a] =
                     [status |-> "PENDING", price |-> price, collateral |-> collateral]]
    /\ UNCHANGED <<subJobs, late, scorer, paused>>

\* What the requester gets back because the contractor asks for less.
Discount(j, a) == subJobs[j].payment - subBids[j][a].price

\* The deadline need not have passed, nor be ahead.  The code also provides for
\* bids accepted earlier; no sub-job has any while it is OPEN.
SelectSubContractor(j, a) ==
    LET losers == Pending(j) \ {a}
    IN  /\ Calling(j, "OPEN") /\ a \in Pending(j)
        /\ Transfer(j, Plus(Refunds(j, losers), To(subJobs[j].requester, Discount(j, a))))
        /\ subBids' = [subBids EXCEPT ![j] =
                         [Refunded(j, losers) EXCEPT ![a].status = "ACCEPTED"]]
        /\ subJobs' = [subJobs EXCEPT ![j].status = "IN_PROGRESS", ![j].selected = a,
                                      ![j].payment = subBids[j][a].price]
        /\ UNCHANGED <<late, scorer, paused>>

DeliverResult(j) ==
    /\ Calling(j, "IN_PROGRESS") /\ "sla" \notin late[j]
    /\ subJobs' = [subJobs EXCEPT ![j].status = "DELIVERED", ![j].delivered = TRUE]
    /\ UNCHANGED <<subBids, late, net, scorer, paused>>

DisputeResult(j) ==
    /\ Calling(j, "DELIVERED") /\ Becomes(j, "DISPUTED")
    /\ UNCHANGED <<subBids, late, net, scorer, paused>>

\* The end of a sub-job that has a contractor: the payment goes to one side, and
\* a share of the collateral, rounded down, to the treasury.
Settle(j, status, payee, percent) ==
    LET a == subJobs[j].selected
        slashed == (subBids[j][a].collateral * percent) \div 100
    IN  /\ Transfer(j, Plus(To(payee, subBids[j][a].price),
                            Plus(To(Treasury, slashed),
                                 To(a, subBids[j][a].collateral - slashed))))
        /\ subBids' = [subBids EXCEPT ![j] = Refunded(j, {a})]
        /\ Becomes(j, status)
        /\ UNCHANGED <<late, scorer, paused>>

\* updateReputation reverts where the registry does not know the contract.
AcceptResult(j) ==
    /\ Calling(j, "DELIVERED") /\ scorer
    /\ Settle(j, "ACCEPTED", subJobs[j].selected, 0)

ResolveDispute(j, inFavorOfContractor) ==
    /\ Calling(j, "DISPUTED")
    /\ IF inFavorOfContractor THEN Settle(j, "ACCEPTED", subJobs[j].selected, 0)
       ELSE Settle(j, "CANCELLED", subJobs[j].requester, 50)

ClaimExpired(j) ==
    /\ Calling(j, "IN_PROGRESS") /\ "sla" \in late[j] /\ ~subJobs[j].delivered /\ scorer
    /\ Settle(j, "EXPIRED", subJobs[j].requester, 25)

CancelSubAuction(j) ==
    /\ Calling(j, "OPEN")
    /\ Transfer(j, Plus(Refunds(j, Pending(j)), To(subJobs[j].requester, subJobs[j].payment)))
    /\ subBids' = [subBids EXCEPT ![j] = Refunded(j, Pending(j))]
    /\ Becomes(j, "CANCELLED")
    /\ UNCHANGED <<late, scorer, paused>>

Pause == paused' = ~paused /\ UNCHANGED <<subJobs, subBids, late, net, scorer>>

\* The owner may name another registry.
SetAgentRegistry == scorer' = ~scorer /\ UNCHANGED <<subJobs, subBids, late, net, paused>>

\* Either deadline passes; the service level's may be the earlier one.
Passes(j, deadline) ==
    /\ late' = [late EXCEPT ![j] = @ \cup {deadline}] /\ deadline \notin late[j]
    /\ UNCHANGED <<subJobs, subBids, net, scorer, paused>>

-----------------------------------------------------------------------------

Init ==
    /\ subJobs = << >> /\ subBids = << >> /\ late = << >> /\ net = << >>
    /\ scorer = FALSE /\ paused = FALSE

Next ==
    \/ \E a \in Winners, n \in Offers : CreateSubAuction(a, n)
    \/ \E j \in SubJobs :
         \/ \E a \in Agents, n \in Prices, c \in Collaterals : SubmitSubBid(j, a, n, c)
         \/ \E a \in Agents : SelectSubContractor(j, a)
         \/ DeliverResult(j) \/ AcceptResult(j) \/ DisputeResult(j)
         \/ \E verdict \in BOOLEAN : ResolveDispute(j, verdict)
         \/ ClaimExpired(j) \/ CancelSubAuction(j)
         \/ \E deadline \in {"auction", "sla"} : Passes(j, deadline)
    \/ Pause \/ SetAgentRegistry

Spec == Init /\ [][Next]_subVars

-----------------------------------------------------------------------------

\* What the contract holds of a sub-job is what it still owes: the payment while
\* the sub-job has not ended, and the collateral its bids lock.
HoldsWhatItOwes(j) ==
    LET ended == subJobs[j].status \in {"ACCEPTED", "EXPIRED", "CANCELLED"}
    IN  Held(j) = (IF ended THEN 0 ELSE subJobs[j].payment)
                    + SumFunction([a \in Agents |-> subBids[j][a].collateral])

\* How a sub-job has ended for its two parties: what the requester has gained,
\* and what became of the contractor's collateral.
EndsFairly(j) ==
    LET a == subJobs[j].selected
        r == subJobs[j].requester
    IN  /\ subJobs[j].status = "ACCEPTED" => net[j][r] = -net[j][a]
        /\ subJobs[j].status \in {"EXPIRED", "CANCELLED"} =>
              net[j][r] = 0 /\ \A b \in Agents \ {a} : net[j][b] = 0
        /\ subJobs[j].status # "OPEN" => \A b \in Agents \ {a, r} : net[j][b] = 0

\* Whatever order the calls come in, no GUARD is created, lost or left behind by
\* a sub-job: the account holds exactly what is owed, those who were not chosen
\* have their collateral back as soon as someone is, and when the sub-job ends
\* the requester has paid what the contractor has earned, or nothing.
SubJobsBalance == \A j \in SubJobs : HoldsWhatItOwes(j) /\ EndsFairly(j)

-----------------------------------------------------------------------------
(***************************************************************************)
(* The collateral alone, as CollateralEscrow sees it: one deposit per bid, *)
(* and of each agent what it has gained by bidding.  What a requester pays *)
(* or gets back for its own sub-jobs is no collateral.                     *)
(***************************************************************************)

Tenders == 1 .. MaxSubJobs

DepositPhase(b) ==
    CASE b.status = "NONE" -> "absent"
      [] b.status = "PENDING" -> "open"
      [] b.status = "ACCEPTED" -> "bound"
      [] b.status = "REFUNDED" -> "settled"

BidFor(j, a) == IF j \in SubJobs THEN subBids[j][a] ELSE NoBid
GainAsBidder(j, a) ==
    IF j \in SubJobs THEN IF subJobs[j].requester = a THEN 0 ELSE net[j][a] ELSE 0

Phases == [j \in Tenders |-> [a \in Agents |-> DepositPhase(BidFor(j, a))]]
Deposits == [j \in Tenders |-> [a \in Agents |-> BidFor(j, a).collateral]]
Purses == [a \in Agents |-> SumFunction([j \in Tenders |-> GainAsBidder(j, a)])]
=============================================================================
