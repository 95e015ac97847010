----------------------------- MODULE AuditVault -----------------------------
(* AuditVault.sol: GUARD that anyone may deposit for the audits of one        *)
(* contract.  Drawers reserve parts of it for auctions and draw payments and  *)
(* bounties, monitoring agents underbid each other and are paid by time, and  *)
(* depositors take back what nobody has reserved.                             *)
(*                                                                            *)
(* A transaction is one action and one that reverts is no step.  Who is a     *)
(* drawer is fixed by initialize, since VaultFactory never changes it.  What  *)
(* the registry says of an agent may change at any time and is left out, as   *)
(* are scores, lists of depositors and totals for display.  Of the last audit *)
(* only whether there was one and whether there was GUARD then: its interval  *)
(* may be over, and the balance may have doubled, at any time.  No            *)
(* subscription has an end of its own: expiresAt is always zero.              *)
EXTENDS Integers, FiniteSetsExt, Functions

CONSTANTS
    Depositors,     \* who may pay in
    Monitors,       \* agents of the SPECIALIZED or PREMIUM tier
    Configs,        \* what the creator may choose: weekly, bounty, reaudit, single, bids
    Amounts,        \* what a call may ask for
    Rates,          \* what a monitor may charge per week
    WEEK,           \* the window of the monitoring budget
    Funds,          \* bound: what each depositor has in and outside the vault
    MaxTime         \* bound: moments of time

VARIABLES
    now,
    config,
    depositorBalances, currentBalance, reservedForEscrow,
    criticalBountyPool, criticalBountySpent,
    activeMonitor,  \* active, agent, weeklyRate, lastPaymentAt
    weeklyMonitoringSpent, weeklyResetTimestamp,
    audit,          \* none, done (with no GUARD left), funded, or pending again
    spent,          \* history: GUARD that left other than to depositors
    served, paid    \* history: what each monitor's rate has amounted to, and its pay

bountyVars == <<criticalBountyPool, criticalBountySpent>>
monitorVars == <<activeMonitor, weeklyMonitoringSpent, weeklyResetTimestamp, paid>>
vaultVars == <<now, config, depositorBalances, currentBalance, reservedForEscrow,
               bountyVars, monitorVars, audit, spent, served>>

\* What the constants have to be: amounts of GUARD are unsigned, and somebody
\* may monitor.
ConstantsOK ==
    /\ IsFiniteSet(Depositors) /\ Monitors # {}
    /\ Amounts \subseteq Nat /\ Rates \subseteq Nat /\ WEEK \in Nat \ {0}
    /\ Configs \subseteq [weekly: Nat, bounty: Nat, reaudit: BOOLEAN, single: Nat, bids: BOOLEAN]

Smaller(x, y) == IF x < y THEN x ELSE y
Above(x, y) == IF x > y THEN x - y ELSE 0
Available == Above(currentBalance, reservedForEscrow)

(***************************************************************************)
(* Faulty variants, one plausible slip each; no specification uses them.   *)
(***************************************************************************)
AvailableWithReserves == currentBalance
NotPaidSince(m) == m
-----------------------------------------------------------------------------
\* Deposits and withdrawals.

deposit(d, amount) ==
    /\ depositorBalances[d] + amount <= Funds
    /\ depositorBalances' = [depositorBalances EXCEPT ![d] = @ + amount]
    /\ currentBalance' = currentBalance + amount
    /\ criticalBountyPool' = criticalBountyPool +
         Smaller(amount, Above(config.bounty, criticalBountyPool))
    /\ audit' \in {audit} \cup (IF audit = "funded" THEN {"pending"} ELSE {})
    /\ UNCHANGED <<now, config, reservedForEscrow, criticalBountySpent, monitorVars, spent, served>>

\* The difference of balance and reservations is computed unsigned: while more
\* is reserved than there is, nobody can withdraw or reserve.
withdraw(d, amount) ==
    /\ depositorBalances[d] >= amount
    /\ currentBalance >= reservedForEscrow /\ Available >= amount
    /\ depositorBalances' = [depositorBalances EXCEPT ![d] = @ - amount]
    /\ currentBalance' = currentBalance - amount
    /\ UNCHANGED <<now, config, reservedForEscrow, bountyVars, monitorVars, audit, spent, served>>

-----------------------------------------------------------------------------
\* Calls of the authorized drawers.

reserveForAuction(amount) ==
    /\ config.single > 0 => amount <= config.single
    /\ currentBalance >= reservedForEscrow /\ Available >= amount
    /\ reservedForEscrow' = reservedForEscrow + amount
    /\ UNCHANGED <<now, config, depositorBalances, currentBalance, bountyVars, monitorVars,
                   audit, spent, served>>

drawPayment(amount) ==
    /\ reservedForEscrow >= amount /\ currentBalance >= amount
    /\ reservedForEscrow' = reservedForEscrow - amount
    /\ currentBalance' = currentBalance - amount
    /\ spent' = spent + amount
    /\ UNCHANGED <<now, config, depositorBalances, bountyVars, monitorVars, audit, served>>

releaseReservation(amount) ==
    /\ reservedForEscrow >= amount
    /\ reservedForEscrow' = reservedForEscrow - amount
    /\ UNCHANGED <<now, config, depositorBalances, currentBalance, bountyVars, monitorVars,
                   audit, spent, served>>

drawBounty(amount) ==
    /\ criticalBountySpent + amount <= criticalBountyPool /\ currentBalance >= amount
    /\ criticalBountySpent' = criticalBountySpent + amount
    /\ currentBalance' = currentBalance - amount
    /\ spent' = spent + amount
    /\ UNCHANGED <<now, config, depositorBalances, reservedForEscrow, criticalBountyPool,
                   monitorVars, audit, served>>

recordAuditCompletion ==
    /\ audit' = IF currentBalance > 0 THEN "funded" ELSE "done"
    /\ UNCHANGED <<now, config, depositorBalances, currentBalance, reservedForEscrow, bountyVars,
                   monitorVars, spent, served>>

-----------------------------------------------------------------------------
\* Monitoring.

WindowOver == now >= weeklyResetTimestamp + WEEK
SpentInWindow == IF WindowOver THEN 0 ELSE weeklyMonitoringSpent

\* The share of the week's rate since the last payment, within what is left of
\* the budget and of the balance.
Owed == Smaller((activeMonitor.weeklyRate * (now - activeMonitor.lastPaymentAt)) \div WEEK,
                Smaller(Above(config.weekly, SpentInWindow), Available))

PaidUpTo(m) == [m EXCEPT !.lastPaymentAt = now]

\* The monitor is paid what it is owed; subscription is what becomes of its entry.
Settled(subscription) ==
    /\ weeklyMonitoringSpent' = SpentInWindow + Owed
    /\ weeklyResetTimestamp' = IF WindowOver THEN now ELSE weeklyResetTimestamp
    /\ currentBalance' = currentBalance - Owed
    /\ spent' = spent + Owed
    /\ paid' = [paid EXCEPT ![activeMonitor.agent] = @ + Owed]
    /\ activeMonitor' = subscription
    /\ UNCHANGED <<now, config, depositorBalances, reservedForEscrow, bountyVars, audit, served>>

Subscription(a, rate) ==
    [active |-> TRUE, agent |-> a, weeklyRate |-> rate, lastPaymentAt |-> now]

applyForMonitoring(a, rate) ==
    /\ config.bids /\ rate <= config.weekly
    /\ \/ /\ activeMonitor.active /\ rate < activeMonitor.weeklyRate
          /\ Settled(Subscription(a, rate))
       \/ /\ ~activeMonitor.active
          /\ activeMonitor' = Subscription(a, rate)
          /\ UNCHANGED <<now, config, depositorBalances, currentBalance, reservedForEscrow,
                         bountyVars, weeklyMonitoringSpent, weeklyResetTimestamp, paid, audit,
                         spent, served>>

claimMonitoringPayment ==
    activeMonitor.active /\ Owed > 0 /\ Settled(PaidUpTo(activeMonitor))

NoMonitor(m) == [m EXCEPT !.active = FALSE]

cancelMonitoring ==
    activeMonitor.active /\ Settled(NoMonitor(activeMonitor))

-----------------------------------------------------------------------------
\* The creator, and whoever finds that an audit is due.

checkAndTriggerReaudit ==
    /\ config.reaudit /\ audit \in {"done", "funded"}
    /\ audit' = "pending"
    /\ UNCHANGED <<now, config, depositorBalances, currentBalance, reservedForEscrow, bountyVars,
                   monitorVars, spent, served>>

updateConfig(c) ==
    /\ c # config /\ c.bounty >= criticalBountySpent
    /\ config' = c
    /\ UNCHANGED <<now, depositorBalances, currentBalance, reservedForEscrow, bountyVars,
                   monitorVars, audit, spent, served>>

Tick ==
    /\ now < MaxTime
    /\ now' = now + 1
    /\ served' = IF activeMonitor.active
                 THEN [served EXCEPT ![activeMonitor.agent] = @ + activeMonitor.weeklyRate]
                 ELSE served
    /\ UNCHANGED <<config, depositorBalances, currentBalance, reservedForEscrow, bountyVars,
                   monitorVars, audit, spent>>

-----------------------------------------------------------------------------

Init ==
    /\ now = 0 /\ weeklyResetTimestamp = 0
    /\ config \in Configs
    /\ depositorBalances = [d \in Depositors |-> 0]
    /\ currentBalance = 0 /\ reservedForEscrow = 0
    /\ criticalBountyPool = 0 /\ criticalBountySpent = 0
    /\ activeMonitor = [active |-> FALSE, agent |-> CHOOSE a \in Monitors : TRUE,
                        weeklyRate |-> 0, lastPaymentAt |-> 0]
    /\ weeklyMonitoringSpent = 0
    /\ audit = "none"
    /\ spent = 0
    /\ served = [a \in Monitors |-> 0] /\ paid = [a \in Monitors |-> 0]

Next ==
    \/ \E amount \in Amounts :
         \/ \E d \in Depositors : deposit(d, amount) \/ withdraw(d, amount)
         \/ reserveForAuction(amount) \/ drawPayment(amount) \/ releaseReservation(amount)
         \/ drawBounty(amount)
    \/ recordAuditCompletion
    \/ \E a \in Monitors, rate \in Rates : applyForMonitoring(a, rate)
    \/ claimMonitoringPayment \/ cancelMonitoring
    \/ checkAndTriggerReaudit
    \/ \E c \in Configs : updateConfig(c)
    \/ Tick

Spec == Init /\ [][Next]_vaultVars

-----------------------------------------------------------------------------

\* What was deposited and not taken back is there or was spent, and only
\* bounties are paid out of what is reserved for auctions: neither withdrawals
\* nor monitors nor further reservations touch it, in any order.
ReservesKept ==
    /\ SumFunction(depositorBalances) = currentBalance + spent
    /\ reservedForEscrow <= currentBalance + criticalBountySpent

\* However monitors claim, underbid each other, leave and return, and whatever
\* becomes of budget and balance, none is paid more than its rates amount to for
\* the time it was the vault's monitor.
MonitorsEarnTheirRate == \A a \in Monitors : paid[a] * WEEK <= served[a]

\* Both together: what the vault spends stays within the limits set for it.
VaultWithinLimits == ReservesKept /\ MonitorsEarnTheirRate
=============================================================================
