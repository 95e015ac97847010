-------------------------- MODULE ServiceContracts --------------------------
(* Three contracts that keep what people have paid in for a service over      *)
(* time: an AuditVault, the DataMarketplace and the SubAuction contract.      *)
(* They share no state.  Here they get constants and variables of their own,  *)
(* so that they can be checked next to another contract and proved about in   *)
(* one module; their properties have their names.                             *)
EXTENDS Integers

CONSTANTS Depositors, Monitors, Configs, Draws, Rates, Week, DepositorFunds
CONSTANTS Traders, Capacities, SubscriptionPeriod, Lifetimes, MaxPurchases, MaxListings
CONSTANTS Parties, Winners, SubTreasury, Nobody, Offers, Asks, Collaterals, MaxSubJobs
CONSTANTS VaultTime, MarketTime

VARIABLES clock
VARIABLES config, depositorBalances, currentBalance, reservedForEscrow, criticalBountyPool,
          criticalBountySpent, activeMonitor, weeklyMonitoringSpent, weeklyResetTimestamp,
          audit, spent, served, paid
VARIABLES listings, purchases, entitled
VARIABLES subJobs, subBids, late, net, scorer, halted

vaultStore == <<config, depositorBalances, currentBalance, reservedForEscrow, criticalBountyPool,
                criticalBountySpent, activeMonitor, weeklyMonitoringSpent, weeklyResetTimestamp,
                audit, spent, served, paid>>
marketStore == <<listings, purchases, entitled>>
subStore == <<subJobs, subBids, late, net, scorer, halted>>

Vault == INSTANCE AuditVault WITH
           now <- clock, Amounts <- Draws, WEEK <- Week, Funds <- DepositorFunds,
           MaxTime <- VaultTime

Market == INSTANCE DataMarketplace WITH
            now <- clock, Agents <- Traders, Period <- SubscriptionPeriod, MaxTime <- MarketTime

Sub == INSTANCE SubAuction WITH
         Agents <- Parties, Treasury <- SubTreasury, Prices <- Asks, paused <- halted

ASSUME ServiceAssumption == Vault!ConstantsOK /\ Market!ConstantsOK /\ Sub!ConstantsOK

\* Who paid into the vault, to the monitors, for a subscription or for a sub-job
\* gets what it paid for: see the modules.
VaultWithinLimits == Vault!VaultWithinLimits
PaidTimeIsKept == Market!PaidTimeIsKept
SubJobsBalance == Sub!SubJobsBalance

\* The second implementation of what AuditAuction promises of collateral: it
\* goes back in full to those who were not chosen as soon as someone is, and to the
\* contractor once, but for what a lost dispute or a missed deadline takes.
Tender == INSTANCE CollateralEscrow WITH
            Auctions <- Sub!Tenders, Owners <- Parties, Minimum <- 0,
            phase <- Sub!Phases, amount <- Sub!Deposits, purse <- Sub!Purses
TenderKeepsCollateral == Tender!Spec
=============================================================================
