------------------------- MODULE MCDelegatedStaking -------------------------
(* An instance of DelegatedStaking for TLC, and side by side with it the      *)
(* three of ServiceContracts.  A behaviour runs one of the four, and the      *)
(* others stay where they begin.                                              *)
EXTENDS DelegatedStaking, ServiceContracts, TLC

CONSTANTS d1, d2

VARIABLE part

\* The delegators of one part are depositors, traders and bidders of the others.
DelegatorSymmetry == Permutations(Delegators)

\* The creator may switch between a generous and a mean configuration.
GenerousOrMean ==
    {[weekly |-> 2, bounty |-> 2, reaudit |-> TRUE, single |-> 0, bids |-> TRUE],
     [weekly |-> 1, bounty |-> 0, reaudit |-> FALSE, single |-> 1, bids |-> FALSE]}

Runs(p) == part = p /\ UNCHANGED part

StoreInit ==
    /\ part \in {"delegation", "vault", "market", "subauction"}
    /\ Init /\ Vault!Init /\ Market!Init /\ Sub!Init
    /\ part # "vault" => config.bids

StoreNext ==
    \/ Runs("delegation") /\ Next /\ UNCHANGED <<clock, vaultStore, marketStore, subStore>>
    \/ Runs("vault") /\ Vault!Next /\ UNCHANGED <<vars, marketStore, subStore>>
    \/ Runs("market") /\ Market!Next /\ UNCHANGED <<vars, vaultStore, subStore>>
    \/ Runs("subauction") /\ Sub!Next /\ UNCHANGED <<clock, vars, vaultStore, marketStore>>

StakeAndServices ==
    StoreInit /\ [][StoreNext]_<<part, clock, vars, vaultStore, marketStore, subStore>>
=============================================================================
