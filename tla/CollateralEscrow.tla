--------------------------- MODULE CollateralEscrow ---------------------------
(***************************************************************************)
(* What an auction promises about the collateral it takes.  Each owner has *)
(* at most one deposit per auction.  A deposit is open until its auction   *)
(* is resolved; then every open deposit either goes back to its owner in   *)
(* full or is bound to the work that owner won.  A bound deposit is        *)
(* released once: returned in full (with whatever the work earned), or     *)
(* forfeited, in which case the owner still gets the part not taken.       *)
(* Nothing is paid to an owner at any other moment.                        *)
(***************************************************************************)
EXTENDS Integers

CONSTANTS
    Auctions,   \* the auctions deposits belong to
    Owners,     \* who may deposit
    Minimum     \* least amount of a deposit

VARIABLES
    phase,      \* "absent", "open", "bound" or "settled"
    amount,     \* what each deposit holds
    purse       \* what each owner has in hand

vars == <<phase, amount, purse>>

Open(g) == {o \in Owners : phase[g][o] = "open"}

Init ==
    /\ phase = [g \in Auctions |-> [o \in Owners |-> "absent"]]
    /\ amount = [g \in Auctions |-> [o \in Owners |-> 0]]
    /\ purse \in [Owners -> Nat]

\* The owner pays in, or changes what it paid in.
Deposit(g, o) ==
    /\ phase[g][o] \in {"absent", "open"}
    /\ phase' = [phase EXCEPT ![g][o] = "open"]
    /\ amount'[g][o] >= Minimum
    /\ amount' = [amount EXCEPT ![g][o] = amount'[g][o]]
    /\ purse' = [purse EXCEPT ![o] = @ + amount[g][o] - amount'[g][o]]

\* The auction is decided: R get their deposit back, the others are bound.
Resolve(g, R) ==
    /\ phase' = [phase EXCEPT ![g] = [o \in Owners |->
                   IF o \in R THEN "settled"
                   ELSE IF o \in Open(g) THEN "bound" ELSE phase[g][o]]]
    /\ amount' = [amount EXCEPT ![g] = [o \in Owners |-> IF o \in R THEN 0 ELSE amount[g][o]]]
    /\ purse' = [o \in Owners |-> IF o \in R THEN purse[o] + amount[g][o] ELSE purse[o]]

Settle(g, o) ==
    /\ phase[g][o] = "bound"
    /\ phase' = [phase EXCEPT ![g][o] = "settled"]
    /\ amount' = [amount EXCEPT ![g][o] = 0]

Release(g, o) ==
    /\ Settle(g, o)
    /\ purse'[o] >= purse[o] + amount[g][o]
    /\ purse' = [purse EXCEPT ![o] = purse'[o]]

Forfeit(g, o) ==
    /\ Settle(g, o)
    /\ purse'[o] \in purse[o]..(purse[o] + amount[g][o])
    /\ purse' = [purse EXCEPT ![o] = purse'[o]]

Next ==
    \E g \in Auctions :
      \/ \E o \in Owners : Deposit(g, o) \/ Release(g, o) \/ Forfeit(g, o)
      \/ \E R \in SUBSET Open(g) : Resolve(g, R)

Spec == Init /\ [][Next]_vars
=============================================================================
