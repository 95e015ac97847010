--------------------------- MODULE DataMarketplace ---------------------------
(* DataMarketplace.sol: agents sell each other data, once or by subscription, *)
(* to as many buyers as the seller allows and for as long as it lists them.   *)
(*                                                                            *)
(* A transaction is one action and one that reverts is no step.  A sale moves *)
(* GUARD from the buyer to the seller and the treasury and leaves none behind *)
(* in the contract, so that prices, fees, revenue and tips are left out; who  *)
(* is active in the registry may change at any time and is left out as well.  *)
(* A listing of type TIP is sold like one that is sold once.                  *)
EXTENDS Integers, Sequences, FiniteSets, FiniteSetsExt

CONSTANTS
    Agents,
    Capacities,     \* maxBuyers of a listing; 0 is unlimited
    Period,         \* subscriptionPeriod
    Lifetimes,      \* durationSeconds of a listing; 0 is unlimited
    MaxPurchases,   \* bound: purchases of one listing
    MaxListings,    \* bound: listings ever created
    MaxTime         \* bound: moments of time

VARIABLES
    now,
    listings,       \* seller, kind, maxBuyers, expiresAt, status
    purchases,      \* _purchases of each listing: buyer, end of the subscription, rating
    entitled        \* history: until when each buyer has paid for each listing

marketVars == <<now, listings, purchases, entitled>>

\* What the constants have to be: capacities and times are unsigned.
ConstantsOK == Capacities \subseteq Nat /\ Lifetimes \subseteq Nat /\ Period \in Nat

Listings == DOMAIN listings
Later(x, y) == IF x > y THEN x ELSE y
Expired(l) == listings[l].expiresAt # 0 /\ now > listings[l].expiresAt

\* hasBuyerAccess is set by the first purchase and never taken back.
Bought(l, b) == {i \in DOMAIN purchases[l] : purchases[l][i].buyer = b}
HasAccess(l, b) == Bought(l, b) # {}
Latest(l, b) == Max(Bought(l, b))

(***************************************************************************)
(* Faulty variants, one plausible slip each; no specification uses them.   *)
(***************************************************************************)
FromNow(end) == now + Period                \* the time that is left is forgotten
-----------------------------------------------------------------------------

CreateListing(seller, kind, maxBuyers, duration) ==
    /\ Len(listings) < MaxListings
    /\ listings' = Append(listings,
         [seller |-> seller, kind |-> kind, maxBuyers |-> maxBuyers, status |-> "ACTIVE",
          expiresAt |-> IF duration > 0 THEN now + duration ELSE 0])
    /\ purchases' = Append(purchases, <<>>)
    /\ entitled' = Append(entitled, [a \in Agents |-> 0])
    /\ UNCHANGED now

\* buyerCount grows by one with every purchase.
Purchasable(l) ==
    /\ listings[l].status = "ACTIVE" /\ ~Expired(l)
    /\ listings[l].maxBuyers > 0 => Len(purchases[l]) < listings[l].maxBuyers

PaysForPeriod(b, l) == entitled' = [entitled EXCEPT ![l][b] = Later(@, now) + Period]

PurchaseData(b, l) ==
    /\ Purchasable(l) /\ b # listings[l].seller /\ Len(purchases[l]) < MaxPurchases
    /\ \/ /\ listings[l].kind = "SUBSCRIPTION"
          /\ PaysForPeriod(b, l)
          /\ purchases' = [purchases EXCEPT ![l] =
                             Append(@, [buyer |-> b, rating |-> 0, end |-> now + Period])]
       \/ /\ listings[l].kind = "ONE_TIME" /\ ~HasAccess(l, b)
          /\ purchases' = [purchases EXCEPT ![l] =
                             Append(@, [buyer |-> b, rating |-> 0, end |-> 0])]
          /\ UNCHANGED entitled
    /\ listings' = [listings EXCEPT ![l].status =
                      IF Len(purchases'[l]) = listings[l].maxBuyers THEN "SOLD_OUT" ELSE @]
    /\ UNCHANGED now

\* Renewing adds a period to what is left, or to now.
Extended(end) == Later(end, now) + Period

RenewSubscription(b, l) ==
    /\ Purchasable(l) /\ listings[l].kind = "SUBSCRIPTION" /\ HasAccess(l, b)
    /\ Extended(purchases[l][Latest(l, b)].end) <= MaxTime + 2 * Period
    /\ PaysForPeriod(b, l)
    /\ purchases' = [purchases EXCEPT ![l][Latest(l, b)].end = Extended(@)]
    /\ UNCHANGED <<now, listings>>

RatePurchase(b, l, rating) ==
    /\ HasAccess(l, b)
    /\ purchases' = [purchases EXCEPT ![l][Latest(l, b)].rating = rating]
    /\ UNCHANGED <<now, listings, entitled>>

DelistData(l) ==
    /\ listings' = [listings EXCEPT ![l].status = "DELISTED"]
    /\ UNCHANGED <<now, purchases, entitled>>

Tick == now < MaxTime /\ now' = now + 1 /\ UNCHANGED <<listings, purchases, entitled>>

Init == now = 0 /\ listings = <<>> /\ purchases = <<>> /\ entitled = <<>>

Next ==
    \/ \E a \in Agents, kind \in {"ONE_TIME", "SUBSCRIPTION"}, n \in Capacities, d \in Lifetimes :
         CreateListing(a, kind, n, d)
    \/ \E b \in Agents, l \in Listings :
         PurchaseData(b, l) \/ RenewSubscription(b, l) \/ RatePurchase(b, l, 5)
    \/ \E l \in Listings : DelistData(l)
    \/ Tick

Spec == Init /\ [][Next]_marketVars

-----------------------------------------------------------------------------

\* A subscriber has access for as long as its payments say, whenever it renewed,
\* rated or let it lapse, and whatever other buyers do; only a second purchase,
\* which begins a subscription of its own, makes it lose what it had left.
PaidTimeIsKept == \A l \in Listings, b \in Agents :
    listings[l].kind = "SUBSCRIPTION" /\ HasAccess(l, b) =>
        LET end == purchases[l][Latest(l, b)].end
        IN  IF Cardinality(Bought(l, b)) = 1 THEN end = entitled[l][b] ELSE end <= entitled[l][b]
=============================================================================
