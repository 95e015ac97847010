----------------------- MODULE DelegatedStaking_proofs -----------------------
(***************************************************************************)
(* Proofs about DelegatedStaking, for all agents, delegators, amounts,     *)
(* rates and any precision of the reward accumulator.                      *)
(*                                                                         *)
(* That rewards are covered is not inductive as it stands: the division in *)
(* _computePending rounds down, and what it cuts off is booked later, when *)
(* the accumulator grows.  The invariant therefore counts what a           *)
(* delegation is owed in units of the accumulator, before any division.    *)
(***************************************************************************)
EXTENDS DelegatedStaking, SumLemmas, FiniteSetTheorems, TLAPS

-----------------------------------------------------------------------------
(***************************************************************************)
(* Arithmetic.                                                             *)
(***************************************************************************)

LEMMA Division ==
    /\ \A x \in Nat, p \in Nat \ {0} : x \div p \in Nat /\ p * (x \div p) <= x
    /\ \A x, y \in Nat, p \in Nat \ {0} : x <= y => x \div p <= y \div p
    /\ \A p \in Nat \ {0} : 0 \div p = 0
  OBVIOUS

LEMMA Products ==
    /\ \A x, y \in Nat : x * y \in Nat
    /\ \A x, y, z \in Nat : x <= y => x * z <= y * z
    /\ \A x, y, z \in Int : x * (y + z) = x * y + x * z
    /\ \A x, y, z \in Int : (y + z) * x = y * x + z * x
  OBVIOUS

\* A share of at most all of it.
LEMMA ShareBound ==
    ASSUME NEW amount \in Nat, NEW bps \in Nat
    PROVE  /\ Share(amount, bps) \in Nat
           /\ bps <= 10000 => Share(amount, bps) <= amount
           /\ Share(0, bps) = 0
  <1>1. amount * bps \in Nat /\ (bps <= 10000 => amount * bps <= amount * 10000)
    OBVIOUS
  <1> DEFINE x == amount * bps
  <1> HIDE DEF x
  <1>2. ASSUME x \in Nat
        PROVE  x \div 10000 \in Nat /\ (x <= amount * 10000 => x \div 10000 <= amount)
    BY <1>2
  <1>3. Share(0, bps) = 0
    BY DEF Share
  <1> QED
    BY <1>1, <1>2, <1>3 DEF Share, x

-----------------------------------------------------------------------------
(***************************************************************************)
(* One delegation.                                                         *)
(***************************************************************************)

\* Its stake and booked rewards, and what it has earned since, in units of the
\* accumulator.
Owed(d, stored) ==
    (d.amount + d.unbonding + d.pending) * PRECISION + d.amount * (stored - d.paid)

SoundDelegation(d, stored) ==
    /\ d \in Delegation
    /\ d.paid <= stored
    /\ d.active <=> d.amount + d.unbonding > 0

LEMMA PrecisionPositive == PRECISION \in Nat \ {0}
  BY AmountsAssumption

LEMMA SoundFields ==
    ASSUME NEW d, NEW pool \in Pool, SoundDelegation(d, pool.stored)
    PROVE  /\ d \in Delegation /\ d.active \in BOOLEAN
           /\ d.amount \in Nat /\ d.unbonding \in Nat /\ d.completeAt \in Nat
           /\ d.pending \in Nat /\ d.paid \in Nat
           /\ pool.stored \in Nat /\ pool.stored - d.paid \in Nat
           /\ d.amount * (pool.stored - d.paid) \in Nat
           /\ Earned(d, pool) \in Nat
           /\ PRECISION * Earned(d, pool) <= d.amount * (pool.stored - d.paid)
           /\ Owed(d, pool.stored) \in Nat
           /\ d.active <=> d.amount + d.unbonding > 0
  <1>1. /\ d \in Delegation /\ d.active \in BOOLEAN
        /\ d.amount \in Nat /\ d.unbonding \in Nat /\ d.completeAt \in Nat
        /\ d.pending \in Nat /\ d.paid \in Nat
        /\ pool.stored \in Nat /\ d.paid <= pool.stored
        /\ d.active <=> d.amount + d.unbonding > 0
    BY DEF SoundDelegation, Delegation, Pool
  <1>2. pool.stored - d.paid \in Nat
    BY <1>1
  <1>3. d.amount * (pool.stored - d.paid) \in Nat
    BY <1>1, <1>2, Products
  <1>4. Earned(d, pool) \in Nat /\ PRECISION * Earned(d, pool) <= d.amount * (pool.stored - d.paid)
    BY <1>3, Division, PrecisionPositive DEF Earned
  <1>5. (d.amount + d.unbonding + d.pending) * PRECISION \in Nat
    <2>1. d.amount + d.unbonding + d.pending \in Nat /\ PRECISION \in Nat
      BY <1>1, PrecisionPositive
    <2> QED
      BY <2>1, Products
  <1>6. Owed(d, pool.stored) \in Nat
    BY <1>3, <1>5 DEF Owed
  <1> QED
    BY <1>1, <1>2, <1>3, <1>4, <1>6

\* What a delegation is owed once it has been settled: no division is pending.
LEMMA OwedSettled ==
    ASSUME NEW d, NEW stored \in Nat, d.paid = stored, d.amount \in Nat
    PROVE  Owed(d, stored) = (d.amount + d.unbonding + d.pending) * PRECISION
                               + d.amount * 0
  BY DEF Owed

\* Settling books what was earned and loses at most the part below one unit.
LEMMA SettledSound ==
    ASSUME NEW d, NEW pool \in Pool, SoundDelegation(d, pool.stored)
    PROVE  /\ SoundDelegation(Settled(d, pool), pool.stored)
           /\ Settled(d, pool).amount = d.amount
           /\ Settled(d, pool).unbonding = d.unbonding
           /\ Settled(d, pool).active = d.active
           /\ Settled(d, pool).pending = d.pending + Earned(d, pool)
           /\ Settled(d, pool).paid = pool.stored
           /\ (d.amount + d.unbonding + d.pending + Earned(d, pool)) * PRECISION
                <= Owed(d, pool.stored)
  <1> DEFINE p == d.pending + Earned(d, pool)
             q == pool.stored
  <1>0. d \in Delegation /\ p \in Nat /\ q \in Nat
    BY SoundFields
  <1>3. Settled(d, pool) = [d EXCEPT !.pending = p, !.paid = q]
    BY DEF Settled
  <1> HIDE DEF p, q
  <1> DEFINE r == [d EXCEPT !.pending = p, !.paid = q]
  <1>4. /\ r \in Delegation
        /\ r.amount = d.amount /\ r.unbonding = d.unbonding /\ r.active = d.active
        /\ r.pending = p /\ r.paid = q
    BY <1>0 DEF Delegation
  <1> HIDE DEF r
  <1>1. /\ Settled(d, pool) \in Delegation
        /\ Settled(d, pool).amount = d.amount
        /\ Settled(d, pool).unbonding = d.unbonding
        /\ Settled(d, pool).active = d.active
        /\ Settled(d, pool).pending = d.pending + Earned(d, pool)
        /\ Settled(d, pool).paid = pool.stored
    BY <1>3, <1>4 DEF r, p, q
  <1>2. SoundDelegation(Settled(d, pool), pool.stored)
    BY <1>0, <1>1, SoundFields DEF SoundDelegation, q
  <1>5. (d.amount + d.unbonding + d.pending + Earned(d, pool)) * PRECISION
          <= Owed(d, pool.stored)
    <2> DEFINE s == d.amount + d.unbonding + d.pending
               e == Earned(d, pool)
               g == d.amount * (pool.stored - d.paid)
    <2>1. e \in Nat /\ g \in Nat /\ PRECISION \in Nat /\ PRECISION * e <= g
      BY SoundFields, PrecisionPositive
    <2>2. s \in Nat
      <3>1. d.amount \in Nat /\ d.unbonding \in Nat /\ d.pending \in Nat
        BY SoundFields
      <3> QED
        BY <3>1
    <2>3. Owed(d, pool.stored) = s * PRECISION + g
      BY DEF Owed
    <2> HIDE DEF s, e, g
    <2>4. (s + e) * PRECISION = s * PRECISION + PRECISION * e
      <3>1. s \in Int /\ e \in Int /\ PRECISION \in Int
        BY <2>1, <2>2
      <3>2. (s + e) * PRECISION = s * PRECISION + e * PRECISION
        BY <3>1, Products
      <3> QED
        BY <3>1, <3>2
    <2>5. (s + e) * PRECISION <= s * PRECISION + g
      <3>1. s * PRECISION \in Nat /\ PRECISION * e \in Nat
        BY <2>1, <2>2, Products
      <3> QED
        BY <2>1, <2>4, <3>1
    <2> QED
      BY <2>3, <2>5 DEF s, e, g
  <1> QED
    BY <1>1, <1>2, <1>5

\* A delegation that gives up some of what it is owed.
LEMMA OwedFalls ==
    ASSUME NEW pool \in Pool, NEW d, SoundDelegation(d, pool.stored),
           NEW r, SoundDelegation(r, pool.stored), NEW k \in Nat,
           r.amount + r.unbonding + r.pending + k <= d.amount + d.unbonding + d.pending,
           r.amount * (pool.stored - r.paid) <= d.amount * (pool.stored - d.paid)
    PROVE  Owed(r, pool.stored) + PRECISION * k <= Owed(d, pool.stored)
  <1> DEFINE s == d.amount + d.unbonding + d.pending
             t == r.amount + r.unbonding + r.pending
             g == d.amount * (pool.stored - d.paid)
             h == r.amount * (pool.stored - r.paid)
  <1>1. s \in Nat /\ t \in Nat
    <2>1. /\ d.amount \in Nat /\ d.unbonding \in Nat /\ d.pending \in Nat
          /\ r.amount \in Nat /\ r.unbonding \in Nat /\ r.pending \in Nat
      BY SoundFields
    <2> QED
      BY <2>1
  <1>2. g \in Nat /\ h \in Nat /\ PRECISION \in Nat
    BY SoundFields, PrecisionPositive
  <1>3. t + k <= s /\ h <= g
    OBVIOUS
  <1>4. /\ Owed(d, pool.stored) = s * PRECISION + g
        /\ Owed(r, pool.stored) = t * PRECISION + h
    BY DEF Owed
  <1> HIDE DEF s, t, g, h
  <1>5. (t + k) * PRECISION <= s * PRECISION /\ t + k \in Nat
    BY <1>1, <1>2, <1>3, Products
  <1>6. (t + k) * PRECISION = t * PRECISION + PRECISION * k
    <2>1. t \in Int /\ k \in Int /\ PRECISION \in Int
      BY <1>1, <1>2
    <2>2. (t + k) * PRECISION = t * PRECISION + k * PRECISION
      BY <2>1, Products
    <2> QED
      BY <2>1, <2>2
  <1>7. s * PRECISION \in Nat /\ t * PRECISION \in Nat /\ PRECISION * k \in Nat
    BY <1>1, <1>2, Products
  <1> QED
    BY <1>2, <1>3, <1>4, <1>5, <1>6, <1>7

\* A delegation that is settled, and may take in some stake or pay some out.
LEMMA OwedOnceSettled ==
    ASSUME NEW pool \in Pool, NEW d, SoundDelegation(d, pool.stored),
           NEW r, SoundDelegation(r, pool.stored), r.paid = pool.stored,
           NEW in \in Nat, NEW out \in Nat,
           r.amount + r.unbonding + r.pending + out
             <= d.amount + d.unbonding + d.pending + Earned(d, pool) + in
    PROVE  Owed(r, pool.stored) + PRECISION * out <= Owed(d, pool.stored) + PRECISION * in
  <1> DEFINE s == d.amount + d.unbonding + d.pending + Earned(d, pool)
             t == r.amount + r.unbonding + r.pending
             o == Owed(d, pool.stored)
  <1>1. s \in Nat /\ t \in Nat
    <2>1. /\ d.amount \in Nat /\ d.unbonding \in Nat /\ d.pending \in Nat
          /\ r.amount \in Nat /\ r.unbonding \in Nat /\ r.pending \in Nat
          /\ Earned(d, pool) \in Nat
      BY SoundFields
    <2> QED
      BY <2>1
  <1>2. o \in Nat /\ PRECISION \in Nat /\ r.amount \in Nat /\ pool.stored \in Nat
    BY SoundFields, PrecisionPositive
  <1>3. s * PRECISION <= o
    BY SettledSound
  <1>4. t + out <= s + in
    OBVIOUS
  <1>5. Owed(r, pool.stored) = t * PRECISION + r.amount * (pool.stored - pool.stored)
    BY DEF Owed
  <1> HIDE DEF s, t, o
  <1>6. Owed(r, pool.stored) = t * PRECISION /\ t * PRECISION \in Nat
    <2>1. pool.stored - pool.stored = 0 /\ r.amount * 0 = 0
      BY <1>2
    <2>2. t * PRECISION \in Nat
      BY <1>1, <1>2, Products
    <2> QED
      BY <1>5, <2>1, <2>2
  <1>7. (t + out) * PRECISION <= (s + in) * PRECISION
    <2>1. t + out \in Nat /\ s + in \in Nat
      BY <1>1
    <2> QED
      BY <1>2, <1>4, <2>1, Products
  <1>8. /\ (t + out) * PRECISION = t * PRECISION + PRECISION * out
        /\ (s + in) * PRECISION = s * PRECISION + PRECISION * in
    <2>1. {s, t, in, out, PRECISION} \subseteq Int
      BY <1>1, <1>2
    <2>2. /\ (t + out) * PRECISION = t * PRECISION + out * PRECISION
          /\ (s + in) * PRECISION = s * PRECISION + in * PRECISION
      BY <2>1, Products
    <2>3. out * PRECISION = PRECISION * out /\ in * PRECISION = PRECISION * in
      BY <2>1
    <2> QED
      BY <2>2, <2>3
  <1>9. /\ s * PRECISION \in Nat /\ PRECISION * out \in Nat /\ PRECISION * in \in Nat
    BY <1>1, <1>2, Products
  <1> QED
    BY <1>2, <1>3, <1>6, <1>7, <1>8, <1>9 DEF o

\* What may be claimed from a delegation that has just been settled.
LEMMA ClaimOnceSettled ==
    ASSUME NEW pool \in Pool, NEW r, r.amount \in Nat, r.pending \in Nat, r.paid = pool.stored
    PROVE  Claimable(r, pool) = r.pending
  <1>1. pool.stored \in Nat /\ pool.stored - r.paid = 0
    BY DEF Pool
  <1>2. r.amount * (pool.stored - r.paid) = 0
    BY <1>1
  <1>3. Earned(r, pool) = 0
    BY <1>2, Division, PrecisionPositive DEF Earned
  <1> QED
    BY <1>3 DEF Claimable

\* Nothing is earned on nothing.
LEMMA NothingEarned ==
    ASSUME NEW pool \in Pool, NEW d, SoundDelegation(d, pool.stored), d.amount = 0
    PROVE  Earned(d, pool) = 0
  <1>1. d.amount * (pool.stored - d.paid) = 0
    <2>1. pool.stored - d.paid \in Nat
      BY SoundFields
    <2> QED
      BY <2>1
  <1> QED
    BY <1>1, Division, PrecisionPositive DEF Earned

LEMMA JoinedSound ==
    ASSUME NEW pool \in Pool, NEW d, SoundDelegation(d, pool.stored), NEW amount \in Nat \ {0}
    PROVE  LET r == Joined(d, pool, amount) IN
           /\ SoundDelegation(r, pool.stored)
           /\ r.amount = d.amount + amount /\ r.active
           /\ Owed(r, pool.stored) <= Owed(d, pool.stored) + PRECISION * amount
           /\ Claimable(r, pool) = Claimable(d, pool)
  <1> DEFINE base == IF d.active THEN Settled(d, pool)
                     ELSE [d EXCEPT !.active = TRUE, !.paid = pool.stored]
             r == [base EXCEPT !.amount = base.amount + amount]
  <1>1. Joined(d, pool, amount) = r
    BY DEF Joined
  <1>2. /\ base \in Delegation /\ base.active /\ base.amount = d.amount
        /\ base.unbonding = d.unbonding /\ base.paid = pool.stored
        /\ base.pending = d.pending + Earned(d, pool)
    <2>1. CASE d.active
      BY <2>1, SettledSound DEF SoundDelegation
    <2>2. CASE ~d.active
      <3>1. d \in Delegation /\ pool.stored \in Nat /\ d.pending \in Nat /\ d.amount = 0
        BY <2>2, SoundFields
      <3>2. Earned(d, pool) = 0
        BY <3>1, NothingEarned
      <3> DEFINE o == [d EXCEPT !.active = TRUE, !.paid = pool.stored]
      <3>3. /\ o \in Delegation /\ o.active /\ o.amount = d.amount /\ o.unbonding = d.unbonding
            /\ o.paid = pool.stored /\ o.pending = d.pending
        BY <3>1 DEF Delegation
      <3> QED
        BY <2>2, <3>1, <3>2, <3>3
    <2> QED
      BY <2>1, <2>2
  <1> HIDE DEF base
  <1>3. /\ r \in Delegation /\ r.active /\ r.amount = d.amount + amount
        /\ r.unbonding = d.unbonding /\ r.paid = pool.stored
        /\ r.pending = d.pending + Earned(d, pool)
    <2>1. base.amount + amount \in Nat
      BY <1>2, SoundFields
    <2> QED
      BY <1>2, <2>1 DEF Delegation
  <1> HIDE DEF r
  <1>4. /\ d.amount \in Nat /\ d.unbonding \in Nat /\ d.pending \in Nat
        /\ Earned(d, pool) \in Nat /\ pool.stored \in Nat
    BY SoundFields
  <1>5. SoundDelegation(r, pool.stored)
    BY <1>3, <1>4 DEF SoundDelegation
  <1>6. Owed(r, pool.stored) + PRECISION * 0 <= Owed(d, pool.stored) + PRECISION * amount
    <2>1. r.amount + r.unbonding + r.pending + 0
            <= d.amount + d.unbonding + d.pending + Earned(d, pool) + amount
      BY <1>3, <1>4
    <2> QED
      BY <1>3, <1>5, <2>1, OwedOnceSettled
  <1>7. Owed(r, pool.stored) \in Nat /\ PRECISION * 0 = 0
    BY <1>5, SoundFields, PrecisionPositive
  <1>8. Claimable(r, pool) = Claimable(d, pool)
    <2>1. r.amount \in Nat /\ r.pending \in Nat
      BY <1>3, <1>4
    <2> QED
      BY <1>3, <2>1, ClaimOnceSettled DEF Claimable
  <1> QED
    BY <1>1, <1>3, <1>5, <1>6, <1>7, <1>8

LEMMA LeftSound ==
    ASSUME NEW pool \in Pool, NEW d, SoundDelegation(d, pool.stored), now \in Nat,
           NEW amount \in Nat \ {0}, amount <= d.amount, d.unbonding = 0
    PROVE  LET r == Left(d, pool, amount) IN
           /\ Leaving(d, amount) \in Nat /\ Leaving(d, amount) <= d.amount
           /\ SoundDelegation(r, pool.stored)
           /\ r.amount = d.amount - Leaving(d, amount) /\ r.active = d.active
           /\ Owed(r, pool.stored) <= Owed(d, pool.stored)
           /\ Claimable(r, pool) = Claimable(d, pool)
  <1> DEFINE base == Settled(d, pool)
             L == Leaving(d, amount)
             at == now + UnbondingPeriod
             rest == d.amount - L
             r == [base EXCEPT !.amount = rest, !.unbonding = L, !.completeAt = at]
  <1>1. /\ d.amount \in Nat /\ d.unbonding \in Nat /\ d.pending \in Nat
        /\ Earned(d, pool) \in Nat /\ pool.stored \in Nat
    BY SoundFields
  <1>2. /\ base \in Delegation /\ base.amount = d.amount /\ base.active = d.active
        /\ base.paid = pool.stored /\ base.pending = d.pending + Earned(d, pool)
    BY SettledSound DEF SoundDelegation
  <1>3. L \in Nat /\ L <= d.amount /\ L > 0
    <2>1. L \in {d.amount, amount}
      BY DEF Leaving
    <2> HIDE DEF L
    <2> QED
      BY <1>1, <2>1
  <1>4. at \in Nat
    <2>1. UnbondingPeriod \in Nat
      BY AmountsAssumption
    <2> QED
      BY <2>1
  <1>5. Left(d, pool, amount) = r
    BY <1>2 DEF Left
  <1>6. rest \in Nat /\ rest + L = d.amount
    BY <1>1, <1>3
  <1> HIDE DEF base, L, at, rest
  <1>7. /\ r \in Delegation /\ r.active = d.active /\ r.amount = rest /\ r.unbonding = L
        /\ r.paid = pool.stored /\ r.pending = d.pending + Earned(d, pool)
    BY <1>2, <1>3, <1>4, <1>6 DEF Delegation
  <1> HIDE DEF r
  <1>8. d.active
    BY <1>1 DEF SoundDelegation
  <1>9. SoundDelegation(r, pool.stored)
    BY <1>1, <1>3, <1>6, <1>7, <1>8 DEF SoundDelegation
  <1>10. Owed(r, pool.stored) + PRECISION * 0 <= Owed(d, pool.stored) + PRECISION * 0
    <2>1. r.amount + r.unbonding + r.pending + 0
            <= d.amount + d.unbonding + d.pending + Earned(d, pool) + 0
      BY <1>1, <1>3, <1>6, <1>7
    <2> QED
      BY <1>7, <1>9, <2>1, OwedOnceSettled
  <1>11. Owed(r, pool.stored) \in Nat /\ Owed(d, pool.stored) \in Nat /\ PRECISION * 0 = 0
    <2>1. Owed(d, pool.stored) \in Nat
      BY SoundFields
    <2>2. Owed(r, pool.stored) \in Nat
      BY <1>9, SoundFields
    <2> QED
      BY <2>1, <2>2, PrecisionPositive
  <1>12. Claimable(r, pool) = Claimable(d, pool)
    <2>1. r.amount \in Nat /\ r.pending \in Nat
      BY <1>1, <1>6, <1>7
    <2> QED
      BY <1>7, <2>1, ClaimOnceSettled DEF Claimable
  <1> QED
    BY <1>3, <1>5, <1>7, <1>9, <1>10, <1>11, <1>12 DEF L, rest

LEMMA CompletedSound ==
    ASSUME NEW pool \in Pool, NEW d, SoundDelegation(d, pool.stored), d.active
    PROVE  LET r == Completed(d) IN
           /\ SoundDelegation(r, pool.stored)
           /\ r.amount = d.amount /\ (r.active <=> d.amount # 0)
           /\ Owed(r, pool.stored) + PRECISION * d.unbonding <= Owed(d, pool.stored)
           /\ Claimable(r, pool) = Claimable(d, pool)
  <1> DEFINE b == d.amount > 0
             r == [d EXCEPT !.unbonding = 0, !.completeAt = 0, !.active = b]
  <1>1. /\ d \in Delegation /\ d.amount \in Nat /\ d.unbonding \in Nat /\ d.pending \in Nat
        /\ d.paid \in Nat /\ pool.stored \in Nat /\ d.paid <= pool.stored
    BY SoundFields DEF SoundDelegation
  <1>2. b \in BOOLEAN /\ (b <=> d.amount # 0)
    BY <1>1
  <1>3. Completed(d) = r
    BY DEF Completed
  <1> HIDE DEF b
  <1>4. /\ r \in Delegation /\ r.active = b /\ r.amount = d.amount /\ r.unbonding = 0
        /\ r.paid = d.paid /\ r.pending = d.pending
    BY <1>1, <1>2 DEF Delegation
  <1> HIDE DEF r
  <1>5. SoundDelegation(r, pool.stored)
    BY <1>1, <1>2, <1>4 DEF SoundDelegation
  <1>6. Owed(r, pool.stored) + PRECISION * d.unbonding <= Owed(d, pool.stored)
    <2>1. r.amount + r.unbonding + r.pending + d.unbonding <= d.amount + d.unbonding + d.pending
      BY <1>1, <1>4
    <2>2. r.amount * (pool.stored - r.paid) <= d.amount * (pool.stored - d.paid)
      <3>1. d.amount * (pool.stored - d.paid) \in Nat
        BY SoundFields
      <3> QED
        BY <3>1, <1>4
    <2> QED
      BY <1>1, <1>5, <2>1, <2>2, OwedFalls
  <1> QED
    BY <1>2, <1>3, <1>4, <1>5, <1>6 DEF Claimable, Earned

LEMMA ClaimedSound ==
    ASSUME NEW pool \in Pool, NEW d, SoundDelegation(d, pool.stored)
    PROVE  LET r == Claimed(d, pool) IN
           /\ SoundDelegation(r, pool.stored)
           /\ r.amount = d.amount /\ r.active = d.active
           /\ Claimable(d, pool) \in Nat
           /\ Owed(r, pool.stored) + PRECISION * Claimable(d, pool) <= Owed(d, pool.stored)
           /\ Claimable(r, pool) = 0
  <1> DEFINE base == Settled(d, pool)
             r == [base EXCEPT !.pending = 0]
  <1>1. /\ d.amount \in Nat /\ d.unbonding \in Nat /\ d.pending \in Nat
        /\ Earned(d, pool) \in Nat /\ pool.stored \in Nat
        /\ (d.active <=> d.amount + d.unbonding > 0)
    BY SoundFields
  <1>2. /\ base \in Delegation /\ base.amount = d.amount /\ base.active = d.active
        /\ base.unbonding = d.unbonding /\ base.paid = pool.stored
    BY SettledSound DEF SoundDelegation
  <1>3. Claimed(d, pool) = r
    BY DEF Claimed
  <1> HIDE DEF base
  <1>4. /\ r \in Delegation /\ r.active = d.active /\ r.amount = d.amount
        /\ r.unbonding = d.unbonding /\ r.paid = pool.stored /\ r.pending = 0
    BY <1>2 DEF Delegation
  <1> HIDE DEF r
  <1>5. SoundDelegation(r, pool.stored)
    BY <1>1, <1>4 DEF SoundDelegation
  <1>6. Claimable(d, pool) \in Nat /\ Claimable(d, pool) = d.pending + Earned(d, pool)
    BY <1>1 DEF Claimable
  <1>7. Owed(r, pool.stored) + PRECISION * Claimable(d, pool)
          <= Owed(d, pool.stored) + PRECISION * 0
    <2>1. r.amount + r.unbonding + r.pending + Claimable(d, pool)
            <= d.amount + d.unbonding + d.pending + Earned(d, pool) + 0
      BY <1>1, <1>4, <1>6
    <2> QED
      BY <1>4, <1>5, <1>6, <2>1, OwedOnceSettled
  <1>8. PRECISION * 0 = 0 /\ Owed(d, pool.stored) \in Nat
    BY SoundFields, PrecisionPositive
  <1>9. Claimable(r, pool) = 0
    BY <1>1, <1>4, ClaimOnceSettled
  <1> QED
    BY <1>3, <1>4, <1>5, <1>6, <1>7, <1>8, <1>9

\* A delegation with other stake in it.
WithStake(d, am, un) == [d EXCEPT !.amount = am, !.unbonding = un, !.active = am + un > 0]

LEMMA StakeRewritten ==
    ASSUME NEW d \in Delegation, NEW am \in Nat, NEW un \in Nat
    PROVE  LET q == WithStake(d, am, un) IN
           /\ q \in Delegation /\ q.amount = am /\ q.unbonding = un
           /\ q.pending = d.pending /\ q.paid = d.paid
           /\ q.active <=> am + un > 0
  <1>1. CASE am + un > 0
    <2> DEFINE q == [d EXCEPT !.amount = am, !.unbonding = un, !.active = TRUE]
    <2>1. WithStake(d, am, un) = q
      BY <1>1 DEF WithStake
    <2>2. /\ q \in Delegation /\ q.amount = am /\ q.unbonding = un /\ q.active = TRUE
          /\ q.pending = d.pending /\ q.paid = d.paid
      BY DEF Delegation
    <2> QED
      BY <1>1, <2>1, <2>2
  <1>2. CASE ~(am + un > 0)
    <2> DEFINE q == [d EXCEPT !.amount = am, !.unbonding = un, !.active = FALSE]
    <2>0. (am + un > 0) = FALSE
      BY <1>2
    <2>1. WithStake(d, am, un) = q
      BY ONLY <2>0 DEF q, WithStake
    <2>2. /\ q \in Delegation /\ q.amount = am /\ q.unbonding = un /\ q.active = FALSE
          /\ q.pending = d.pending /\ q.paid = d.paid
      BY DEF Delegation
    <2> QED
      BY <1>2, <2>1, <2>2
  <1> QED
    BY <1>1, <1>2

\* A slash takes stake, and with it what had been earned on it and not settled.
LEMMA SlashedSound ==
    ASSUME NEW pool \in Pool, NEW d, SoundDelegation(d, pool.stored),
           NEW bps \in Nat, bps <= 10000
    PROVE  LET r == Slashed(d, bps)
               share == IF Slashable(d) THEN Share(d.amount, bps) ELSE 0
               taken == d.amount + d.unbonding - r.amount - r.unbonding
           IN
           /\ SoundDelegation(r, pool.stored)
           /\ share \in Nat /\ share <= d.amount /\ r.amount = d.amount - share
           /\ taken \in Nat /\ share <= taken
           /\ r.active => d.active
           /\ Owed(r, pool.stored) + PRECISION * taken <= Owed(d, pool.stored)
           /\ Claimable(r, pool) <= Claimable(d, pool)
           /\ Claimable(r, pool) \in Nat /\ Claimable(d, pool) \in Nat
           /\ Claimable(r, pool) # Claimable(d, pool) => share > 0
  <1> DEFINE r == Slashed(d, bps)
             share == IF Slashable(d) THEN Share(d.amount, bps) ELSE 0
             held == IF Slashable(d) THEN Share(d.unbonding, bps) ELSE 0
             taken == d.amount + d.unbonding - r.amount - r.unbonding
  <1>1. /\ d \in Delegation /\ d.active \in BOOLEAN
        /\ d.amount \in Nat /\ d.unbonding \in Nat /\ d.pending \in Nat /\ d.paid \in Nat
        /\ pool.stored \in Nat /\ d.paid <= pool.stored /\ pool.stored - d.paid \in Nat
        /\ (d.active <=> d.amount + d.unbonding > 0)
    BY SoundFields DEF SoundDelegation
  <1>2. /\ share \in Nat /\ share <= d.amount
        /\ held \in Nat /\ held <= d.unbonding
    <2> HIDE DEF r, share, held, taken
    <2>1. \A n \in Nat : Share(n, bps) \in Nat /\ Share(n, bps) <= n
      BY ShareBound
    <2>2. d.amount \in Nat /\ d.unbonding \in Nat
      BY <1>1
    <2> QED
      BY <2>1, <2>2 DEF share, held
  <1>3. /\ r \in Delegation /\ r.amount = d.amount - share /\ r.unbonding = d.unbonding - held
        /\ r.pending = d.pending /\ r.paid = d.paid
        /\ (r.active <=> r.amount + r.unbonding > 0) /\ (r.active => d.active)
    <2>1. CASE ~Slashable(d)
      <3>1. r = d /\ share = 0 /\ held = 0
        BY <2>1 DEF Slashed
      <3> HIDE DEF r, share, held
      <3> QED
        BY <1>1, <3>1
    <2>2. CASE Slashable(d)
      <3>1. d.amount - share \in Nat /\ d.unbonding - held \in Nat
        <4> HIDE DEF share, held
        <4> QED
          BY <1>1, <1>2
      <3>2. PICK am \in Nat, un \in Nat : am = d.amount - share /\ un = d.unbonding - held
        BY <3>1
      <3>3. am = d.amount - Share(d.amount, bps) /\ un = d.unbonding - Share(d.unbonding, bps)
        BY <2>2, <3>2
      <3>4. r = WithStake(d, am, un)
        BY <2>2, <3>3 DEF Slashed, WithStake
      <3>5. d \in Delegation /\ d.active
        BY <1>1, <2>2 DEF Slashable
      <3> HIDE DEF r, share, held, taken
      <3>6. /\ r \in Delegation /\ r.amount = am /\ r.unbonding = un
            /\ r.pending = d.pending /\ r.paid = d.paid
            /\ r.active <=> am + un > 0
        BY <3>4, <3>5, StakeRewritten
      <3> QED
        BY <3>2, <3>5, <3>6
    <2> QED
      BY <2>1, <2>2
  <1>4. taken = d.amount + d.unbonding - r.amount - r.unbonding
    OBVIOUS
  <1>5. share = 0 => held = 0 \/ Slashable(d)
    OBVIOUS
  <1>6. /\ Slashed(d, bps) = r
        /\ share = (IF Slashable(d) THEN Share(d.amount, bps) ELSE 0)
    OBVIOUS
  <1> HIDE DEF r, share, held, taken
  <1>7. taken = share + held /\ taken \in Nat /\ share <= taken
    BY <1>1, <1>2, <1>3, <1>4
  <1>8. SoundDelegation(r, pool.stored)
    BY <1>1, <1>3 DEF SoundDelegation
  <1>9. r.amount \in Nat /\ r.unbonding \in Nat /\ r.amount <= d.amount
    BY <1>1, <1>2, <1>3
  <1>10. /\ r.amount * (pool.stored - r.paid) <= d.amount * (pool.stored - d.paid)
         /\ r.amount * (pool.stored - r.paid) \in Nat /\ d.amount * (pool.stored - d.paid) \in Nat
    BY <1>1, <1>3, <1>9, Products
  <1>11. Owed(r, pool.stored) + PRECISION * taken <= Owed(d, pool.stored)
    <2>1. r.amount + r.unbonding + r.pending + taken <= d.amount + d.unbonding + d.pending
      BY <1>1, <1>2, <1>3, <1>7
    <2> QED
      BY <1>7, <1>8, <1>10, <2>1, OwedFalls
  <1>12. Earned(r, pool) <= Earned(d, pool) /\ Earned(r, pool) \in Nat /\ Earned(d, pool) \in Nat
    BY <1>10, Division, PrecisionPositive DEF Earned
  <1>13. /\ Claimable(r, pool) = d.pending + Earned(r, pool)
         /\ Claimable(d, pool) = d.pending + Earned(d, pool)
    BY <1>3 DEF Claimable
  <1>14. share = 0 => Earned(r, pool) = Earned(d, pool)
    <2>1. share = 0 => r.amount = d.amount
      BY <1>1, <1>3
    <2> QED
      BY <1>3, <2>1 DEF Earned
  <1>15. /\ Claimable(r, pool) <= Claimable(d, pool)
         /\ Claimable(r, pool) \in Nat /\ Claimable(d, pool) \in Nat
         /\ (Claimable(r, pool) # Claimable(d, pool) => share > 0)
    BY <1>1, <1>2, <1>12, <1>13, <1>14
  <1> QED
    BY <1>2, <1>3, <1>4, <1>6, <1>7, <1>8, <1>11, <1>15

\* The accumulator grows.
LEMMA RaisedSound ==
    ASSUME NEW pool \in Pool, NEW d, SoundDelegation(d, pool.stored), NEW x \in Nat,
           NEW pool2 \in Pool, pool2.stored = pool.stored + x
    PROVE  /\ SoundDelegation(d, pool2.stored)
           /\ Owed(d, pool2.stored) = Owed(d, pool.stored) + x * d.amount
           /\ Claimable(d, pool) <= Claimable(d, pool2)
  <1>1. /\ d \in Delegation /\ d.amount \in Nat /\ d.pending \in Nat /\ d.paid \in Nat
        /\ pool.stored \in Nat /\ pool.stored - d.paid \in Nat
        /\ pool2.stored - d.paid = (pool.stored - d.paid) + x
        /\ d.paid <= pool.stored
    <2>1. /\ d \in Delegation /\ d.amount \in Nat /\ d.pending \in Nat /\ d.paid \in Nat
          /\ pool.stored \in Nat /\ pool.stored - d.paid \in Nat /\ d.paid <= pool.stored
      BY SoundFields DEF SoundDelegation
    <2> QED
      BY <2>1
  <1>2. SoundDelegation(d, pool2.stored)
    BY <1>1 DEF SoundDelegation
  <1> DEFINE g == pool.stored - d.paid
             b == (d.amount + d.unbonding + d.pending) * PRECISION
  <1>3. g \in Nat /\ pool2.stored - d.paid = g + x /\ b \in Nat
    <2>1. d.unbonding \in Nat
      BY SoundFields
    <2>2. d.amount + d.unbonding + d.pending \in Nat /\ PRECISION \in Nat
      BY <1>1, <2>1, PrecisionPositive
    <2> QED
      BY <1>1, <2>2, Products
  <1>4. Owed(d, pool2.stored) = b + d.amount * (pool2.stored - d.paid)
        /\ Owed(d, pool.stored) = b + d.amount * g
    BY DEF Owed
  <1>5. /\ Earned(d, pool) = (d.amount * g) \div PRECISION
        /\ Earned(d, pool2) = (d.amount * (pool2.stored - d.paid)) \div PRECISION
    BY DEF Earned
  <1> HIDE DEF g, b
  <1>6. d.amount * (g + x) = d.amount * g + x * d.amount
    <2>1. d.amount \in Int /\ g \in Int /\ x \in Int
      BY <1>1, <1>3
    <2>2. d.amount * (g + x) = d.amount * g + d.amount * x
      BY <2>1, Products
    <2> QED
      BY <2>1, <2>2
  <1>7. d.amount * g \in Nat /\ x * d.amount \in Nat
    BY <1>1, <1>3, Products
  <1>8. Owed(d, pool2.stored) = Owed(d, pool.stored) + x * d.amount
    BY <1>3, <1>4, <1>6, <1>7
  <1>9. /\ Earned(d, pool) <= Earned(d, pool2)
        /\ Earned(d, pool) \in Nat /\ Earned(d, pool2) \in Nat
    <2> DEFINE m == d.amount * g
               n == d.amount * (g + x)
    <2>1. m \in Nat /\ n \in Nat /\ m <= n
      BY <1>6, <1>7
    <2>2. Earned(d, pool) = m \div PRECISION /\ Earned(d, pool2) = n \div PRECISION
      BY <1>3, <1>5
    <2> HIDE DEF m, n
    <2> QED
      BY <2>1, <2>2, Division, PrecisionPositive
  <1> QED
    BY <1>1, <1>2, <1>8, <1>9 DEF Claimable

-----------------------------------------------------------------------------
(***************************************************************************)
(* One agent's pool: D is its delegations.                                 *)
(***************************************************************************)

AmountsOf(D) == SumFunctionOnSet([d \in Delegators |-> D[d].amount], Delegators)

OwedIn(D, stored) == SumFunctionOnSet([d \in Delegators |-> Owed(D[d], stored)], Delegators)

OpenIn(D) == {d \in Delegators : D[d].active}

SoundPool(D, pool) ==
    /\ pool \in Pool
    /\ D \in [Delegators -> Delegation]
    /\ \A d \in Delegators : SoundDelegation(D[d], pool.stored)
    /\ pool.total = AmountsOf(D)
    /\ pool.count = Cardinality(OpenIn(D))

LEMMA SetsFinite == IsFiniteSet(Agents) /\ IsFiniteSet(Delegators)
  BY AccountsAssumption

LEMMA PoolBounds ==
    ASSUME NEW pool, NEW D, SoundPool(D, pool)
    PROVE  /\ pool.stored \in Nat /\ pool.total \in Nat /\ pool.count \in Nat
           /\ \A d \in Delegators : D[d].amount <= pool.total
           /\ OwedIn(D, pool.stored) \in Nat
           /\ AmountsOf(D) \in Nat
           /\ IsFiniteSet(OpenIn(D))
  <1> DEFINE amounts == [d \in Delegators |-> D[d].amount]
             owed == [d \in Delegators |-> Owed(D[d], pool.stored)]
  <1>1. /\ \A d \in Delegators : amounts[d] \in Nat /\ amounts[d] = D[d].amount
        /\ \A d \in Delegators : owed[d] \in Nat
    BY SoundFields DEF SoundPool
  <1>2. AmountsOf(D) = SumFunctionOnSet(amounts, Delegators)
        /\ OwedIn(D, pool.stored) = SumFunctionOnSet(owed, Delegators)
    BY DEF AmountsOf, OwedIn
  <1> HIDE DEF amounts, owed
  <1>3. /\ SumFunctionOnSet(amounts, Delegators) \in Nat
        /\ \A d \in Delegators : amounts[d] <= SumFunctionOnSet(amounts, Delegators)
        /\ SumFunctionOnSet(owed, Delegators) \in Nat
    BY <1>1, SetsFinite, SumAtLeast
  <1>4. pool.total = AmountsOf(D) /\ pool \in Pool
    BY DEF SoundPool
  <1>5. OpenIn(D) \subseteq Delegators
    BY DEF OpenIn
  <1>6. IsFiniteSet(OpenIn(D))
    BY <1>5, SetsFinite, FS_Subset
  <1>7. pool.stored \in Nat /\ pool.total \in Nat /\ pool.count \in Nat
    BY <1>4 DEF Pool
  <1> QED
    BY <1>1, <1>2, <1>3, <1>4, <1>6, <1>7

\* One delegation of the pool is rewritten, and the pool's books with it.
LEMMA OneRewritten ==
    ASSUME NEW pool, NEW D, SoundPool(D, pool), NEW e \in Delegators,
           NEW r, SoundDelegation(r, pool.stored),
           NEW pool2 \in Pool, pool2.stored = pool.stored,
           pool2.total = pool.total + r.amount - D[e].amount,
           /\ r.active = D[e].active => pool2.count = pool.count
           /\ r.active /\ ~D[e].active => pool2.count = pool.count + 1
           /\ ~r.active /\ D[e].active => pool2.count = pool.count - 1
    PROVE  /\ SoundPool([D EXCEPT ![e] = r], pool2)
           /\ OwedIn([D EXCEPT ![e] = r], pool2.stored)
                = OwedIn(D, pool.stored) + Owed(r, pool.stored) - Owed(D[e], pool.stored)
           /\ pool2.total - pool.total = r.amount - D[e].amount
  <1> DEFINE D2 == [D EXCEPT ![e] = r]
             am1 == [d \in Delegators |-> D[d].amount]
             am2 == [d \in Delegators |-> D2[d].amount]
             ow1 == [d \in Delegators |-> Owed(D[d], pool.stored)]
             ow2 == [d \in Delegators |-> Owed(D2[d], pool.stored)]
  <1>1. /\ pool \in Pool /\ D \in [Delegators -> Delegation] /\ r \in Delegation
        /\ \A d \in Delegators : SoundDelegation(D[d], pool.stored)
        /\ pool.total = AmountsOf(D) /\ pool.count = Cardinality(OpenIn(D))
    BY DEF SoundPool, SoundDelegation
  <1>2. /\ D2 \in [Delegators -> Delegation] /\ D2[e] = r
        /\ \A d \in Delegators \ {e} : D2[d] = D[d]
    BY <1>1
  <1> HIDE DEF D2
  <1>3. \A d \in Delegators : SoundDelegation(D2[d], pool.stored)
    BY <1>1, <1>2
  <1>4. /\ \A d \in Delegators : am1[d] \in Int /\ am2[d] \in Int
        /\ \A d \in Delegators \ {e} : am1[d] = am2[d]
        /\ am1[e] = D[e].amount /\ am2[e] = r.amount
    <2>1. \A d \in Delegators : D[d].amount \in Nat /\ D2[d].amount \in Nat
      BY <1>1, <1>2 DEF Delegation
    <2> QED
      BY <1>2, <2>1
  <1>5. /\ \A d \in Delegators : ow1[d] \in Int /\ ow2[d] \in Int
        /\ \A d \in Delegators \ {e} : ow1[d] = ow2[d]
        /\ ow1[e] = Owed(D[e], pool.stored) /\ ow2[e] = Owed(r, pool.stored)
    <2>1. \A d \in Delegators : Owed(D[d], pool.stored) \in Nat /\ Owed(D2[d], pool.stored) \in Nat
      BY <1>1, <1>3, SoundFields
    <2> QED
      BY <1>2, <2>1
  <1>6. /\ AmountsOf(D) = SumFunctionOnSet(am1, Delegators)
        /\ AmountsOf(D2) = SumFunctionOnSet(am2, Delegators)
        /\ OwedIn(D, pool.stored) = SumFunctionOnSet(ow1, Delegators)
        /\ OwedIn(D2, pool2.stored) = SumFunctionOnSet(ow2, Delegators)
    BY DEF AmountsOf, OwedIn
  <1> HIDE DEF am1, am2, ow1, ow2
  <1>7. /\ SumFunctionOnSet(am2, Delegators) = SumFunctionOnSet(am1, Delegators) + am2[e] - am1[e]
        /\ SumFunctionOnSet(ow2, Delegators) = SumFunctionOnSet(ow1, Delegators) + ow2[e] - ow1[e]
    <2>1. SumFunctionOnSet(am2, Delegators)
            = SumFunctionOnSet(am1, Delegators) + am2[e] - am1[e]
      BY <1>4, SetsFinite, SumOneChanged
    <2>2. SumFunctionOnSet(ow2, Delegators)
            = SumFunctionOnSet(ow1, Delegators) + ow2[e] - ow1[e]
      <3>1. /\ \A d \in Delegators : ow1[d] \in Int /\ ow2[d] \in Int
            /\ \A d \in Delegators \ {e} : ow1[d] = ow2[d]
        BY <1>5
      <3> QED
        BY <3>1, SetsFinite, SumOneChanged
    <2> QED
      BY <2>1, <2>2
  <1>8. pool2.count = Cardinality(OpenIn(D2))
    <2>1. IsFiniteSet(OpenIn(D)) /\ Cardinality(OpenIn(D)) \in Nat
      BY PoolBounds, FS_CardinalityType
    <2>2. r.active \in BOOLEAN /\ D[e].active \in BOOLEAN
      BY <1>1 DEF Delegation
    <2>3. CASE r.active = D[e].active
      <3>1. OpenIn(D2) = OpenIn(D)
        BY <1>2, <2>3 DEF OpenIn
      <3> QED
        BY <1>1, <2>3, <3>1
    <2>4. CASE r.active /\ ~D[e].active
      <3>1. OpenIn(D2) = OpenIn(D) \cup {e} /\ e \notin OpenIn(D)
        BY <1>2, <2>4 DEF OpenIn
      <3> QED
        BY <1>1, <2>1, <2>4, <3>1, FS_AddElement
    <2>5. CASE ~r.active /\ D[e].active
      <3>1. OpenIn(D2) = OpenIn(D) \ {e} /\ e \in OpenIn(D)
        BY <1>2, <2>5 DEF OpenIn
      <3> QED
        BY <1>1, <2>1, <2>5, <3>1, FS_RemoveElement
    <2> QED
      BY <2>2, <2>3, <2>4, <2>5
  <1>9. SoundPool(D2, pool2)
    <2>1. pool2.total = AmountsOf(D2)
      BY <1>1, <1>4, <1>6, <1>7
    <2>2. \A d \in Delegators : SoundDelegation(D2[d], pool2.stored)
      BY <1>3
    <2> QED
      BY <1>2, <1>8, <2>1, <2>2 DEF SoundPool
  <1>10. pool2.total - pool.total = r.amount - D[e].amount
    <2>1. pool.total \in Int /\ r.amount \in Int /\ D[e].amount \in Int
      BY <1>1 DEF Pool, Delegation
    <2> QED
      BY <2>1
  <1> QED
    BY <1>5, <1>6, <1>7, <1>9, <1>10 DEF D2

-----------------------------------------------------------------------------
(***************************************************************************)
(* The whole contract.                                                     *)
(***************************************************************************)

Booked == SumFunctionOnSet([a \in Agents |-> agentPools[a].total], Agents)

OwedByAll ==
    SumFunctionOnSet([a \in Agents |-> OwedIn(delegations[a], agentPools[a].stored)], Agents)

\* Every pool is sound, the contract's total is that of the pools, and its GUARD
\* covers what it owes before any rounding.
IInv ==
    /\ TypeOK
    /\ \A a \in Agents : SoundPool(delegations[a], agentPools[a])
    /\ totalDelegatedAllAgents = Booked
    /\ OwedByAll <= PRECISION * balance[Self]

\* The accounts a call moves GUARD between.
LEMMA SelfAccount ==
    /\ {Self, Treasury, HbarPool, Distributor} \cup Delegators \subseteq Accounts
    /\ Self \notin Delegators /\ Self # Treasury /\ Self # HbarPool /\ Self # Distributor
  BY AccountsAssumption DEF Accounts

LEMMA PaidIn ==
    ASSUME IInv, NEW payer \in Accounts \ {Self}, NEW amount \in Nat,
           Transfer(payer, Self, amount)
    PROVE  /\ balance' \in [Accounts -> Nat]
           /\ balance'[Self] = balance[Self] + amount - 0
  BY SelfAccount DEF IInv, TypeOK, Transfer

LEMMA PaidOut ==
    ASSUME IInv, NEW payee \in Accounts \ {Self}, NEW amount \in Nat,
           Transfer(Self, payee, amount)
    PROVE  /\ balance' \in [Accounts -> Nat]
           /\ balance'[Self] = balance[Self] + 0 - amount
           /\ amount > 0 => balance'[payee] > balance[payee]
  BY SelfAccount DEF IInv, TypeOK, Transfer

\* More than is in its own pool, an agent's delegators are not owed by all.
LEMMA BookedBounds ==
    ASSUME IInv
    PROVE  /\ \A a \in Agents : agentPools[a].total <= totalDelegatedAllAgents
           /\ \A a \in Agents : OwedIn(delegations[a], agentPools[a].stored) \in Nat
           /\ OwedByAll \in Nat
  <1> DEFINE totals == [a \in Agents |-> agentPools[a].total]
             owed == [a \in Agents |-> OwedIn(delegations[a], agentPools[a].stored)]
  <1>1. \A a \in Agents : totals[a] \in Nat /\ owed[a] \in Nat
    BY PoolBounds DEF IInv
  <1>2. /\ Booked = SumFunctionOnSet(totals, Agents)
        /\ OwedByAll = SumFunctionOnSet(owed, Agents)
        /\ \A a \in Agents : /\ totals[a] = agentPools[a].total
                             /\ owed[a] = OwedIn(delegations[a], agentPools[a].stored)
    BY DEF Booked, OwedByAll
  <1> HIDE DEF totals, owed
  <1>3. /\ SumFunctionOnSet(totals, Agents) \in Nat
        /\ \A a \in Agents : totals[a] <= SumFunctionOnSet(totals, Agents)
    BY <1>1, SetsFinite, SumAtLeast
  <1>4. SumFunctionOnSet(owed, Agents) \in Nat
    BY <1>1, SetsFinite, SumAtLeast
  <1> QED
    BY <1>1, <1>2, <1>3, <1>4 DEF IInv

\* The pool of one agent changes: what its delegators are owed grows by no more
\* than the contract is paid, less what it pays out.
LEMMA OnePoolChanges ==
    ASSUME IInv, NEW a \in Agents, NEW D2, NEW pool2, SoundPool(D2, pool2),
           NEW in \in Nat, NEW out \in Nat,
           OwedIn(D2, pool2.stored) + PRECISION * out
             <= OwedIn(delegations[a], agentPools[a].stored) + PRECISION * in,
           now' \in Nat, paused' \in BOOLEAN, balance' \in [Accounts -> Nat],
           delegations' = [delegations EXCEPT ![a] = D2],
           agentPools' = [agentPools EXCEPT ![a] = pool2],
           totalDelegatedAllAgents'
             = totalDelegatedAllAgents + (pool2.total - agentPools[a].total),
           balance'[Self] = balance[Self] + in - out
    PROVE  IInv'
  <1> DEFINE tot1 == [b \in Agents |-> agentPools[b].total]
             tot2 == [b \in Agents |-> agentPools'[b].total]
             ow1 == [b \in Agents |-> OwedIn(delegations[b], agentPools[b].stored)]
             ow2 == [b \in Agents |-> OwedIn(delegations'[b], agentPools'[b].stored)]
  <1>1. /\ delegations \in [Agents -> [Delegators -> Delegation]]
        /\ agentPools \in [Agents -> Pool]
        /\ \A b \in Agents : SoundPool(delegations[b], agentPools[b])
    BY DEF IInv, TypeOK
  <1>2. /\ delegations'[a] = D2 /\ agentPools'[a] = pool2
        /\ \A b \in Agents \ {a} : delegations'[b] = delegations[b] /\ agentPools'[b] = agentPools[b]
    BY <1>1
  <1>3. \A b \in Agents : SoundPool(delegations'[b], agentPools'[b])
    BY <1>1, <1>2
  <1>4. /\ delegations' \in [Agents -> [Delegators -> Delegation]]
        /\ agentPools' \in [Agents -> Pool]
    BY <1>1 DEF SoundPool
  <1>5. /\ \A b \in Agents : tot1[b] \in Nat /\ tot2[b] \in Nat
        /\ \A b \in Agents \ {a} : tot1[b] = tot2[b]
        /\ tot1[a] = agentPools[a].total /\ tot2[a] = pool2.total
    BY <1>1, <1>2, <1>4 DEF Pool
  <1>6. /\ \A b \in Agents : ow1[b] \in Nat /\ ow2[b] \in Nat
        /\ \A b \in Agents \ {a} : ow1[b] = ow2[b]
        /\ ow1[a] = OwedIn(delegations[a], agentPools[a].stored)
        /\ ow2[a] = OwedIn(D2, pool2.stored)
    BY <1>1, <1>2, <1>3, PoolBounds
  <1>7. /\ Booked = SumFunctionOnSet(tot1, Agents) /\ Booked' = SumFunctionOnSet(tot2, Agents)
        /\ OwedByAll = SumFunctionOnSet(ow1, Agents) /\ OwedByAll' = SumFunctionOnSet(ow2, Agents)
    BY DEF Booked, OwedByAll
  <1> HIDE DEF tot1, tot2, ow1, ow2
  <1>8. SumFunctionOnSet(tot2, Agents) = SumFunctionOnSet(tot1, Agents) + tot2[a] - tot1[a]
    BY <1>5, SetsFinite, SumOneChanged
  <1>9. SumFunctionOnSet(ow2, Agents) = SumFunctionOnSet(ow1, Agents) + ow2[a] - ow1[a]
    BY <1>6, SetsFinite, SumOneChanged
  <1>10. Booked' \in Nat /\ Booked \in Nat /\ OwedByAll \in Nat
    <2>1. SumFunctionOnSet(tot1, Agents) \in Nat /\ SumFunctionOnSet(tot2, Agents) \in Nat
      BY <1>5, SetsFinite, SumAtLeast
    <2>2. SumFunctionOnSet(ow1, Agents) \in Nat
      BY <1>6, SetsFinite, SumAtLeast
    <2> QED
      BY <1>7, <2>1, <2>2
  <1>11. totalDelegatedAllAgents' = Booked'
    <2>1. totalDelegatedAllAgents = Booked
      BY DEF IInv
    <2> QED
      BY <1>5, <1>7, <1>8, <1>10, <2>1
  <1>12. OwedByAll' <= PRECISION * balance'[Self]
    <2>1. balance[Self] \in Nat /\ balance'[Self] \in Nat /\ PRECISION \in Nat
      BY SelfAccount, PrecisionPositive DEF IInv, TypeOK
    <2>2. PRECISION * balance'[Self] + PRECISION * out = PRECISION * balance[Self] + PRECISION * in
      <3>1. balance'[Self] + out = balance[Self] + in
        BY <2>1
      <3>2. PRECISION * (balance'[Self] + out) = PRECISION * (balance[Self] + in)
        BY <3>1
      <3> QED
        BY <2>1, <3>2, Products
    <2>3. /\ PRECISION * balance'[Self] \in Nat /\ PRECISION * out \in Nat
          /\ PRECISION * balance[Self] \in Nat /\ PRECISION * in \in Nat
      BY <2>1, Products
    <2>4. OwedByAll <= PRECISION * balance[Self]
      BY DEF IInv
    <2> QED
      BY <1>6, <1>7, <1>9, <1>10, <2>2, <2>3, <2>4
  <1>13. TypeOK'
    BY <1>4, <1>10, <1>11 DEF TypeOK
  <1> QED
    BY <1>3, <1>11, <1>12, <1>13 DEF IInv

-----------------------------------------------------------------------------
(***************************************************************************)
(* What one step may do to what a delegator can claim.                     *)
(***************************************************************************)

Claim(a, d) == Claimable(delegations[a][d], agentPools[a])

PaidTo(d) == \/ balance'[d] > balance[d]
             \/ balance'[HbarPool] > balance[HbarPool]
             \/ balance'[Treasury] > balance[Treasury]

EarnsOnly ==
    \A a \in Agents, d \in Delegators :
      /\ Claim(a, d)' > Claim(a, d) => agentPools'[a].stored > agentPools[a].stored
      /\ Claim(a, d)' < Claim(a, d) => PaidTo(d)

LEMMA ClaimNatural ==
    ASSUME IInv, NEW a \in Agents, NEW d \in Delegators
    PROVE  Claim(a, d) \in Nat
  <1>1. /\ agentPools[a] \in Pool
        /\ SoundDelegation(delegations[a][d], agentPools[a].stored)
    BY DEF IInv, SoundPool
  <1>2. delegations[a][d].pending \in Nat /\ Earned(delegations[a][d], agentPools[a]) \in Nat
    BY <1>1, SoundFields
  <1> QED
    BY <1>2 DEF Claim, Claimable

\* Only the pool of one agent changes.
LEMMA OnePoolEarns ==
    ASSUME IInv, NEW a \in Agents, NEW D2, NEW pool2,
           delegations' = [delegations EXCEPT ![a] = D2],
           agentPools' = [agentPools EXCEPT ![a] = pool2],
           \A d \in Delegators :
             /\ Claimable(D2[d], pool2) > Claim(a, d) => pool2.stored > agentPools[a].stored
             /\ Claimable(D2[d], pool2) < Claim(a, d) => PaidTo(d)
    PROVE  EarnsOnly
  <1> SUFFICES ASSUME NEW b \in Agents, NEW d \in Delegators
               PROVE  /\ Claim(b, d)' > Claim(b, d)
                           => agentPools'[b].stored > agentPools[b].stored
                      /\ Claim(b, d)' < Claim(b, d) => PaidTo(d)
    BY DEF EarnsOnly
  <1>1. /\ delegations \in [Agents -> [Delegators -> Delegation]]
        /\ agentPools \in [Agents -> Pool]
    BY DEF IInv, TypeOK
  <1>2. CASE b = a
    <2>1. Claim(a, d)' = Claimable(D2[d], pool2) /\ agentPools'[a] = pool2
      BY <1>1 DEF Claim
    <2> QED
      BY <1>2, <2>1
  <1>3. CASE b # a
    <2>1. delegations'[b] = delegations[b] /\ agentPools'[b] = agentPools[b]
      BY <1>1, <1>3
    <2>2. Claim(b, d)' = Claim(b, d)
      BY <2>1 DEF Claim
    <2>3. Claim(b, d) \in Nat
      BY ClaimNatural
    <2> QED
      BY <2>2, <2>3
  <1> QED
    BY <1>2, <1>3

\* One delegation of one agent is rewritten.
LEMMA OneDelegationChanges ==
    ASSUME IInv, NEW a \in Agents, NEW e \in Delegators, NEW r, NEW pool2 \in Pool,
           SoundDelegation(r, agentPools[a].stored),
           pool2.stored = agentPools[a].stored,
           pool2.total = agentPools[a].total + r.amount - delegations[a][e].amount,
           /\ r.active = delegations[a][e].active => pool2.count = agentPools[a].count
           /\ r.active /\ ~delegations[a][e].active => pool2.count = agentPools[a].count + 1
           /\ ~r.active /\ delegations[a][e].active => pool2.count = agentPools[a].count - 1,
           NEW in \in Nat, NEW out \in Nat,
           Owed(r, agentPools[a].stored) + PRECISION * out
             <= Owed(delegations[a][e], agentPools[a].stored) + PRECISION * in,
           \/ Claimable(r, agentPools[a]) = Claim(a, e)
           \/ Claimable(r, agentPools[a]) = 0 /\ PaidTo(e),
           now' \in Nat, paused' \in BOOLEAN, balance' \in [Accounts -> Nat],
           delegations' = [delegations EXCEPT ![a] = [delegations[a] EXCEPT ![e] = r]],
           agentPools' = [agentPools EXCEPT ![a] = pool2],
           totalDelegatedAllAgents'
             = totalDelegatedAllAgents + (pool2.total - agentPools[a].total),
           balance'[Self] = balance[Self] + in - out
    PROVE  IInv' /\ EarnsOnly
  <1> DEFINE D == delegations[a]
             pool == agentPools[a]
             D2 == [D EXCEPT ![e] = r]
  <1>1. /\ SoundPool(D, pool) /\ pool \in Pool /\ D \in [Delegators -> Delegation]
        /\ SoundDelegation(D[e], pool.stored)
    BY DEF IInv, SoundPool
  <1>2. /\ SoundDelegation(r, pool.stored)
        /\ pool2.stored = pool.stored
        /\ pool2.total = pool.total + r.amount - D[e].amount
        /\ r.active = D[e].active => pool2.count = pool.count
        /\ r.active /\ ~D[e].active => pool2.count = pool.count + 1
        /\ ~r.active /\ D[e].active => pool2.count = pool.count - 1
    OBVIOUS
  <1>3. /\ Owed(r, pool.stored) + PRECISION * out <= Owed(D[e], pool.stored) + PRECISION * in
        /\ D[e] = delegations[a][e]
        /\ \/ Claimable(r, pool) = Claim(a, e)
           \/ Claimable(r, pool) = 0 /\ PaidTo(e)
    OBVIOUS
  <1>4. /\ delegations' = [delegations EXCEPT ![a] = D2]
        /\ agentPools' = [agentPools EXCEPT ![a] = pool2]
        /\ totalDelegatedAllAgents' = totalDelegatedAllAgents + (pool2.total - pool.total)
        /\ \A d \in Delegators : Claim(a, d) = Claimable(D[d], pool)
        /\ pool = agentPools[a] /\ D = delegations[a]
    BY DEF Claim
  <1> HIDE DEF D, pool
  <1>5. /\ SoundPool(D2, pool2)
        /\ OwedIn(D2, pool2.stored)
             = OwedIn(D, pool.stored) + Owed(r, pool.stored) - Owed(D[e], pool.stored)
    <2> HIDE DEF D2
    <2>1. D2 = [D EXCEPT ![e] = r]
      BY DEF D2
    <2>2. /\ SoundPool([D EXCEPT ![e] = r], pool2)
          /\ OwedIn([D EXCEPT ![e] = r], pool2.stored)
               = OwedIn(D, pool.stored) + Owed(r, pool.stored) - Owed(D[e], pool.stored)
      BY ONLY ZenonT(60), <1>1, <1>2, OneRewritten, pool2 \in Pool, e \in Delegators
    <2> QED
      BY <2>1, <2>2
  <1>6. /\ \A d \in Delegators \ {e} : D2[d] = D[d]
        /\ D2[e] = r
    BY <1>1
  <1> HIDE DEF D2
  <1>7. OwedIn(D2, pool2.stored) + PRECISION * out <= OwedIn(D, pool.stored) + PRECISION * in
    <2>1. /\ Owed(r, pool.stored) \in Nat /\ Owed(D[e], pool.stored) \in Nat
          /\ OwedIn(D, pool.stored) \in Nat
      BY <1>1, <1>2, SoundFields, PoolBounds
    <2>2. PRECISION * out \in Nat /\ PRECISION * in \in Nat
      BY PrecisionPositive, Products
    <2> QED
      BY <1>3, <1>5, <2>1, <2>2
  <1>8. IInv'
    BY ZenonT(60), <1>4, <1>5, <1>7, OnePoolChanges
  <1>9. \A d \in Delegators :
          /\ Claimable(D2[d], pool2) > Claim(a, d) => pool2.stored > agentPools[a].stored
          /\ Claimable(D2[d], pool2) < Claim(a, d) => PaidTo(d)
    <2> TAKE d \in Delegators
    <2>1. Claimable(D2[d], pool2) = Claimable(D2[d], pool)
      BY <1>2 DEF Claimable, Earned
    <2>2. Claim(a, d) \in Nat
      BY ClaimNatural
    <2>3. CASE d = e
      BY <1>3, <1>6, <2>1, <2>2, <2>3
    <2>4. CASE d # e
      BY <1>4, <1>6, <2>1, <2>2, <2>4
    <2> QED
      BY <2>3, <2>4
  <1>10. EarnsOnly
    BY <1>4, <1>9, OnePoolEarns
  <1> QED
    BY <1>8, <1>10

\* Neither the pools nor the contract's GUARD change.
LEMMA StoreKept ==
    ASSUME IInv, now' \in Nat, paused' \in BOOLEAN,
           UNCHANGED <<delegations, totalDelegatedAllAgents, balance>>,
           agentPools' \in [Agents -> Pool],
           \A a \in Agents : /\ agentPools'[a].total = agentPools[a].total
                             /\ agentPools'[a].stored = agentPools[a].stored
                             /\ agentPools'[a].count = agentPools[a].count
    PROVE  IInv' /\ EarnsOnly
  <1>1. TypeOK'
    BY DEF IInv, TypeOK
  <1>2. \A a \in Agents : SoundPool(delegations'[a], agentPools'[a])
    BY DEF IInv, SoundPool
  <1>3. Booked' = Booked
    <2>1. [a \in Agents |-> agentPools'[a].total] = [a \in Agents |-> agentPools[a].total]
      OBVIOUS
    <2> QED
      BY <2>1 DEF Booked
  <1>4. OwedByAll' = OwedByAll
    <2>1. [a \in Agents |-> OwedIn(delegations'[a], agentPools'[a].stored)]
            = [a \in Agents |-> OwedIn(delegations[a], agentPools[a].stored)]
      OBVIOUS
    <2> QED
      BY <2>1 DEF OwedByAll
  <1>5. IInv'
    BY <1>1, <1>2, <1>3, <1>4 DEF IInv
  <1>6. \A a \in Agents, d \in Delegators : Claim(a, d)' = Claim(a, d)
    BY DEF Claim, Claimable, Earned
  <1>7. EarnsOnly
    BY <1>6, ClaimNatural DEF EarnsOnly
  <1> QED
    BY <1>5, <1>7

-----------------------------------------------------------------------------
(***************************************************************************)
(* The calls of a delegator.                                               *)
(***************************************************************************)

LEMMA OnePool ==
    ASSUME IInv, NEW a \in Agents, NEW e \in Delegators
    PROVE  /\ agentPools[a] \in Pool
           /\ SoundDelegation(delegations[a][e], agentPools[a].stored)
           /\ delegations[a][e].amount <= agentPools[a].total
           /\ agentPools[a].total \in Nat /\ agentPools[a].stored \in Nat
           /\ agentPools[a].count \in Nat
           /\ delegations[a][e].active => agentPools[a].count - 1 \in Nat
           /\ now \in Nat /\ paused \in BOOLEAN
           /\ totalDelegatedAllAgents \in Nat
  <1> DEFINE D == delegations[a]
             pool == agentPools[a]
  <1>1. SoundPool(D, pool)
    BY DEF IInv
  <1>2. D[e].active => pool.count - 1 \in Nat
    <2> SUFFICES ASSUME D[e].active
                 PROVE  pool.count - 1 \in Nat
      OBVIOUS
    <2> HIDE DEF D, pool
    <2>1. e \in OpenIn(D) /\ IsFiniteSet(OpenIn(D)) /\ pool.count = Cardinality(OpenIn(D))
      BY <1>1, PoolBounds DEF OpenIn, SoundPool
    <2>2. /\ IsFiniteSet(OpenIn(D) \ {e})
          /\ Cardinality(OpenIn(D) \ {e}) = Cardinality(OpenIn(D)) - 1
      BY <2>1, FS_RemoveElement
    <2> QED
      BY <2>1, <2>2, FS_CardinalityType
  <1>3. /\ pool \in Pool /\ SoundDelegation(D[e], pool.stored)
        /\ D[e].amount <= pool.total
        /\ pool.total \in Nat /\ pool.stored \in Nat /\ pool.count \in Nat
    BY <1>1, PoolBounds DEF SoundPool
  <1> QED
    BY <1>2, <1>3 DEF IInv, TypeOK

LEMMA OpenedPool ==
    ASSUME NEW pool \in Pool
    PROVE  /\ Opened(pool) \in Pool
           /\ Opened(pool).total = pool.total /\ Opened(pool).stored = pool.stored
           /\ Opened(pool).count = pool.count
  <1>1. DefaultRewardBps \in Nat
    BY AmountsAssumption
  <1> QED
    BY <1>1 DEF Opened, Pool

LEMMA RewrittenInPlace ==
    ASSUME NEW X \in [Agents -> [Delegators -> Delegation]], NEW a \in Agents,
           NEW d \in Delegators, NEW r
    PROVE  [X EXCEPT ![a][d] = r] = [X EXCEPT ![a] = [X[a] EXCEPT ![d] = r]]
  OBVIOUS

LEMMA DelegateSafe ==
    ASSUME IInv, NEW d \in Delegators, NEW a \in Agents, NEW amount \in Amounts,
           NEW payer \in {d, HbarPool}, Delegate(d, a, amount, payer)
    PROVE  IInv' /\ EarnsOnly
  <1>1. amount \in Nat \ {0} /\ payer \in Accounts \ {Self}
    BY AmountsAssumption, SelfAccount
  <1>2. PICK dl, pool : dl = delegations[a][d] /\ pool = agentPools[a]
    OBVIOUS
  <1>3. /\ pool \in Pool /\ SoundDelegation(dl, pool.stored)
        /\ pool.total \in Nat /\ pool.count \in Nat
        /\ totalDelegatedAllAgents \in Nat /\ now \in Nat /\ paused \in BOOLEAN
    BY <1>2, OnePool
  <1>4. PICK r : r = Joined(dl, pool, amount)
    OBVIOUS
  <1>5. /\ SoundDelegation(r, pool.stored)
        /\ r.amount = dl.amount + amount /\ r.active
        /\ Owed(r, pool.stored) <= Owed(dl, pool.stored) + PRECISION * amount
        /\ Claimable(r, pool) = Claimable(dl, pool)
    BY <1>1, <1>3, <1>4, JoinedSound
  <1>6. PICK op : op = Opened(pool)
    OBVIOUS
  <1>7. op \in Pool /\ op.total = pool.total /\ op.stored = pool.stored /\ op.count = pool.count
    BY <1>3, <1>6, OpenedPool
  <1>8. PICK joined \in Nat, total \in Nat, count \in Nat :
          /\ joined = IF dl.active THEN 0 ELSE 1
          /\ total = pool.total + amount
          /\ count = pool.count + joined
    BY <1>1, <1>3
  <1>9. PICK pool2 : pool2 = [op EXCEPT !.total = total, !.count = count]
    OBVIOUS
  <1>10. pool2 \in Pool /\ pool2.stored = pool.stored /\ pool2.total = total /\ pool2.count = count
    <2>1. pool2 \in Pool /\ pool2.stored = op.stored /\ pool2.total = total /\ pool2.count = count
      BY ONLY <1>7, <1>9, total \in Nat, count \in Nat DEF Pool
    <2> QED
      BY <1>7, <2>1
  <1>11. delegations' = [delegations EXCEPT ![a] = [delegations[a] EXCEPT ![d] = r]]
    <2>1. delegations \in [Agents -> [Delegators -> Delegation]]
      BY DEF IInv, TypeOK
    <2>2. delegations' = [delegations EXCEPT ![a][d] = r]
      BY <1>2, <1>4, <2>1 DEF Delegate
    <2> QED
      BY <2>1, <2>2, RewrittenInPlace
  <1>12. agentPools' = [agentPools EXCEPT ![a] = pool2]
    <2>1. pool2 = Backed(pool, amount, joined)
      BY <1>6, <1>7, <1>8, <1>9 DEF Backed, Pool
    <2>2. agentPools' = [agentPools EXCEPT ![a] = Backed(pool, amount, joined)]
      BY <1>2, <1>8 DEF Delegate
    <2> QED
      BY <2>1, <2>2
  <1>13. /\ balance' \in [Accounts -> Nat] /\ balance'[Self] = balance[Self] + amount - 0
    <2>1. Transfer(payer, Self, amount)
      BY DEF Delegate
    <2> QED
      BY <1>1, <2>1, PaidIn
  <1>14. now' \in Nat /\ paused' \in BOOLEAN
    BY <1>3 DEF Delegate
  <1>15. totalDelegatedAllAgents' = totalDelegatedAllAgents + (pool2.total - pool.total)
    <2>1. totalDelegatedAllAgents' = totalDelegatedAllAgents + amount
      BY DEF Delegate
    <2> QED
      BY <1>1, <1>3, <1>8, <1>10, <2>1
  <1>16. /\ dl.amount \in Nat /\ dl.active \in BOOLEAN
         /\ Owed(dl, pool.stored) \in Nat
    BY <1>3, SoundFields
  <1>17. Owed(r, pool.stored) \in Nat /\ r.active \in BOOLEAN
    BY <1>3, <1>5, SoundFields
  <1>18. /\ pool2.total = pool.total + r.amount - dl.amount
         /\ r.active = dl.active => pool2.count = pool.count
         /\ r.active /\ ~dl.active => pool2.count = pool.count + 1
         /\ ~r.active /\ dl.active => pool2.count = pool.count - 1
    <2>1. pool2.total = pool.total + r.amount - dl.amount
      BY <1>1, <1>3, <1>5, <1>8, <1>10, <1>16
    <2>2. r.active = TRUE /\ (dl.active = TRUE \/ dl.active = FALSE)
      BY <1>5, <1>16, <1>17
    <2>3. /\ dl.active = TRUE => pool2.count = pool.count
          /\ dl.active = FALSE => pool2.count = pool.count + 1
      BY <1>3, <1>8, <1>10
    <2> QED
      BY <2>1, <2>2, <2>3
  <1>19. Owed(r, pool.stored) + PRECISION * 0 <= Owed(dl, pool.stored) + PRECISION * amount
    <2>1. PRECISION * 0 = 0
      BY PrecisionPositive
    <2> QED
      BY <1>5, <1>16, <1>17, <2>1
  <1>20. Claimable(r, pool) = Claim(a, d)
    BY <1>2, <1>5 DEF Claim
  <1> QED
    BY <1>1, <1>2, <1>5, <1>10, <1>11, <1>12, <1>13, <1>14, <1>15, <1>18, <1>19, <1>20,
       OneDelegationChanges

LEMMA RequestUndelegateSafe ==
    ASSUME IInv, NEW d \in Delegators, NEW a \in Agents, NEW amount \in Amounts,
           RequestUndelegate(d, a, amount)
    PROVE  IInv' /\ EarnsOnly
  <1>1. amount \in Nat \ {0}
    BY AmountsAssumption
  <1>2. PICK dl, pool : dl = delegations[a][d] /\ pool = agentPools[a]
    OBVIOUS
  <1>3. /\ pool \in Pool /\ SoundDelegation(dl, pool.stored)
        /\ pool.total \in Nat /\ pool.count \in Nat
        /\ totalDelegatedAllAgents \in Nat /\ now \in Nat /\ paused \in BOOLEAN
        /\ balance \in [Accounts -> Nat] /\ Self \in Accounts
    BY <1>2, OnePool, SelfAccount DEF IInv, TypeOK
  <1>4. PICK r, L : r = Left(dl, pool, amount) /\ L = Leaving(dl, amount)
    OBVIOUS
  <1>5. amount <= dl.amount /\ dl.unbonding = 0 /\ pool.total >= L
    BY <1>2, <1>4 DEF RequestUndelegate
  <1>6. /\ L \in Nat /\ L <= dl.amount
        /\ SoundDelegation(r, pool.stored)
        /\ r.amount = dl.amount - L /\ r.active = dl.active
        /\ Owed(r, pool.stored) <= Owed(dl, pool.stored)
        /\ Claimable(r, pool) = Claimable(dl, pool)
    BY <1>1, <1>3, <1>4, <1>5, LeftSound
  <1>7. PICK total \in Nat : total = pool.total - L
    BY <1>3, <1>5, <1>6
  <1>8. PICK pool2 : pool2 = [pool EXCEPT !.total = total]
    OBVIOUS
  <1>9. pool2 \in Pool /\ pool2.stored = pool.stored /\ pool2.total = total
        /\ pool2.count = pool.count
    BY ONLY <1>3, <1>8, total \in Nat DEF Pool
  <1>10. delegations' = [delegations EXCEPT ![a] = [delegations[a] EXCEPT ![d] = r]]
    <2>1. delegations \in [Agents -> [Delegators -> Delegation]]
      BY DEF IInv, TypeOK
    <2>2. delegations' = [delegations EXCEPT ![a][d] = r]
      BY <1>2, <1>4, <2>1 DEF RequestUndelegate
    <2> QED
      BY <2>1, <2>2, RewrittenInPlace
  <1>11. agentPools' = [agentPools EXCEPT ![a] = pool2]
    <2>1. agentPools \in [Agents -> Pool]
      BY DEF IInv, TypeOK
    <2>2. agentPools' = [agentPools EXCEPT ![a].total = @ - L]
      BY <1>2, <1>4 DEF RequestUndelegate
    <2> QED
      BY <1>2, <1>7, <1>8, <2>1, <2>2
  <1>12. totalDelegatedAllAgents' = totalDelegatedAllAgents + (pool2.total - pool.total)
    <2>1. totalDelegatedAllAgents' = totalDelegatedAllAgents - L
      BY <1>2, <1>4 DEF RequestUndelegate
    <2> QED
      BY <1>3, <1>6, <1>7, <1>9, <2>1
  <1>13. now' \in Nat /\ paused' \in BOOLEAN /\ balance' \in [Accounts -> Nat]
         /\ balance'[Self] = balance[Self] + 0 - 0
    BY <1>3 DEF RequestUndelegate
  <1>14. /\ dl.amount \in Nat /\ dl.active \in BOOLEAN
         /\ Owed(dl, pool.stored) \in Nat
    BY <1>3, SoundFields
  <1>15. Owed(r, pool.stored) \in Nat /\ r.active \in BOOLEAN
    BY <1>3, <1>6, SoundFields
  <1>16. /\ pool2.total = pool.total + r.amount - dl.amount
         /\ r.active = dl.active => pool2.count = pool.count
         /\ r.active /\ ~dl.active => pool2.count = pool.count + 1
         /\ ~r.active /\ dl.active => pool2.count = pool.count - 1
    <2>1. pool2.total = pool.total + r.amount - dl.amount
      BY <1>3, <1>6, <1>7, <1>9, <1>14
    <2> QED
      BY <1>6, <1>9, <2>1
  <1>17. Owed(r, pool.stored) + PRECISION * 0 <= Owed(dl, pool.stored) + PRECISION * 0
    <2>1. PRECISION * 0 = 0
      BY PrecisionPositive
    <2> QED
      BY <1>6, <1>14, <1>15, <2>1
  <1>18. Claimable(r, pool) = Claim(a, d)
    BY <1>2, <1>6 DEF Claim
  <1> QED
    BY ZenonT(60), <1>2, <1>6, <1>9, <1>10, <1>11, <1>12, <1>13, <1>16, <1>17, <1>18, OneDelegationChanges

LEMMA CompleteUndelegateSafe ==
    ASSUME IInv, NEW d \in Delegators, NEW a \in Agents, NEW payee \in {d, HbarPool},
           CompleteUndelegate(d, a, payee)
    PROVE  IInv' /\ EarnsOnly
  <1>1. payee \in Accounts \ {Self}
    BY SelfAccount
  <1>2. PICK dl, pool : dl = delegations[a][d] /\ pool = agentPools[a]
    OBVIOUS
  <1>3. dl.active
    BY <1>2 DEF CompleteUndelegate
  <1>4. /\ pool \in Pool /\ SoundDelegation(dl, pool.stored)
        /\ pool.total \in Nat /\ pool.count \in Nat /\ pool.count - 1 \in Nat
        /\ totalDelegatedAllAgents \in Nat /\ now \in Nat /\ paused \in BOOLEAN
    BY <1>2, <1>3, OnePool
  <1>5. /\ dl.amount \in Nat /\ dl.unbonding \in Nat /\ dl.active = TRUE
    BY <1>3, <1>4, SoundFields
  <1>6. PICK r : r = Completed(dl)
    OBVIOUS
  <1>7. /\ SoundDelegation(r, pool.stored)
        /\ r.amount = dl.amount /\ (r.active <=> dl.amount # 0)
        /\ Owed(r, pool.stored) + PRECISION * dl.unbonding <= Owed(dl, pool.stored)
        /\ Claimable(r, pool) = Claimable(dl, pool)
    BY <1>3, <1>4, <1>6, CompletedSound
  <1>8. PICK count \in Nat : count = IF dl.amount = 0 THEN pool.count - 1 ELSE pool.count
    BY <1>4
  <1>9. PICK pool2 : pool2 = [pool EXCEPT !.count = count]
    OBVIOUS
  <1>10. pool2 \in Pool /\ pool2.stored = pool.stored /\ pool2.total = pool.total
         /\ pool2.count = count
    BY ONLY <1>4, <1>9, count \in Nat DEF Pool
  <1>11. delegations' = [delegations EXCEPT ![a] = [delegations[a] EXCEPT ![d] = r]]
    <2>1. delegations \in [Agents -> [Delegators -> Delegation]]
      BY DEF IInv, TypeOK
    <2>2. delegations' = [delegations EXCEPT ![a][d] = r]
      BY <1>2, <1>6, <2>1 DEF CompleteUndelegate
    <2> QED
      BY <2>1, <2>2, RewrittenInPlace
  <1>12. agentPools' = [agentPools EXCEPT ![a] = pool2]
    <2>1. agentPools \in [Agents -> Pool]
      BY DEF IInv, TypeOK
    <2>2. agentPools' = [agentPools EXCEPT ![a].count = count]
      BY <1>2, <1>8, <2>1 DEF CompleteUndelegate
    <2> QED
      BY <1>2, <1>9, <2>1, <2>2
  <1>13. /\ balance' \in [Accounts -> Nat]
         /\ balance'[Self] = balance[Self] + 0 - dl.unbonding
    <2>1. Transfer(Self, payee, dl.unbonding)
      BY <1>2 DEF CompleteUndelegate
    <2> QED
      BY <1>1, <1>5, <2>1, PaidOut
  <1>14. /\ now' \in Nat /\ paused' \in BOOLEAN
         /\ totalDelegatedAllAgents' = totalDelegatedAllAgents + (pool2.total - pool.total)
    BY <1>4, <1>10 DEF CompleteUndelegate
  <1>15. r.active \in BOOLEAN
    BY <1>4, <1>7, SoundFields
  <1>16. /\ pool2.total = pool.total + r.amount - dl.amount
         /\ r.active = dl.active => pool2.count = pool.count
         /\ r.active /\ ~dl.active => pool2.count = pool.count + 1
         /\ ~r.active /\ dl.active => pool2.count = pool.count - 1
    <2>1. pool2.total = pool.total + r.amount - dl.amount
      BY <1>4, <1>5, <1>7, <1>10
    <2>2. CASE dl.amount = 0
      BY <1>5, <1>7, <1>8, <1>10, <1>15, <2>1, <2>2
    <2>3. CASE dl.amount # 0
      BY <1>5, <1>7, <1>8, <1>10, <1>15, <2>1, <2>3
    <2> QED
      BY <2>2, <2>3
  <1>17. Owed(r, pool.stored) + PRECISION * dl.unbonding <= Owed(dl, pool.stored) + PRECISION * 0
    <2>1. Owed(dl, pool.stored) \in Nat
      BY <1>4, SoundFields
    <2>2. PRECISION * 0 = 0
      BY PrecisionPositive
    <2> QED
      BY <1>7, <2>1, <2>2
  <1>18. Claimable(r, pool) = Claim(a, d)
    BY <1>2, <1>7 DEF Claim
  <1> QED
    BY <1>2, <1>5, <1>7, <1>10, <1>11, <1>12, <1>13, <1>14, <1>16, <1>17, <1>18,
       OneDelegationChanges

\* What is paid to a delegator, in GUARD or through the HbarPool.
LEMMA PaidToDelegator ==
    ASSUME IInv, NEW d \in Delegators, NEW payee \in {d, HbarPool}, NEW amount \in Nat,
           Transfer(Self, payee, amount)
    PROVE  /\ balance' \in [Accounts -> Nat]
           /\ balance'[Self] = balance[Self] + 0 - amount
           /\ amount > 0 => PaidTo(d)
  <1>1. payee \in Accounts \ {Self}
    BY SelfAccount
  <1> QED
    BY <1>1, PaidOut DEF PaidTo

LEMMA ClaimRewardsSafe ==
    ASSUME IInv, NEW d \in Delegators, NEW a \in Agents, NEW payee \in {d, HbarPool},
           ClaimRewards(d, a, payee)
    PROVE  IInv' /\ EarnsOnly
  <1>1. PICK dl, pool : dl = delegations[a][d] /\ pool = agentPools[a]
    OBVIOUS
  <1>2. /\ pool \in Pool /\ SoundDelegation(dl, pool.stored)
        /\ pool.total \in Nat /\ pool.count \in Nat
        /\ totalDelegatedAllAgents \in Nat /\ now \in Nat /\ paused \in BOOLEAN
    BY <1>1, OnePool
  <1>3. PICK r, out : r = Claimed(dl, pool) /\ out = Claimable(dl, pool)
    OBVIOUS
  <1>4. /\ SoundDelegation(r, pool.stored)
        /\ r.amount = dl.amount /\ r.active = dl.active
        /\ out \in Nat
        /\ Owed(r, pool.stored) + PRECISION * out <= Owed(dl, pool.stored)
        /\ Claimable(r, pool) = 0
    BY <1>2, <1>3, ClaimedSound
  <1>5. delegations' = [delegations EXCEPT ![a] = [delegations[a] EXCEPT ![d] = r]]
    <2>1. delegations \in [Agents -> [Delegators -> Delegation]]
      BY DEF IInv, TypeOK
    <2>2. delegations' = [delegations EXCEPT ![a][d] = r]
      BY <1>1, <1>3, <2>1 DEF ClaimRewards
    <2> QED
      BY <2>1, <2>2, RewrittenInPlace
  <1>6. agentPools' = [agentPools EXCEPT ![a] = pool]
    <2>1. agentPools \in [Agents -> Pool] /\ agentPools' = agentPools
      BY DEF IInv, TypeOK, ClaimRewards
    <2> QED
      BY <1>1, <2>1
  <1>7. /\ balance' \in [Accounts -> Nat]
        /\ balance'[Self] = balance[Self] + 0 - out
        /\ PaidTo(d)
    <2>1. Transfer(Self, payee, out) /\ out > 0
      BY <1>1, <1>3 DEF ClaimRewards
    <2> QED
      BY <1>4, <2>1, PaidToDelegator
  <1>8. /\ now' \in Nat /\ paused' \in BOOLEAN
        /\ totalDelegatedAllAgents' = totalDelegatedAllAgents + (pool.total - pool.total)
    BY <1>2 DEF ClaimRewards
  <1>9. dl.amount \in Nat /\ dl.active \in BOOLEAN /\ Owed(dl, pool.stored) \in Nat
    BY <1>2, SoundFields
  <1>10. /\ pool.total = pool.total + r.amount - dl.amount
         /\ r.active = dl.active => pool.count = pool.count
         /\ r.active /\ ~dl.active => pool.count = pool.count + 1
         /\ ~r.active /\ dl.active => pool.count = pool.count - 1
    <2>1. pool.total = pool.total + r.amount - dl.amount
      BY <1>2, <1>4, <1>9
    <2> QED
      BY <1>4, <2>1
  <1>11. Owed(r, pool.stored) + PRECISION * out <= Owed(dl, pool.stored) + PRECISION * 0
    <2>1. PRECISION * 0 = 0
      BY PrecisionPositive
    <2> QED
      BY <1>4, <1>9, <2>1
  <1>12. \/ Claimable(r, pool) = Claim(a, d)
         \/ Claimable(r, pool) = 0 /\ PaidTo(d)
    BY <1>4, <1>7
  <1>13. /\ balance' \in [Accounts -> Nat]
         /\ balance'[Self] = balance[Self] + 0 - out
    BY <1>7
  <1>14. /\ SoundDelegation(r, pool.stored)
         /\ out \in Nat /\ 0 \in Nat /\ pool.stored = agentPools[a].stored
    BY <1>1, <1>4
  <1> QED
    BY <1>1, <1>2, <1>5, <1>6, <1>8, <1>10, <1>11, <1>12, <1>13, <1>14, OneDelegationChanges

-----------------------------------------------------------------------------
(***************************************************************************)
(* Rewards are distributed.                                                *)
(***************************************************************************)

LEMMA PoolRaised ==
    ASSUME NEW pool, NEW D, SoundPool(D, pool), NEW x \in Nat,
           NEW pool2 \in Pool, pool2.stored = pool.stored + x,
           pool2.total = pool.total, pool2.count = pool.count
    PROVE  /\ SoundPool(D, pool2)
           /\ OwedIn(D, pool2.stored) = OwedIn(D, pool.stored) + x * pool.total
           /\ \A d \in Delegators : Claimable(D[d], pool) <= Claimable(D[d], pool2)
           /\ x = 0 => \A d \in Delegators : Claimable(D[d], pool) = Claimable(D[d], pool2)
  <1> DEFINE amounts == [d \in Delegators |-> D[d].amount]
             earned == [d \in Delegators |-> x * D[d].amount]
             before == [d \in Delegators |-> Owed(D[d], pool.stored)]
             after == [d \in Delegators |-> Owed(D[d], pool2.stored)]
  <1>1. /\ pool \in Pool /\ D \in [Delegators -> Delegation]
        /\ \A d \in Delegators : SoundDelegation(D[d], pool.stored)
        /\ pool.total = AmountsOf(D) /\ pool.count = Cardinality(OpenIn(D))
    BY DEF SoundPool
  <1>2. \A d \in Delegators :
          /\ SoundDelegation(D[d], pool2.stored)
          /\ Owed(D[d], pool2.stored) = Owed(D[d], pool.stored) + x * D[d].amount
          /\ Claimable(D[d], pool) <= Claimable(D[d], pool2)
    BY <1>1, RaisedSound
  <1>3. \A d \in Delegators :
          D[d].amount \in Nat /\ x * D[d].amount \in Nat /\ Owed(D[d], pool.stored) \in Nat
    <2> TAKE d \in Delegators
    <2>1. D[d].amount \in Nat /\ Owed(D[d], pool.stored) \in Nat
      BY <1>1, SoundFields
    <2> QED
      BY <2>1, Products
  <1>4. \A d \in Delegators : amounts[d] \in Int /\ earned[d] = x * amounts[d]
    BY <1>3
  <1>5. \A d \in Delegators :
          before[d] \in Int /\ earned[d] \in Int /\ after[d] = before[d] + earned[d]
    BY <1>2, <1>3
  <1>6. /\ AmountsOf(D) = SumFunctionOnSet(amounts, Delegators)
        /\ OwedIn(D, pool.stored) = SumFunctionOnSet(before, Delegators)
        /\ OwedIn(D, pool2.stored) = SumFunctionOnSet(after, Delegators)
    BY DEF AmountsOf, OwedIn
  <1> HIDE DEF amounts, earned, before, after
  <1>7. SumFunctionOnSet(earned, Delegators) = x * SumFunctionOnSet(amounts, Delegators)
    BY <1>4, SetsFinite, SumScaled
  <1>8. SumFunctionOnSet(after, Delegators)
          = SumFunctionOnSet(before, Delegators) + SumFunctionOnSet(earned, Delegators)
    BY <1>5, SetsFinite, SumAdds
  <1>9. OwedIn(D, pool2.stored) = OwedIn(D, pool.stored) + x * pool.total
    BY <1>1, <1>6, <1>7, <1>8
  <1>10. SoundPool(D, pool2)
    BY <1>1, <1>2 DEF SoundPool
  <1>11. x = 0 => \A d \in Delegators : Claimable(D[d], pool) = Claimable(D[d], pool2)
    <2> SUFFICES ASSUME x = 0
                 PROVE  \A d \in Delegators : Claimable(D[d], pool) = Claimable(D[d], pool2)
      OBVIOUS
    <2>1. pool.stored \in Nat
      BY <1>1 DEF Pool
    <2>2. pool2.stored = pool.stored
      BY <2>1
    <2> QED
      BY <2>2 DEF Claimable, Earned
  <1> QED
    BY <1>2, <1>9, <1>10, <1>11

LEMMA DistributeRewardsSafe ==
    ASSUME IInv, NEW a \in Agents, NEW earned \in Earnings, DistributeRewards(a, earned)
    PROVE  IInv' /\ EarnsOnly
  <1>1. PICK D, pool : D = delegations[a] /\ pool = agentPools[a]
    OBVIOUS
  <1>2. /\ SoundPool(D, pool) /\ pool \in Pool
        /\ now \in Nat /\ paused \in BOOLEAN /\ totalDelegatedAllAgents \in Nat
        /\ delegations \in [Agents -> [Delegators -> Delegation]]
        /\ agentPools \in [Agents -> Pool]
    BY <1>1 DEF IInv, TypeOK, SoundPool
  <1>3. pool.bps \in Nat /\ pool.total \in Nat /\ pool.stored \in Nat /\ pool.count \in Nat
    BY <1>2 DEF Pool
  <1>4. PICK share : share = Share(earned, pool.bps)
    OBVIOUS
  <1>5. share \in Nat
    <2>1. earned \in Nat
      BY AmountsAssumption
    <2> QED
      BY <1>3, <1>4, <2>1, ShareBound
  <1>6. pool.total > 0 /\ Transfer(Distributor, Self, share)
    BY <1>1, <1>4 DEF DistributeRewards
  <1>7. PICK x : x = (share * PRECISION) \div pool.total
    OBVIOUS
  <1>8. x \in Nat /\ pool.total * x <= share * PRECISION /\ share * PRECISION \in Nat
    <2>1. share * PRECISION \in Nat
      BY <1>5, PrecisionPositive, Products
    <2>2. pool.total \in Nat \ {0}
      BY <1>3, <1>6
    <2> QED
      BY <1>7, <2>1, <2>2, Division
  <1>9. PICK stored \in Nat : stored = pool.stored + x
    BY <1>3, <1>8
  <1>10. PICK pool2 : pool2 = [pool EXCEPT !.stored = stored]
    OBVIOUS
  <1>11. pool2 \in Pool /\ pool2.stored = stored /\ pool2.total = pool.total
         /\ pool2.count = pool.count
    BY ONLY <1>2, <1>10, stored \in Nat DEF Pool
  <1>12. /\ SoundPool(D, pool2)
         /\ OwedIn(D, pool2.stored) = OwedIn(D, pool.stored) + x * pool.total
         /\ \A d \in Delegators : Claimable(D[d], pool) <= Claimable(D[d], pool2)
         /\ x = 0 => \A d \in Delegators : Claimable(D[d], pool) = Claimable(D[d], pool2)
    BY <1>2, <1>8, <1>9, <1>11, PoolRaised
  <1>13. /\ delegations' = [delegations EXCEPT ![a] = D]
         /\ agentPools' = [agentPools EXCEPT ![a] = pool2]
    <2>1. delegations' = delegations
      BY DEF DistributeRewards
    <2>2. agentPools' = [agentPools EXCEPT ![a].stored = @ + x]
      BY <1>1, <1>4, <1>7 DEF DistributeRewards
    <2>3. agentPools' = [agentPools EXCEPT ![a] = pool2]
      BY <1>1, <1>2, <1>9, <1>10, <2>2
    <2> QED
      BY <1>1, <1>2, <2>1, <2>3
  <1>14. /\ now' \in Nat /\ paused' \in BOOLEAN
         /\ totalDelegatedAllAgents' = totalDelegatedAllAgents + (pool2.total - pool.total)
    BY <1>2, <1>3, <1>11 DEF DistributeRewards
  <1>15. /\ balance' \in [Accounts -> Nat] /\ balance'[Self] = balance[Self] + share - 0
    <2>1. Distributor \in Accounts \ {Self}
      BY SelfAccount
    <2> QED
      BY <1>5, <1>6, <2>1, PaidIn
  <1>16. OwedIn(D, pool2.stored) + PRECISION * 0 <= OwedIn(D, pool.stored) + PRECISION * share
    <2>1. PRECISION * 0 = 0 /\ PRECISION * share = share * PRECISION
      BY <1>5, PrecisionPositive
    <2>2. x * pool.total = pool.total * x
      BY <1>3, <1>8
    <2>3. OwedIn(D, pool.stored) \in Nat /\ x * pool.total \in Nat
      BY <1>2, <1>3, <1>8, PoolBounds, Products
    <2> QED
      BY <1>8, <1>12, <2>1, <2>2, <2>3
  <1>17. IInv'
    BY <1>1, <1>5, <1>12, <1>13, <1>14, <1>15, <1>16, OnePoolChanges
  <1>18. \A d \in Delegators :
           /\ Claimable(D[d], pool2) > Claim(a, d) => pool2.stored > agentPools[a].stored
           /\ Claimable(D[d], pool2) < Claim(a, d) => PaidTo(d)
    <2> TAKE d \in Delegators
    <2>1. Claim(a, d) = Claimable(D[d], pool) /\ Claim(a, d) \in Nat
      BY <1>1, ClaimNatural DEF Claim
    <2>2. Claimable(D[d], pool2) \in Nat
      <3>1. SoundDelegation(D[d], pool2.stored)
        BY <1>12 DEF SoundPool
      <3>2. D[d].pending \in Nat /\ Earned(D[d], pool2) \in Nat
        BY <1>11, <3>1, SoundFields
      <3> QED
        BY <3>2 DEF Claimable
    <2>3. CASE x = 0
      BY <1>12, <2>1, <2>2, <2>3
    <2>4. CASE x # 0
      <3>1. pool2.stored > agentPools[a].stored
        BY <1>1, <1>3, <1>8, <1>9, <1>11, <2>4
      <3>2. Claim(a, d) <= Claimable(D[d], pool2)
        BY <1>12, <2>1
      <3> QED
        BY <2>1, <2>2, <3>1, <3>2
    <2> QED
      BY <2>3, <2>4
  <1> QED
    BY <1>13, <1>17, <1>18, OnePoolEarns

-----------------------------------------------------------------------------
(***************************************************************************)
(* A slash reaches every delegation of an agent.                           *)
(***************************************************************************)

ShareIn(d, bps) == IF Slashable(d) THEN Share(d.amount, bps) ELSE 0

TakenFrom(d, bps) ==
    d.amount + d.unbonding - Slashed(d, bps).amount - Slashed(d, bps).unbonding

SlashedIn(D, bps) == [d \in Delegators |-> Slashed(D[d], bps)]

SharesIn(D, bps) == SumFunctionOnSet([d \in Delegators |-> ShareIn(D[d], bps)], Delegators)

TakenIn(D, bps) == SumFunctionOnSet([d \in Delegators |-> TakenFrom(D[d], bps)], Delegators)

ClosedIn(D, bps) == {d \in Delegators : D[d].active /\ ~Slashed(D[d], bps).active}

LEMMA PoolSlashed ==
    ASSUME NEW pool, NEW D, SoundPool(D, pool), NEW bps \in Nat, bps <= 10000,
           NEW D2, D2 = SlashedIn(D, bps), NEW active, active = SharesIn(D, bps),
           NEW taken, taken = TakenIn(D, bps), NEW closed, closed = ClosedIn(D, bps)
    PROVE  /\ D2 \in [Delegators -> Delegation]
           /\ \A d \in Delegators : SoundDelegation(D2[d], pool.stored)
           /\ active \in Nat /\ taken \in Nat /\ active <= pool.total
           /\ AmountsOf(D2) = pool.total - active
           /\ Cardinality(closed) \in Nat /\ Cardinality(closed) <= pool.count
           /\ Cardinality(OpenIn(D2)) = pool.count - Cardinality(closed)
           /\ OwedIn(D2, pool.stored) + PRECISION * taken <= OwedIn(D, pool.stored)
           /\ \A d \in Delegators :
                /\ Claimable(D2[d], pool) <= Claimable(D[d], pool)
                /\ Claimable(D2[d], pool) \in Nat /\ Claimable(D[d], pool) \in Nat
                /\ Claimable(D2[d], pool) # Claimable(D[d], pool) => taken > 0
  <1> DEFINE am1 == [d \in Delegators |-> D[d].amount]
             am2 == [d \in Delegators |-> D2[d].amount]
             shares == [d \in Delegators |-> ShareIn(D[d], bps)]
             takens == [d \in Delegators |-> TakenFrom(D[d], bps)]
             units == [d \in Delegators |-> PRECISION * TakenFrom(D[d], bps)]
             ow1 == [d \in Delegators |-> Owed(D[d], pool.stored)]
             ow2 == [d \in Delegators |-> Owed(D2[d], pool.stored)]
             both == [d \in Delegators |->
                        Owed(D2[d], pool.stored) + PRECISION * TakenFrom(D[d], bps)]
  <1>1. /\ pool \in Pool /\ D \in [Delegators -> Delegation]
        /\ \A d \in Delegators : SoundDelegation(D[d], pool.stored)
        /\ pool.total = AmountsOf(D) /\ pool.count = Cardinality(OpenIn(D))
    BY DEF SoundPool
  <1>2. \A d \in Delegators :
          /\ SoundDelegation(D2[d], pool.stored)
          /\ ShareIn(D[d], bps) \in Nat /\ ShareIn(D[d], bps) <= D[d].amount
          /\ D2[d].amount = D[d].amount - ShareIn(D[d], bps)
          /\ TakenFrom(D[d], bps) \in Nat /\ ShareIn(D[d], bps) <= TakenFrom(D[d], bps)
          /\ D2[d].active => D[d].active
          /\ Owed(D2[d], pool.stored) + PRECISION * TakenFrom(D[d], bps) <= Owed(D[d], pool.stored)
          /\ Claimable(D2[d], pool) <= Claimable(D[d], pool)
          /\ Claimable(D2[d], pool) \in Nat /\ Claimable(D[d], pool) \in Nat
          /\ Claimable(D2[d], pool) # Claimable(D[d], pool) => ShareIn(D[d], bps) > 0
    <2> TAKE d \in Delegators
    <2>1. D2[d] = Slashed(D[d], bps)
      BY DEF SlashedIn
    <2>2. SoundDelegation(D[d], pool.stored) /\ pool \in Pool
      BY <1>1
    <2> QED
      BY <2>1, <2>2, SlashedSound DEF ShareIn, TakenFrom
  <1>3. D2 \in [Delegators -> Delegation]
    BY <1>2 DEF SoundDelegation, SlashedIn
  <1>4. \A d \in Delegators :
          /\ D[d].amount \in Nat /\ D2[d].amount \in Nat
          /\ Owed(D[d], pool.stored) \in Nat /\ Owed(D2[d], pool.stored) \in Nat
          /\ PRECISION * TakenFrom(D[d], bps) \in Nat
    <2> TAKE d \in Delegators
    <2>1. D[d].amount \in Nat /\ Owed(D[d], pool.stored) \in Nat
      BY ONLY <1>1, SoundFields, d \in Delegators
    <2>2. D2[d].amount \in Nat /\ Owed(D2[d], pool.stored) \in Nat
      BY ONLY <1>1, <1>2, SoundFields, d \in Delegators
    <2>3. PRECISION * TakenFrom(D[d], bps) \in Nat
      BY <1>2, PrecisionPositive, Products
    <2> QED
      BY <2>1, <2>2, <2>3
  <1>5. \A d \in Delegators : /\ am2[d] \in Int /\ shares[d] \in Int
                              /\ am1[d] = am2[d] + shares[d]
    BY <1>2, <1>4
  <1>6. \A d \in Delegators : /\ shares[d] \in Nat /\ takens[d] \in Nat
                              /\ takens[d] \in Int /\ units[d] = PRECISION * takens[d]
                              /\ takens[d] = TakenFrom(D[d], bps)
    BY <1>2
  <1>7. \A d \in Delegators : /\ ow2[d] \in Int /\ units[d] \in Int
                              /\ both[d] = ow2[d] + units[d]
    BY <1>4
  <1>8. \A d \in Delegators : both[d] \in Int /\ ow1[d] \in Int /\ both[d] <= ow1[d]
    BY <1>2, <1>4
  <1>9. /\ AmountsOf(D) = SumFunctionOnSet(am1, Delegators)
        /\ AmountsOf(D2) = SumFunctionOnSet(am2, Delegators)
        /\ OwedIn(D, pool.stored) = SumFunctionOnSet(ow1, Delegators)
        /\ OwedIn(D2, pool.stored) = SumFunctionOnSet(ow2, Delegators)
        /\ active = SumFunctionOnSet(shares, Delegators)
        /\ taken = SumFunctionOnSet(takens, Delegators)
    BY DEF AmountsOf, OwedIn, SharesIn, TakenIn
  <1> HIDE DEF am1, am2, shares, takens, units, ow1, ow2, both
  <1>10. SumFunctionOnSet(am1, Delegators)
           = SumFunctionOnSet(am2, Delegators) + SumFunctionOnSet(shares, Delegators)
    BY <1>5, SetsFinite, SumAdds
  <1>11. SumFunctionOnSet(shares, Delegators) \in Nat
    BY <1>6, SetsFinite, SumAtLeast
  <1>12. /\ SumFunctionOnSet(takens, Delegators) \in Nat
         /\ \A d \in Delegators : takens[d] <= SumFunctionOnSet(takens, Delegators)
    BY <1>6, SetsFinite, SumAtLeast
  <1>13. SumFunctionOnSet(units, Delegators) = PRECISION * SumFunctionOnSet(takens, Delegators)
    <2>1. PRECISION \in Int
      BY PrecisionPositive
    <2>2. \A d \in Delegators : takens[d] \in Int /\ units[d] = PRECISION * takens[d]
      BY <1>6
    <2> QED
      BY <2>1, <2>2, SetsFinite, SumScaled
  <1>14. SumFunctionOnSet(both, Delegators)
           = SumFunctionOnSet(ow2, Delegators) + SumFunctionOnSet(units, Delegators)
    BY <1>7, SetsFinite, SumAdds
  <1>15. SumFunctionOnSet(both, Delegators) <= SumFunctionOnSet(ow1, Delegators)
    BY <1>8, SetsFinite, SumAtMost
  <1>16. SumFunctionOnSet(am2, Delegators) \in Int
    BY <1>5, SetsFinite, SumInteger
  <1>17. /\ active \in Nat /\ taken \in Nat
         /\ AmountsOf(D2) = pool.total - active
         /\ OwedIn(D2, pool.stored) + PRECISION * taken <= OwedIn(D, pool.stored)
    BY <1>1, <1>9, <1>10, <1>11, <1>12, <1>13, <1>14, <1>15, <1>16
  <1>18. active <= pool.total
    <2>1. \A d \in Delegators : am2[d] \in Nat
      BY <1>4 DEF am2
    <2>2. SumFunctionOnSet(am2, Delegators) \in Nat
      BY <2>1, SetsFinite, SumAtLeast
    <2> QED
      BY <1>1, <1>9, <1>10, <1>11, <2>2
  <1>19. /\ Cardinality(closed) \in Nat /\ Cardinality(closed) <= pool.count
         /\ Cardinality(OpenIn(D2)) = pool.count - Cardinality(closed)
    <2>1. /\ closed \subseteq OpenIn(D) /\ OpenIn(D2) = OpenIn(D) \ closed
          /\ OpenIn(D) \subseteq Delegators
      BY <1>2 DEF OpenIn, ClosedIn, SlashedIn
    <2>2. IsFiniteSet(OpenIn(D))
      BY <2>1, SetsFinite, FS_Subset
    <2>3. IsFiniteSet(closed) /\ Cardinality(closed) <= Cardinality(OpenIn(D))
      BY ONLY <2>1, <2>2, FS_Subset
    <2>4. Cardinality(OpenIn(D) \ closed)
            = Cardinality(OpenIn(D)) - Cardinality(OpenIn(D) \cap closed)
      BY ONLY <2>2, FS_Difference
    <2>5. OpenIn(D) \cap closed = closed
      BY <2>1
    <2>6. Cardinality(closed) \in Nat
      BY ONLY <2>3, FS_CardinalityType
    <2>7. Cardinality(OpenIn(D)) \in Nat
      BY ONLY <2>2, FS_CardinalityType
    <2> QED
      BY ONLY <1>1, <2>1, <2>3, <2>4, <2>5, <2>6, <2>7
  <1>20. \A d \in Delegators :
           Claimable(D2[d], pool) # Claimable(D[d], pool) => taken > 0
    <2> SUFFICES ASSUME NEW d \in Delegators, Claimable(D2[d], pool) # Claimable(D[d], pool)
                 PROVE  taken > 0
      OBVIOUS
    <2>1. /\ ShareIn(D[d], bps) > 0 /\ ShareIn(D[d], bps) <= takens[d]
          /\ takens[d] <= taken /\ ShareIn(D[d], bps) \in Nat /\ takens[d] \in Nat
      BY <1>2, <1>6, <1>9, <1>12
    <2> QED
      BY <1>17, <2>1
  <1> QED
    BY <1>2, <1>3, <1>17, <1>18, <1>19, <1>20

LEMMA PropagateSlashSafe ==
    ASSUME IInv, NEW a \in Agents, NEW bps \in SlashRates, PropagateSlash(a, bps)
    PROVE  IInv' /\ EarnsOnly
  <1>1. PICK D, pool : D = delegations[a] /\ pool = agentPools[a]
    OBVIOUS
  <1>2. /\ SoundPool(D, pool) /\ pool \in Pool
        /\ now \in Nat /\ paused \in BOOLEAN /\ totalDelegatedAllAgents \in Nat
        /\ delegations \in [Agents -> [Delegators -> Delegation]]
        /\ agentPools \in [Agents -> Pool]
    BY <1>1 DEF IInv, TypeOK, SoundPool
  <1>3. pool.total \in Nat /\ pool.stored \in Nat /\ pool.count \in Nat
    BY <1>2 DEF Pool
  <1>4. bps \in Nat /\ bps <= 10000
    BY AmountsAssumption
  <1>5. PICK D2, closed : D2 = SlashedIn(D, bps) /\ closed = ClosedIn(D, bps)
    OBVIOUS
  <1>6. PICK active, taken : active = SharesIn(D, bps) /\ taken = TakenIn(D, bps)
    OBVIOUS
  <1>7. /\ D2 \in [Delegators -> Delegation]
        /\ \A d \in Delegators : SoundDelegation(D2[d], pool.stored)
        /\ active \in Nat /\ taken \in Nat /\ active <= pool.total
        /\ AmountsOf(D2) = pool.total - active
        /\ Cardinality(closed) \in Nat /\ Cardinality(closed) <= pool.count
        /\ Cardinality(OpenIn(D2)) = pool.count - Cardinality(closed)
        /\ OwedIn(D2, pool.stored) + PRECISION * taken <= OwedIn(D, pool.stored)
        /\ \A d \in Delegators :
             /\ Claimable(D2[d], pool) <= Claimable(D[d], pool)
             /\ Claimable(D2[d], pool) \in Nat /\ Claimable(D[d], pool) \in Nat
             /\ Claimable(D2[d], pool) # Claimable(D[d], pool) => taken > 0
    BY <1>2, <1>4, <1>5, <1>6, PoolSlashed
  <1>8. PICK total \in Nat, count \in Nat :
          total = pool.total - active /\ count = pool.count - Cardinality(closed)
    BY <1>3, <1>7
  <1>9. /\ Monus(pool.total, active) = total
        /\ Monus(pool.count, Cardinality(closed)) = count
        /\ Monus(totalDelegatedAllAgents, active) = totalDelegatedAllAgents - active
    <2>1. pool.total <= totalDelegatedAllAgents
      BY <1>1, BookedBounds
    <2> QED
      BY <1>2, <1>3, <1>7, <1>8, <2>1 DEF Monus
  <1>10. PICK pool2 : pool2 = [pool EXCEPT !.total = total, !.count = count]
    OBVIOUS
  <1>11. pool2 \in Pool /\ pool2.stored = pool.stored /\ pool2.total = total
         /\ pool2.count = count
    BY ONLY <1>2, <1>10, total \in Nat, count \in Nat DEF Pool
  <1>12. SoundPool(D2, pool2)
    BY ONLY <1>7, <1>8, <1>11 DEF SoundPool
  \* The action in these terms.
  <1>13. /\ delegations' = [delegations EXCEPT ![a] = [d \in Delegators |-> Slashed(@[d], bps)]]
         /\ agentPools' = [agentPools EXCEPT ![a].total = Monus(@, active),
                                             ![a].count = Monus(@, Cardinality(closed))]
         /\ totalDelegatedAllAgents' = Monus(totalDelegatedAllAgents, active)
         /\ Transfer(Self, Treasury, taken)
         /\ now' = now /\ paused' = paused
    <2>1. active = SumFunction([d \in Delegators |->
                     IF Slashable(delegations[a][d]) THEN Share(delegations[a][d].amount, bps)
                     ELSE 0])
      BY ONLY <1>1, <1>6 DEF SumFunction, SharesIn, ShareIn
    <2>2. taken = SumFunction([d \in Delegators |->
                     delegations[a][d].amount + delegations[a][d].unbonding
                       - Slashed(delegations[a][d], bps).amount
                       - Slashed(delegations[a][d], bps).unbonding])
      BY ONLY <1>1, <1>6 DEF SumFunction, TakenIn, TakenFrom
    <2>3. closed = {d \in Delegators : /\ delegations[a][d].active
                                       /\ ~Slashed(delegations[a][d], bps).active}
      BY ONLY <1>1, <1>5 DEF ClosedIn
    <2> QED
      BY <2>1, <2>2, <2>3 DEF PropagateSlash
  <1>14. delegations' = [delegations EXCEPT ![a] = D2]
    BY ONLY <1>1, <1>2, <1>5, <1>13, a \in Agents DEF SlashedIn
  <1>15. agentPools' = [agentPools EXCEPT ![a] = pool2]
    BY ONLY <1>1, <1>2, <1>9, <1>10, <1>13, a \in Agents DEF Pool
  <1>16. /\ now' \in Nat /\ paused' \in BOOLEAN
         /\ totalDelegatedAllAgents' = totalDelegatedAllAgents + (pool2.total - pool.total)
    BY ONLY <1>2, <1>3, <1>7, <1>8, <1>9, <1>11, <1>13
  <1>17. /\ balance' \in [Accounts -> Nat] /\ balance'[Self] = balance[Self] + 0 - taken
         /\ taken > 0 => balance'[Treasury] > balance[Treasury]
    <2>1. Treasury \in Accounts \ {Self}
      BY SelfAccount
    <2> QED
      BY <1>7, <1>13, <2>1, PaidOut
  <1>18. OwedIn(D2, pool2.stored) + PRECISION * taken <= OwedIn(D, pool.stored) + PRECISION * 0
    <2>1. OwedIn(D, pool.stored) \in Nat
      BY ONLY <1>2, PoolBounds
    <2>2. PRECISION * 0 = 0
      BY PrecisionPositive
    <2> QED
      BY ONLY <1>7, <1>11, <2>1, <2>2
  <1>19. IInv'
    BY <1>1, <1>7, <1>12, <1>14, <1>15, <1>16, <1>17, <1>18, OnePoolChanges
  <1>20. \A d \in Delegators :
           /\ Claimable(D2[d], pool2) > Claim(a, d) => pool2.stored > agentPools[a].stored
           /\ Claimable(D2[d], pool2) < Claim(a, d) => PaidTo(d)
    <2> TAKE d \in Delegators
    <2>1. Claim(a, d) = Claimable(D[d], pool)
      BY <1>1 DEF Claim
    <2>2. Claimable(D2[d], pool2) = Claimable(D2[d], pool)
      BY <1>11 DEF Claimable, Earned
    <2>3. Claimable(D2[d], pool) # Claimable(D[d], pool) => PaidTo(d)
      BY <1>7, <1>17 DEF PaidTo
    <2>4. /\ Claimable(D2[d], pool) <= Claimable(D[d], pool)
          /\ Claimable(D2[d], pool) \in Nat /\ Claimable(D[d], pool) \in Nat
      BY <1>7
    <2> QED
      BY ONLY <2>1, <2>2, <2>3, <2>4
  <1> QED
    BY <1>14, <1>15, <1>19, <1>20, OnePoolEarns

-----------------------------------------------------------------------------
(***************************************************************************)
(* The claim of every active delegation.                                   *)
(***************************************************************************)

\* Of one agent, what a delegator is paid, and what is left.
PaidBy(d, a) == IF delegations[a][d].active THEN Claim(a, d) ELSE 0

AfterClaim(d, a) ==
    IF delegations[a][d].active
    THEN [delegations[a] EXCEPT ![d] = Claimed(delegations[a][d], agentPools[a])]
    ELSE delegations[a]

LEMMA AgentClaimed ==
    ASSUME IInv, NEW d \in Delegators, NEW a \in Agents
    PROVE  /\ SoundPool(AfterClaim(d, a), agentPools[a])
           /\ PaidBy(d, a) \in Nat
           /\ OwedIn(AfterClaim(d, a), agentPools[a].stored) + PRECISION * PaidBy(d, a)
                <= OwedIn(delegations[a], agentPools[a].stored)
           /\ \A e \in Delegators :
                \/ Claimable(AfterClaim(d, a)[e], agentPools[a]) = Claim(a, e)
                \/ /\ e = d /\ PaidBy(d, a) = Claim(a, e)
                   /\ Claimable(AfterClaim(d, a)[e], agentPools[a]) = 0
  <1>1. PICK D, pool : D = delegations[a] /\ pool = agentPools[a]
    OBVIOUS
  <1>2. /\ SoundPool(D, pool) /\ pool \in Pool /\ SoundDelegation(D[d], pool.stored)
        /\ D \in [Delegators -> Delegation]
    BY <1>1 DEF IInv, SoundPool
  <1>3. pool.total \in Nat /\ pool.count \in Nat /\ OwedIn(D, pool.stored) \in Nat
    BY <1>2, PoolBounds
  <1>4. \A e \in Delegators : Claim(a, e) = Claimable(D[e], pool)
    BY <1>1 DEF Claim
  <1>5. CASE ~D[d].active
    <2>1. AfterClaim(d, a) = D /\ PaidBy(d, a) = 0
      BY <1>1, <1>5 DEF AfterClaim, PaidBy
    <2>2. PRECISION * 0 = 0
      BY PrecisionPositive
    <2> QED
      BY ONLY <1>1, <1>2, <1>3, <1>4, <2>1, <2>2
  <1>6. CASE D[d].active
    <2>1. PICK r : r = Claimed(D[d], pool)
      OBVIOUS
    <2>2. /\ SoundDelegation(r, pool.stored)
          /\ r.amount = D[d].amount /\ r.active = D[d].active
          /\ Claimable(D[d], pool) \in Nat
          /\ Owed(r, pool.stored) + PRECISION * Claimable(D[d], pool) <= Owed(D[d], pool.stored)
          /\ Claimable(r, pool) = 0
      BY <1>2, <2>1, ClaimedSound
    <2>3. AfterClaim(d, a) = [D EXCEPT ![d] = r] /\ PaidBy(d, a) = Claimable(D[d], pool)
      BY <1>1, <1>4, <1>6, <2>1 DEF AfterClaim, PaidBy
    <2>4. D[d].amount \in Nat /\ Owed(D[d], pool.stored) \in Nat
      BY <1>2, SoundFields
    <2>5. Owed(r, pool.stored) \in Nat
      BY <1>2, <2>2, SoundFields
    <2>6. pool.total = pool.total + r.amount - D[d].amount
      BY <1>3, <2>2, <2>4
    <2>7. /\ SoundPool([D EXCEPT ![d] = r], pool)
          /\ OwedIn([D EXCEPT ![d] = r], pool.stored)
               = OwedIn(D, pool.stored) + Owed(r, pool.stored) - Owed(D[d], pool.stored)
      <3>1. PICK pool2 : pool2 = pool
        OBVIOUS
      <3>2. /\ pool2 \in Pool /\ pool2.stored = pool.stored
            /\ pool2.total = pool.total + r.amount - D[d].amount
            /\ r.active = D[d].active => pool2.count = pool.count
            /\ r.active /\ ~D[d].active => pool2.count = pool.count + 1
            /\ ~r.active /\ D[d].active => pool2.count = pool.count - 1
        BY <1>2, <2>2, <2>6, <3>1
      <3>3. SoundDelegation(r, pool.stored)
        BY <2>2
      <3>4. /\ SoundPool([D EXCEPT ![d] = r], pool2)
            /\ OwedIn([D EXCEPT ![d] = r], pool2.stored)
                 = OwedIn(D, pool.stored) + Owed(r, pool.stored) - Owed(D[d], pool.stored)
        BY ONLY ZenonT(60), <1>2, <3>2, <3>3, OneRewritten, d \in Delegators
      <3> QED
        BY <3>1, <3>4
    <2>8. PRECISION * Claimable(D[d], pool) \in Nat
      BY <2>2, PrecisionPositive, Products
    <2>9. OwedIn([D EXCEPT ![d] = r], pool.stored) + PRECISION * Claimable(D[d], pool)
            <= OwedIn(D, pool.stored)
      BY ONLY <1>3, <2>2, <2>4, <2>5, <2>7, <2>8
    <2>10. \A e \in Delegators :
             \/ Claimable([D EXCEPT ![d] = r][e], pool) = Claimable(D[e], pool)
             \/ e = d /\ Claimable([D EXCEPT ![d] = r][e], pool) = 0
      <3> TAKE e \in Delegators
      <3>1. CASE e = d
        <4>1. [D EXCEPT ![d] = r][e] = r
          BY <1>2, <3>1
        <4> QED
          BY <2>2, <3>1, <4>1
      <3>2. CASE e # d
        <4>1. [D EXCEPT ![d] = r][e] = D[e]
          BY <1>2, <3>2
        <4> QED
          BY <4>1
      <3> QED
        BY <3>1, <3>2
    <2> QED
      BY ONLY <1>1, <1>4, <2>2, <2>3, <2>7, <2>9, <2>10, d \in Delegators
  <1> QED
    BY <1>5, <1>6

LEMMA ClaimAllRewardsSafe ==
    ASSUME IInv, NEW d \in Delegators, NEW payee \in {d, HbarPool}, ClaimAllRewards(d, payee)
    PROVE  IInv' /\ EarnsOnly
  <1> DEFINE mine == {a \in Agents : delegations[a][d].active}
             claims == [a \in Agents |-> Claimable(delegations[a][d], agentPools[a])]
             paid == [a \in Agents |-> PaidBy(d, a)]
             units == [a \in Agents |-> PRECISION * PaidBy(d, a)]
             ow1 == [a \in Agents |-> OwedIn(delegations[a], agentPools[a].stored)]
             ow2 == [a \in Agents |-> OwedIn(delegations'[a], agentPools'[a].stored)]
             both == [a \in Agents |-> OwedIn(delegations'[a], agentPools'[a].stored)
                                         + PRECISION * PaidBy(d, a)]
             total == SumFunctionOnSet(claims, mine)
  <1>1. /\ now' = now /\ paused' = paused /\ agentPools' = agentPools
        /\ totalDelegatedAllAgents' = totalDelegatedAllAgents
        /\ Transfer(Self, payee, total)
        /\ delegations' = [a \in Agents |->
                             IF a \in mine
                             THEN [delegations[a] EXCEPT ![d] = Claimed(@, agentPools[a])]
                             ELSE delegations[a]]
    BY DEF ClaimAllRewards
  <1>2. \A a \in Agents : delegations'[a] = AfterClaim(d, a) /\ agentPools'[a] = agentPools[a]
    BY <1>1 DEF AfterClaim
  <1>3. \A a \in Agents :
          /\ SoundPool(delegations'[a], agentPools'[a])
          /\ PaidBy(d, a) \in Nat
          /\ OwedIn(delegations'[a], agentPools'[a].stored) + PRECISION * PaidBy(d, a)
               <= OwedIn(delegations[a], agentPools[a].stored)
          /\ OwedIn(delegations'[a], agentPools'[a].stored) \in Nat
          /\ PRECISION * PaidBy(d, a) \in Nat
    <2> TAKE a \in Agents
    <2>1. /\ SoundPool(delegations'[a], agentPools'[a])
          /\ PaidBy(d, a) \in Nat
          /\ OwedIn(delegations'[a], agentPools'[a].stored) + PRECISION * PaidBy(d, a)
               <= OwedIn(delegations[a], agentPools[a].stored)
      BY ONLY <1>2, IInv, AgentClaimed, d \in Delegators, a \in Agents
    <2>2. OwedIn(delegations'[a], agentPools'[a].stored) \in Nat
      BY ONLY <2>1, PoolBounds
    <2>3. PRECISION * PaidBy(d, a) \in Nat
      BY ONLY <2>1, PrecisionPositive, Products
    <2> QED
      BY ONLY <2>1, <2>2, <2>3
  <1>4. /\ mine \in SUBSET Agents
        /\ \A a \in Agents : claims[a] \in Nat /\ claims[a] \in Int
        /\ [a \in Agents |-> IF a \in mine THEN claims[a] ELSE 0] = paid
        /\ \A a \in Agents : paid[a] \in Nat /\ paid[a] = PaidBy(d, a)
    BY <1>3, ClaimNatural DEF Claim, PaidBy
  <1>5. \A a \in Agents : /\ paid[a] \in Int /\ units[a] = PRECISION * paid[a]
                          /\ ow2[a] \in Int /\ units[a] \in Int
                          /\ both[a] = ow2[a] + units[a]
    BY <1>3
  <1>6. \A a \in Agents : both[a] \in Int /\ ow1[a] \in Int /\ both[a] <= ow1[a]
    BY <1>3, BookedBounds
  <1>7. /\ OwedByAll = SumFunctionOnSet(ow1, Agents)
        /\ OwedByAll' = SumFunctionOnSet(ow2, Agents)
    BY DEF OwedByAll
  <1>8. Transfer(Self, payee, total)
    BY <1>1
  <1> HIDE DEF claims, paid, units, ow1, ow2, both, mine
  <1>9. total = SumFunctionOnSet(paid, Agents)
    BY <1>4, SetsFinite, SumOfPart
  <1>10. /\ total \in Nat
         /\ \A a \in Agents : paid[a] <= total
    BY <1>4, <1>9, SetsFinite, SumAtLeast
  <1> HIDE DEF total
  <1>11. SumFunctionOnSet(units, Agents) = PRECISION * SumFunctionOnSet(paid, Agents)
    <2>1. PRECISION \in Int
      BY PrecisionPositive
    <2>2. \A a \in Agents : paid[a] \in Int /\ units[a] = PRECISION * paid[a]
      BY <1>5
    <2> QED
      BY ONLY <2>1, <2>2, SetsFinite, SumScaled
  <1>12. SumFunctionOnSet(both, Agents)
           = SumFunctionOnSet(ow2, Agents) + SumFunctionOnSet(units, Agents)
    <2>1. \A a \in Agents : ow2[a] \in Int /\ units[a] \in Int /\ both[a] = ow2[a] + units[a]
      BY <1>5
    <2> QED
      BY ONLY <2>1, SetsFinite, SumAdds
  <1>13. SumFunctionOnSet(both, Agents) <= SumFunctionOnSet(ow1, Agents)
    BY ONLY <1>6, SetsFinite, SumAtMost
  <1>14. SumFunctionOnSet(ow2, Agents) \in Int
    <2>1. \A a \in Agents : ow2[a] \in Int
      BY <1>5
    <2> QED
      BY ONLY <2>1, SetsFinite, SumInteger
  <1>15. OwedByAll' + PRECISION * total <= OwedByAll /\ OwedByAll' \in Int
    BY ONLY <1>7, <1>9, <1>11, <1>12, <1>13, <1>14
  <1>16. /\ balance' \in [Accounts -> Nat]
         /\ balance'[Self] = balance[Self] + 0 - total
         /\ total > 0 => PaidTo(d)
    BY <1>8, <1>10, PaidToDelegator
  <1>17. OwedByAll' <= PRECISION * balance'[Self]
    <2>1. balance[Self] \in Nat /\ balance'[Self] \in Nat /\ PRECISION \in Nat
      BY <1>16, SelfAccount, PrecisionPositive DEF IInv, TypeOK
    <2>2. PRECISION * balance[Self] = PRECISION * balance'[Self] + PRECISION * total
      <3>1. balance[Self] = balance'[Self] + total
        BY ONLY <1>10, <1>16, <2>1
      <3>2. PRECISION \in Int /\ balance'[Self] \in Int /\ total \in Int
        BY <1>10, <2>1
      <3> QED
        BY ONLY <3>1, <3>2, Products
    <2>3. OwedByAll <= PRECISION * balance[Self] /\ OwedByAll \in Nat
      BY BookedBounds DEF IInv
    <2>4. PRECISION * balance'[Self] \in Nat /\ PRECISION * total \in Nat
      BY ONLY <1>10, <2>1, Products
    <2> QED
      BY ONLY <1>15, <2>2, <2>3, <2>4
  <1>18. TypeOK'
    <2>1. delegations' \in [Agents -> [Delegators -> Delegation]]
      BY <1>1, <1>3 DEF SoundPool
    <2> QED
      BY <1>1, <1>16, <2>1 DEF IInv, TypeOK
  <1>19. Booked' = Booked
    BY <1>1 DEF Booked
  <1>20. IInv'
    BY <1>1, <1>3, <1>17, <1>18, <1>19 DEF IInv
  <1>21. EarnsOnly
    <2> SUFFICES ASSUME NEW a \in Agents, NEW e \in Delegators
                 PROVE  /\ Claim(a, e)' > Claim(a, e)
                             => agentPools'[a].stored > agentPools[a].stored
                        /\ Claim(a, e)' < Claim(a, e) => PaidTo(e)
      BY DEF EarnsOnly
    <2>1. Claim(a, e)' = Claimable(AfterClaim(d, a)[e], agentPools[a])
      BY <1>2 DEF Claim
    <2>2. Claim(a, e) \in Nat
      BY ClaimNatural
    <2>3. \/ Claimable(AfterClaim(d, a)[e], agentPools[a]) = Claim(a, e)
          \/ /\ e = d /\ PaidBy(d, a) = Claim(a, e)
             /\ Claimable(AfterClaim(d, a)[e], agentPools[a]) = 0
      BY AgentClaimed
    <2>4. PaidBy(d, a) \in Nat /\ PaidBy(d, a) <= total
      BY <1>3, <1>4, <1>10
    <2> QED
      BY ONLY <1>10, <1>16, <2>1, <2>2, <2>3, <2>4
  <1> QED
    BY <1>20, <1>21

-----------------------------------------------------------------------------
(***************************************************************************)
(* The remaining calls, and the invariant.                                 *)
(***************************************************************************)

LEMMA SetRewardShareBpsSafe ==
    ASSUME IInv, NEW a \in Agents, NEW bps \in RewardShares, SetRewardShareBps(a, bps)
    PROVE  IInv' /\ EarnsOnly
  <1>1. bps \in Nat
    BY AmountsAssumption
  <1>2. /\ agentPools \in [Agents -> Pool] /\ now \in Nat /\ paused \in BOOLEAN
        /\ agentPools' = [agentPools EXCEPT ![a].bps = bps]
        /\ now' = now /\ paused' = paused
        /\ UNCHANGED <<delegations, totalDelegatedAllAgents, balance>>
    BY DEF IInv, TypeOK, SetRewardShareBps
  <1>3. PICK pool2 : pool2 = [agentPools[a] EXCEPT !.bps = bps]
    OBVIOUS
  <1>4. /\ pool2 \in Pool /\ pool2.total = agentPools[a].total
        /\ pool2.stored = agentPools[a].stored /\ pool2.count = agentPools[a].count
    BY ONLY <1>1, <1>2, <1>3, a \in Agents DEF Pool
  <1>5. agentPools' = [agentPools EXCEPT ![a] = pool2]
    BY ONLY <1>2, <1>3, a \in Agents
  <1>6. /\ agentPools' \in [Agents -> Pool]
        /\ \A b \in Agents : /\ agentPools'[b].total = agentPools[b].total
                             /\ agentPools'[b].stored = agentPools[b].stored
                             /\ agentPools'[b].count = agentPools[b].count
    BY ONLY <1>2, <1>4, <1>5, a \in Agents
  <1> QED
    BY <1>2, <1>6, StoreKept

\* Steps that only move the clock or the switch, and stuttering.
LEMMA OtherSafe ==
    ASSUME IInv, \/ \E p \in BOOLEAN : SetPaused(p)
                 \/ Tick
                 \/ UNCHANGED vars
    PROVE  IInv' /\ EarnsOnly
  <1>1. /\ now' \in Nat /\ paused' \in BOOLEAN
        /\ agentPools' = agentPools /\ agentPools \in [Agents -> Pool]
        /\ UNCHANGED <<delegations, totalDelegatedAllAgents, balance>>
    <2>1. agentPools \in [Agents -> Pool] /\ now \in Nat /\ paused \in BOOLEAN
      BY DEF IInv, TypeOK
    <2>2. ASSUME NEW p \in BOOLEAN, SetPaused(p)
          PROVE  /\ now' \in Nat /\ paused' \in BOOLEAN /\ agentPools' = agentPools
                 /\ UNCHANGED <<delegations, totalDelegatedAllAgents, balance>>
      BY <2>1, <2>2 DEF SetPaused
    <2>3. ASSUME Tick
          PROVE  /\ now' \in Nat /\ paused' \in BOOLEAN /\ agentPools' = agentPools
                 /\ UNCHANGED <<delegations, totalDelegatedAllAgents, balance>>
      BY <2>1, <2>3 DEF Tick
    <2>4. ASSUME UNCHANGED vars
          PROVE  /\ now' \in Nat /\ paused' \in BOOLEAN /\ agentPools' = agentPools
                 /\ UNCHANGED <<delegations, totalDelegatedAllAgents, balance>>
      BY <2>1, <2>4 DEF vars
    <2> QED
      BY <2>1, <2>2, <2>3, <2>4
  <1> QED
    BY <1>1, StoreKept

LEMMA NextSafe ==
    ASSUME IInv, [Next]_vars
    PROVE  IInv' /\ EarnsOnly
  <1>1. ASSUME NEW d \in Delegators, NEW a \in Agents, DelegatorStep(d, a)
        PROVE  IInv' /\ EarnsOnly
    BY <1>1, DelegateSafe, RequestUndelegateSafe, CompleteUndelegateSafe, ClaimRewardsSafe
       DEF DelegatorStep
  <1>2. ASSUME NEW d \in Delegators, NEW payee \in {d, HbarPool}, ClaimAllRewards(d, payee)
        PROVE  IInv' /\ EarnsOnly
    BY <1>2, ClaimAllRewardsSafe
  <1>3. ASSUME NEW a \in Agents, AgentStep(a)
        PROVE  IInv' /\ EarnsOnly
    BY <1>3, DistributeRewardsSafe, PropagateSlashSafe, SetRewardShareBpsSafe DEF AgentStep
  <1>4. ASSUME (\E p \in BOOLEAN : SetPaused(p)) \/ Tick \/ UNCHANGED vars
        PROVE  IInv' /\ EarnsOnly
    BY <1>4, OtherSafe
  <1> QED
    BY <1>1, <1>2, <1>3, <1>4 DEF Next

\* A pool nobody has delegated to owes nothing.
LEMMA NoneOwed ==
    ASSUME NEW D, D = [d \in Delegators |-> NoDelegation]
    PROVE  SoundPool(D, NoPool) /\ OwedIn(D, 0) = 0
  <1>1. /\ NoDelegation \in Delegation /\ NoPool \in Pool
        /\ NoPool.stored = 0 /\ NoPool.total = 0 /\ NoPool.count = 0
        /\ NoDelegation.amount = 0 /\ NoDelegation.unbonding = 0
        /\ NoDelegation.pending = 0 /\ NoDelegation.paid = 0
        /\ NoDelegation.active = FALSE
    BY DEF NoDelegation, NoPool, Delegation, Pool
  <1>2. SoundDelegation(NoDelegation, 0)
    BY <1>1 DEF SoundDelegation
  <1>3. Owed(NoDelegation, 0) = 0
    <2>1. PRECISION \in Nat
      BY PrecisionPositive
    <2> QED
      BY <1>1, <2>1 DEF Owed
  <1>4. AmountsOf(D) = 0
    <2> DEFINE f == [d \in Delegators |-> D[d].amount]
    <2>1. \A d \in Delegators : f[d] = 0
      BY <1>1
    <2>2. AmountsOf(D) = SumFunctionOnSet(f, Delegators)
      BY DEF AmountsOf
    <2> HIDE DEF f
    <2> QED
      BY <2>1, <2>2, SetsFinite, SumZero
  <1>5. OwedIn(D, 0) = 0
    <2> DEFINE f == [d \in Delegators |-> Owed(D[d], 0)]
    <2>1. \A d \in Delegators : f[d] = 0
      BY <1>3
    <2>2. OwedIn(D, 0) = SumFunctionOnSet(f, Delegators)
      BY DEF OwedIn
    <2> HIDE DEF f
    <2> QED
      BY <2>1, <2>2, SetsFinite, SumZero
  <1>6. Cardinality(OpenIn(D)) = 0
    <2>1. OpenIn(D) = {}
      BY <1>1 DEF OpenIn
    <2> QED
      BY <2>1, FS_EmptySet
  <1> QED
    BY <1>1, <1>2, <1>4, <1>5, <1>6 DEF SoundPool

LEMMA InitSafe == Init => IInv
  <1> SUFFICES ASSUME Init
               PROVE  IInv
    OBVIOUS
  <1>1. \A a \in Agents : /\ SoundPool(delegations[a], agentPools[a])
                          /\ OwedIn(delegations[a], agentPools[a].stored) = 0
                          /\ agentPools[a].total = 0
    <2> TAKE a \in Agents
    <2>1. delegations[a] = [d \in Delegators |-> NoDelegation] /\ agentPools[a] = NoPool
      BY DEF Init
    <2>2. NoPool.stored = 0 /\ NoPool.total = 0
      BY DEF NoPool
    <2> QED
      BY <2>1, <2>2, NoneOwed
  <1>2. Booked = 0
    <2> DEFINE f == [a \in Agents |-> agentPools[a].total]
    <2>1. \A a \in Agents : f[a] = 0
      BY <1>1
    <2>2. Booked = SumFunctionOnSet(f, Agents)
      BY DEF Booked
    <2> HIDE DEF f
    <2> QED
      BY <2>1, <2>2, SetsFinite, SumZero
  <1>3. OwedByAll = 0
    <2> DEFINE f == [a \in Agents |-> OwedIn(delegations[a], agentPools[a].stored)]
    <2>1. \A a \in Agents : f[a] = 0
      BY <1>1
    <2>2. OwedByAll = SumFunctionOnSet(f, Agents)
      BY DEF OwedByAll
    <2> HIDE DEF f
    <2> QED
      BY <2>1, <2>2, SetsFinite, SumZero
  <1>4. TypeOK
    <2>1. /\ delegations \in [Agents -> [Delegators -> Delegation]]
          /\ agentPools \in [Agents -> Pool]
      BY DEF Init, NoDelegation, Delegation, NoPool, Pool
    <2>2. balance \in [Accounts -> Nat]
      BY AmountsAssumption DEF Init
    <2> QED
      BY <2>1, <2>2 DEF Init, TypeOK
  <1>5. balance[Self] \in Nat /\ PRECISION \in Nat
    BY <1>4, SelfAccount, PrecisionPositive DEF TypeOK
  <1>6. PRECISION * balance[Self] \in Nat
    BY <1>5, Products
  <1> QED
    BY <1>1, <1>2, <1>3, <1>4, <1>6 DEF IInv, Init

-----------------------------------------------------------------------------
(***************************************************************************)
(* The theorems.                                                           *)
(***************************************************************************)

\* What the contract would pay out to an agent's delegators today.
HeldIn(D, pool) ==
    SumFunctionOnSet([d \in Delegators |->
                        D[d].amount + D[d].unbonding + Claimable(D[d], pool)], Delegators)

LEMMA HeldIsOwed ==
    ASSUME NEW pool, NEW D, SoundPool(D, pool)
    PROVE  HeldIn(D, pool) \in Nat /\ PRECISION * HeldIn(D, pool) <= OwedIn(D, pool.stored)
  <1> DEFINE Held(d) == D[d].amount + D[d].unbonding + Claimable(D[d], pool)
             held == [d \in Delegators |-> Held(d)]
             units == [d \in Delegators |-> PRECISION * Held(d)]
             owed == [d \in Delegators |-> Owed(D[d], pool.stored)]
  <1>1. \A d \in Delegators : /\ Held(d) \in Nat /\ PRECISION * Held(d) \in Nat
                              /\ Owed(D[d], pool.stored) \in Nat
                              /\ PRECISION * Held(d) <= Owed(D[d], pool.stored)
    <2> SUFFICES ASSUME NEW d \in Delegators
                 PROVE  /\ Held(d) \in Nat /\ PRECISION * Held(d) \in Nat
                        /\ Owed(D[d], pool.stored) \in Nat
                        /\ PRECISION * Held(d) <= Owed(D[d], pool.stored)
      OBVIOUS
    <2>1. PICK dl : dl = D[d]
      OBVIOUS
    <2>2. pool \in Pool /\ SoundDelegation(dl, pool.stored)
      BY <2>1 DEF SoundPool
    <2>3. /\ dl.amount \in Nat /\ dl.unbonding \in Nat /\ dl.pending \in Nat
          /\ Earned(dl, pool) \in Nat /\ Owed(dl, pool.stored) \in Nat
      BY <2>2, SoundFields
    <2>4. PICK h \in Nat : h = dl.amount + dl.unbonding + dl.pending + Earned(dl, pool)
      BY <2>3
    <2>5. Held(d) = h
      BY <2>1, <2>3, <2>4 DEF Claimable
    <2>6. h * PRECISION <= Owed(dl, pool.stored)
      BY <2>2, <2>4, SettledSound
    <2>7. h * PRECISION = PRECISION * h /\ PRECISION * h \in Nat
      BY PrecisionPositive, Products
    <2> HIDE DEF Held
    <2> QED
      BY <2>1, <2>3, <2>5, <2>6, <2>7
  <1>2. /\ HeldIn(D, pool) = SumFunctionOnSet(held, Delegators)
        /\ OwedIn(D, pool.stored) = SumFunctionOnSet(owed, Delegators)
    BY DEF HeldIn, OwedIn
  <1> HIDE DEF Held
  <1>3. \A d \in Delegators : /\ held[d] \in Nat /\ held[d] \in Int
                              /\ units[d] = PRECISION * held[d]
    BY <1>1
  <1>4. \A d \in Delegators : units[d] \in Int /\ owed[d] \in Int /\ units[d] <= owed[d]
    BY <1>1
  <1> HIDE DEF held, units, owed
  <1>5. SumFunctionOnSet(held, Delegators) \in Nat
    BY <1>3, SetsFinite, SumAtLeast
  <1>6. SumFunctionOnSet(units, Delegators) = PRECISION * SumFunctionOnSet(held, Delegators)
    <2>1. PRECISION \in Int
      BY PrecisionPositive
    <2> QED
      BY ONLY <1>3, <2>1, SetsFinite, SumScaled
  <1>7. SumFunctionOnSet(units, Delegators) <= SumFunctionOnSet(owed, Delegators)
    BY ONLY <1>4, SetsFinite, SumAtMost
  <1> QED
    BY <1>2, <1>5, <1>6, <1>7

LEMMA Smaller == \A x, y \in Nat, p \in Nat \ {0} : p * x <= p * y => x <= y
  OBVIOUS

LEMMA InvariantCovers == IInv => DelegationsCovered
  <1> SUFFICES ASSUME IInv
               PROVE  DelegationsCovered
    OBVIOUS
  <1>1. /\ TypeOK
        /\ totalDelegatedAllAgents = SumFunction([a \in Agents |-> agentPools[a].total])
    BY DEF IInv, Booked, SumFunction
  <1>2. \A a \in Agents :
          /\ agentPools[a].total = Sum(LAMBDA dl : dl.amount, a)
          /\ agentPools[a].count = Cardinality({d \in Delegators : delegations[a][d].active})
          /\ \A d \in Delegators :
               delegations[a][d].active
                 <=> delegations[a][d].amount + delegations[a][d].unbonding > 0
    <2> TAKE a \in Agents
    <2>1. SoundPool(delegations[a], agentPools[a])
      BY DEF IInv
    <2>2. agentPools[a].total = Sum(LAMBDA dl : dl.amount, a)
      BY <2>1 DEF SoundPool, AmountsOf, Sum, SumFunction
    <2> QED
      BY <2>1, <2>2 DEF SoundPool, SoundDelegation, OpenIn
  <1>3. PoolMatches
    BY <1>1, <1>2 DEF PoolMatches
  <1> DEFINE held == [a \in Agents |-> HeldIn(delegations[a], agentPools[a])]
             units == [a \in Agents |-> PRECISION * HeldIn(delegations[a], agentPools[a])]
             owed == [a \in Agents |-> OwedIn(delegations[a], agentPools[a].stored)]
             all == SumFunction([a \in Agents |->
                      Sum(LAMBDA dl : dl.amount + dl.unbonding
                                        + Claimable(dl, agentPools[a]), a)])
  <1>4. \A a \in Agents : /\ HeldIn(delegations[a], agentPools[a]) \in Nat
                          /\ PRECISION * HeldIn(delegations[a], agentPools[a])
                               <= OwedIn(delegations[a], agentPools[a].stored)
                          /\ OwedIn(delegations[a], agentPools[a].stored) \in Nat
    BY HeldIsOwed, BookedBounds DEF IInv
  <1>5. \A a \in Agents : PRECISION * HeldIn(delegations[a], agentPools[a]) \in Nat
    BY <1>4, PrecisionPositive, Products
  <1>6. \A a \in Agents : /\ held[a] \in Nat /\ held[a] \in Int
                          /\ units[a] = PRECISION * held[a]
    BY <1>4
  <1>7. \A a \in Agents : units[a] \in Int /\ owed[a] \in Int /\ units[a] <= owed[a]
    BY <1>4, <1>5
  <1>8. OwedByAll = SumFunctionOnSet(owed, Agents)
    BY DEF OwedByAll
  <1>9. SumFunctionOnSet(held, Agents) = all
    BY DEF HeldIn, Sum, SumFunction
  <1> HIDE DEF held, units, owed, all
  <1>10. SumFunctionOnSet(held, Agents) \in Nat
    BY <1>6, SetsFinite, SumAtLeast
  <1>11. SumFunctionOnSet(units, Agents) = PRECISION * SumFunctionOnSet(held, Agents)
    <2>1. PRECISION \in Int
      BY PrecisionPositive
    <2> QED
      BY ONLY <1>6, <2>1, SetsFinite, SumScaled
  <1>12. SumFunctionOnSet(units, Agents) <= SumFunctionOnSet(owed, Agents)
    BY ONLY <1>7, SetsFinite, SumAtMost
  <1>13. /\ OwedByAll \in Nat /\ OwedByAll <= PRECISION * balance[Self]
         /\ balance[Self] \in Nat
    BY BookedBounds, SelfAccount DEF IInv, TypeOK
  <1>14. PRECISION * balance[Self] \in Nat /\ PRECISION * SumFunctionOnSet(held, Agents) \in Nat
    BY <1>10, <1>13, PrecisionPositive, Products
  <1>15. PRECISION * SumFunctionOnSet(held, Agents) <= PRECISION * balance[Self]
    BY ONLY <1>8, <1>11, <1>12, <1>13, <1>14
  <1>16. SumFunctionOnSet(held, Agents) <= balance[Self]
    BY <1>10, <1>13, <1>15, PrecisionPositive, Smaller
  <1>17. all <= balance[Self] /\ all \in Nat
    BY <1>9, <1>10, <1>16
  <1>18. RewardsCovered
    <2>1. balance[Self] >= all
      BY ONLY <1>13, <1>17
    <2> QED
      BY ONLY <2>1 DEF RewardsCovered, all
  <1> QED
    BY <1>3, <1>18 DEF DelegationsCovered

\* Every pool agrees with its delegations, and what all delegators are owed,
\* counted in units of the reward accumulator before any division of
\* _computePending or distributeRewards is rounded, never exceeds the GUARD the
\* contract has.
THEOREM InductiveInvariant == Spec => []IInv
  <1>1. IInv /\ [Next]_vars => IInv'
    BY NextSafe
  <1> QED
    BY InitSafe, <1>1, PTL DEF Spec

\* The books of DelegatedStaking agree with the delegations, and the contract
\* can return all stake and pay all rewards it has booked, for any agents,
\* delegators, rates and precision, and whatever a distribution rounds off.
THEOREM DelegationsCoveredHolds == Spec => []DelegationsCovered
  BY InductiveInvariant, InvariantCovers, PTL

\* What a delegator may claim grows only by distributeRewards, and shrinks only
\* by a payment or a slash: delegate, requestUndelegate and completeUndelegate
\* leave it as it is.
THEOREM EarnedOnlyByDistributionHolds == Spec => EarnedOnlyByDistribution
  <1>1. IInv /\ [Next]_vars =>
          [\A a \in Agents, d \in Delegators :
             LET before == Claimable(delegations[a][d], agentPools[a])
                 after  == Claimable(delegations'[a][d], agentPools'[a])
             IN /\ after > before => agentPools'[a].stored > agentPools[a].stored
                /\ after < before => \/ balance'[d] > balance[d]
                                     \/ balance'[HbarPool] > balance[HbarPool]
                                     \/ balance'[Treasury] > balance[Treasury]]_vars
    BY NextSafe DEF EarnsOnly, Claim, PaidTo
  <1> QED
    BY InductiveInvariant, <1>1, PTL DEF Spec, EarnedOnlyByDistribution
=============================================================================
