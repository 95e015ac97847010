------------------------ MODULE StakingManager_proofs ------------------------
(***************************************************************************)
(* Proofs about StakingManager, for all agents, amounts, slash rates,      *)
(* periods and numbers of slashes.                                         *)
(***************************************************************************)
EXTENDS StakingManager, SumLemmas, TLAPS

\* Agents, the contract and the treasury hold different accounts.
LEMMA AccountsDistinct ==
    /\ Agents \subseteq Accounts
    /\ Manager \in Accounts /\ Treasury \in Accounts
    /\ Manager # Treasury
    /\ Manager \notin Agents /\ Treasury \notin Agents
  BY AccountsAssumption DEF Accounts

LEMMA TransferMoves ==
    ASSUME balance \in [Accounts -> Nat],
           NEW payer \in Accounts, NEW payee \in Accounts, payer # payee,
           NEW amount \in Nat, Transfer(payer, payee, amount)
    PROVE  /\ balance' \in [Accounts -> Nat]
           /\ balance'[payer] = balance[payer] - amount
           /\ balance'[payee] = balance[payee] + amount
           /\ \A c \in Accounts \ {payer, payee} : balance'[c] = balance[c]
  <1>1. balance[payer] \in Nat /\ balance[payee] \in Nat /\ balance[payer] - amount \in Nat
    BY DEF Transfer
  <1> QED
    BY <1>1 DEF Transfer

-----------------------------------------------------------------------------
(***************************************************************************)
(* Stakes: each operator that rewrites one keeps it sound.                 *)
(***************************************************************************)

\* A stake an agent may have.
Sound(s) ==
    /\ s \in StakeInfo
    /\ s.total = s.available + s.locked + s.unbonding
    /\ ~s.known => s = NoStake
    /\ s.known /\ s.total = 0 => s.status \in {"WITHDRAWN", "FROZEN"}
    /\ s.status = "WITHDRAWN" => s.unbonding = 0

\* What is to be shown of a rewritten stake.
SoundKnown(s, total) == Sound(s) /\ s.known /\ s.total = total

LEMMA SoundFields ==
    ASSUME NEW s, Sound(s)
    PROVE  /\ s \in StakeInfo
           /\ s.total \in Nat /\ s.locked \in Nat /\ s.available \in Nat /\ s.unbonding \in Nat
           /\ s.status \in StakeStatus
           /\ s.total = s.available + s.locked + s.unbonding
  BY DEF Sound, StakeInfo

LEMMA DepositedSound ==
    ASSUME NEW s, Sound(s), NEW amount \in Nat, amount > 0
    PROVE  SoundKnown(Deposited(s, amount), s.total + amount)
  <1> DEFINE total == s.total + amount
             free  == s.available + amount
             st    == IF s.status = "WITHDRAWN" /\ total >= MinStakeForActive
                      THEN "ACTIVE" ELSE s.status
  <1>0. /\ s \in StakeInfo
        /\ s.total \in Nat /\ s.locked \in Nat /\ s.available \in Nat /\ s.unbonding \in Nat
    BY SoundFields
  <1>1. /\ total \in Nat /\ free \in Nat /\ total > 0
        /\ total = free + s.locked + s.unbonding
    BY SoundFields
  <1>2. st \in StakeStatus /\ (st = "WITHDRAWN" => s.unbonding = 0)
    BY SoundFields DEF Sound, StakeStatus
  <1>3. Deposited(s, amount) = [s EXCEPT !.known = TRUE, !.total = total,
                                         !.available = free, !.status = st]
    BY DEF Deposited
  <1> HIDE DEF total, free, st
  <1> DEFINE r == [s EXCEPT !.known = TRUE, !.total = total, !.available = free, !.status = st]
  <1>4. /\ r \in StakeInfo
        /\ r.known /\ r.total = total /\ r.available = free /\ r.status = st
        /\ r.locked = s.locked /\ r.unbonding = s.unbonding
    BY <1>1, <1>2, <1>0 DEF StakeInfo
  <1> HIDE DEF r
  <1>5. Sound(r)
    BY <1>1, <1>2, <1>4 DEF Sound
  <1> QED
    BY <1>3, <1>4, <1>5 DEF total, r, SoundKnown

\* Part of the free stake starts to unbond.
LEMMA UnbondingSound ==
    ASSUME NEW s, Sound(s), s.known, s.status # "WITHDRAWN", s.unbonding = 0,
           NEW amount \in Nat, amount <= s.available, NEW at \in Nat
    PROVE  SoundKnown(Unbonding(s, amount, at), s.total)
  <1> DEFINE free == s.available - amount
             r    == Unbonding(s, amount, at)
  <1>0. /\ s \in StakeInfo
        /\ s.total \in Nat /\ s.locked \in Nat /\ s.available \in Nat /\ s.unbonding \in Nat
    BY SoundFields
  <1>1. free \in Nat /\ s.total = free + s.locked + amount
    BY SoundFields
  <1>2. r = [s EXCEPT !.available = free, !.unbonding = amount, !.completeAt = at]
    BY DEF Unbonding
  <1> HIDE DEF free, r
  <1>3. /\ r \in StakeInfo /\ r.known = s.known
        /\ r.total = s.total /\ r.available = free /\ r.status = s.status
        /\ r.locked = s.locked /\ r.unbonding = amount
    BY <1>1, <1>2, <1>0 DEF StakeInfo
  <1>4. Sound(r)
    BY <1>1, <1>3 DEF Sound
  <1> QED
    BY <1>3, <1>4 DEF r, SoundKnown

LEMMA LeavingSound ==
    ASSUME NEW s, Sound(s), s.known, s.status # "WITHDRAWN", s.unbonding = 0,
           s.available > 0, NEW at \in Nat
    PROVE  SoundKnown([Unbonding(s, s.available, at) EXCEPT !.status = "UNBONDING"], s.total)
  <1> DEFINE u == Unbonding(s, s.available, at)
             r == [u EXCEPT !.status = "UNBONDING"]
  <1>1. s.available \in Nat /\ s.available <= s.available /\ s.total > 0
    BY SoundFields
  <1>2. Sound(u) /\ u.known /\ u.total = s.total
    BY <1>1, UnbondingSound DEF SoundKnown
  <1> HIDE DEF u
  <1>3. /\ r \in StakeInfo /\ r.known = u.known
        /\ r.total = u.total /\ r.available = u.available /\ r.status = "UNBONDING"
        /\ r.locked = u.locked /\ r.unbonding = u.unbonding
    BY <1>2 DEF StakeInfo, StakeStatus, Sound
  <1> HIDE DEF r
  <1>4. Sound(r)
    BY <1>1, <1>2, <1>3 DEF Sound
  <1> QED
    BY <1>2, <1>3, <1>4 DEF u, r, SoundKnown

LEMMA WithdrawnSound ==
    ASSUME NEW s, Sound(s), s.unbonding > 0
    PROVE  SoundKnown(Withdrawn(s), s.total - s.unbonding)
  <1> DEFINE left == s.total - s.unbonding
             st   == IF left = 0 THEN "WITHDRAWN"
                     ELSE IF s.status = "UNBONDING" /\ left >= MinStakeForActive
                     THEN "ACTIVE" ELSE s.status
             r    == Withdrawn(s)
  <1>0. /\ s \in StakeInfo
        /\ s.total \in Nat /\ s.locked \in Nat /\ s.available \in Nat /\ s.unbonding \in Nat
    BY SoundFields
  <1>1. left \in Nat /\ left = s.available + s.locked + 0
    BY SoundFields
  <1>2. s.known
    BY DEF Sound, NoStake
  <1>3. st \in StakeStatus /\ (left = 0 => st = "WITHDRAWN")
    BY SoundFields DEF StakeStatus
  <1>4. r = [s EXCEPT !.total = left, !.unbonding = 0, !.completeAt = 0, !.status = st]
    BY DEF Withdrawn
  <1> HIDE DEF left, st, r
  <1>5. /\ r \in StakeInfo /\ r.known = s.known
        /\ r.total = left /\ r.available = s.available /\ r.status = st
        /\ r.locked = s.locked /\ r.unbonding = 0
    BY <1>1, <1>3, <1>4, <1>0 DEF StakeInfo
  <1>6. Sound(r)
    BY <1>1, <1>2, <1>3, <1>5 DEF Sound
  <1> QED
    BY <1>2, <1>5, <1>6 DEF left, r, SoundKnown

\* Taking what there is, up to an amount: all of the one or all of the other.
LEMMA Taking ==
    ASSUME NEW amount \in Nat, NEW n \in Nat
    PROVE  /\ Min2(amount, n) \in Nat
           /\ amount - Min2(amount, n) \in Nat /\ n - Min2(amount, n) \in Nat
           /\ amount - Min2(amount, n) = 0 \/ n - Min2(amount, n) = 0
  BY DEF Min2

\* What three parts lose, their sum loses.
LEMMA PartsLose ==
    ASSUME NEW a \in Nat, NEW b \in Nat, NEW c \in Nat,
           NEW x \in Nat, NEW y \in Nat, NEW z \in Nat
    PROVE  (a + b + c) - (x + y + z) = (a - x) + (b - y) + (c - z)
  OBVIOUS

LEMMA DeductedSound ==
    ASSUME NEW s, Sound(s), s.known, NEW amount \in Nat, amount <= s.total, NEW bps
    PROVE  SoundKnown(Frozen(Deducted(s, amount), bps), s.total - amount)
  <1> DEFINE total == s.total - amount
             x == Min2(amount, s.available)
             y == Min2(amount - x, s.locked)
             z == Min2(amount - x - y, s.unbonding)
             free   == s.available - x
             locked == s.locked - y
             bond   == s.unbonding - z
             d == Deducted(s, amount)
             r == Frozen(d, bps)
  <1>0. /\ s \in StakeInfo
        /\ s.total \in Nat /\ s.locked \in Nat /\ s.available \in Nat /\ s.unbonding \in Nat
    BY SoundFields
  <1>1. /\ total \in Nat /\ free \in Nat /\ locked \in Nat /\ bond \in Nat
        /\ total = free + locked + bond /\ bond <= s.unbonding
    <2>1. /\ s.total \in Nat /\ s.locked \in Nat /\ s.available \in Nat /\ s.unbonding \in Nat
          /\ s.total = s.available + s.locked + s.unbonding
      BY SoundFields
    <2>2. x \in Nat /\ amount - x \in Nat /\ free \in Nat /\ (amount - x = 0 \/ free = 0)
      BY <2>1, Taking
    <2> HIDE DEF x
    <2>3. /\ y \in Nat /\ amount - x - y \in Nat /\ locked \in Nat
          /\ amount - x - y = 0 \/ locked = 0
      BY <2>1, <2>2, Taking
    <2> HIDE DEF y
    <2>4. /\ z \in Nat /\ amount - x - y - z \in Nat /\ bond \in Nat
          /\ amount - x - y - z = 0 \/ bond = 0
      BY <2>1, <2>3, Taking
    <2> HIDE DEF z
    <2>5. amount <= s.available + s.locked + s.unbonding
      BY <2>1
    <2>6. x + y + z = amount
      BY <2>1, <2>2, <2>3, <2>4, <2>5
    <2>7. total \in Nat /\ z >= 0
      BY <2>1, <2>4
    <2>8. total = free + locked + bond
      <3>1. s.total - (x + y + z) = (s.available - x) + (s.locked - y) + (s.unbonding - z)
        <4>1. /\ s.available \in Nat /\ s.locked \in Nat /\ s.unbonding \in Nat
              /\ x \in Nat /\ y \in Nat /\ z \in Nat
          BY <2>1, <2>2, <2>3, <2>4
        <4>2. s.total = s.available + s.locked + s.unbonding
          BY <2>1
        <4> QED
          BY <4>1, <4>2, PartsLose
      <3> QED
        BY <2>6, <3>1
    <2>9. bond <= s.unbonding
      BY <2>1, <2>4
    <2> QED
      BY <2>2, <2>3, <2>4, <2>7, <2>8, <2>9
  <1>2. d = [s EXCEPT !.total = total, !.available = free, !.locked = locked, !.unbonding = bond]
    BY DEF Deducted
  <1> HIDE DEF total, x, y, z, free, locked, bond, d
  <1>3. /\ d \in StakeInfo /\ d.known = s.known
        /\ d.total = total /\ d.available = free /\ d.status = s.status
        /\ d.locked = locked /\ d.unbonding = bond
    BY <1>1, <1>2, <1>0 DEF StakeInfo
  <1>4. d.status = "WITHDRAWN" => d.unbonding = 0
    BY <1>1, <1>3, SoundFields DEF Sound
  <1>5. MinStakeForActive \in Nat \ {0}
    BY AmountsAssumption
  <1>6. CASE total < MinStakeForActive \/ bps = 10000
    <2>1. r = [d EXCEPT !.status = "FROZEN"]
      BY <1>3, <1>6 DEF Frozen
    <2> HIDE DEF r
    <2>2. /\ r \in StakeInfo /\ r.known = s.known
          /\ r.total = total /\ r.available = free /\ r.status = "FROZEN"
          /\ r.locked = locked /\ r.unbonding = bond
      BY <1>3, <2>1 DEF StakeInfo, StakeStatus
    <2>3. Sound(r)
      BY <1>1, <2>2 DEF Sound
    <2> QED
      BY <2>2, <2>3 DEF total, r, d, SoundKnown
  <1>7. CASE ~(total < MinStakeForActive \/ bps = 10000)
    <2>1. r = d /\ total > 0
      BY <1>1, <1>3, <1>5, <1>7 DEF Frozen
    <2>2. Sound(d)
      BY <1>1, <1>3, <1>4, <2>1 DEF Sound
    <2> QED
      BY <1>3, <2>1, <2>2 DEF total, r, d, SoundKnown
  <1> QED
    BY <1>6, <1>7

LEMMA RestoredSound ==
    ASSUME NEW s, Sound(s), s.known, NEW amount \in Nat
    PROVE  SoundKnown(Restored(s, amount), s.total + amount)
  <1> DEFINE total == s.total + amount
             free  == s.available + amount
             st    == IF s.status = "FROZEN" /\ total >= MinStakeForActive
                      THEN "ACTIVE" ELSE s.status
             r     == Restored(s, amount)
  <1>0. /\ s \in StakeInfo /\ MinStakeForActive \in Nat \ {0}
    BY SoundFields, AmountsAssumption
  <1>1. /\ total \in Nat /\ free \in Nat /\ total >= s.total
        /\ total = free + s.locked + s.unbonding
    BY SoundFields
  <1>2. /\ st \in StakeStatus
        /\ st = "WITHDRAWN" => s.unbonding = 0
        /\ total = 0 => s.total = 0 /\ st = s.status
    BY <1>0, <1>1, SoundFields DEF Sound, StakeStatus
  <1>3. r = [s EXCEPT !.total = total, !.available = free, !.status = st]
    BY DEF Restored
  <1> HIDE DEF total, free, st, r
  <1>4. /\ r \in StakeInfo
        /\ r.known = s.known /\ r.total = total /\ r.available = free /\ r.status = st
        /\ r.locked = s.locked /\ r.unbonding = s.unbonding
    BY <1>1, <1>2, <1>3, <1>0 DEF StakeInfo
  <1>5. Sound(r)
    BY <1>1, <1>2, <1>4 DEF Sound
  <1> QED
    BY <1>4, <1>5 DEF total, r, SoundKnown

\* Locking for a job and unlocking move stake between two parts.
LEMMA MovedSound ==
    ASSUME NEW s, Sound(s), s.known, NEW free \in Nat, NEW locked \in Nat,
           free + locked = s.available + s.locked
    PROVE  SoundKnown([s EXCEPT !.available = free, !.locked = locked], s.total)
  <1> DEFINE r == [s EXCEPT !.available = free, !.locked = locked]
  <1>0. /\ s \in StakeInfo
        /\ s.total \in Nat /\ s.locked \in Nat /\ s.available \in Nat /\ s.unbonding \in Nat
    BY SoundFields
  <1>1. s.total = free + locked + s.unbonding
    BY SoundFields
  <1>2. /\ r \in StakeInfo
        /\ r.known = s.known /\ r.total = s.total /\ r.available = free /\ r.status = s.status
        /\ r.locked = locked /\ r.unbonding = s.unbonding
    BY <1>0 DEF StakeInfo
  <1> HIDE DEF r
  <1>3. Sound(r)
    BY <1>1, <1>2 DEF Sound
  <1> QED
    BY <1>2, <1>3 DEF r, SoundKnown

-----------------------------------------------------------------------------
(***************************************************************************)
(* Shapes of step.                                                         *)
(***************************************************************************)

LEMMA SoundStakes ==
    ASSUME IInv, NEW a \in Agents
    PROVE  Sound(stakes[a])
  <1>1. stakes[a] \in StakeInfo
    BY DEF IInv, TypeOK
  <1> QED
    BY <1>1 DEF IInv, PartsMakeTheTotal, Sound

\* What every step keeps of the variables a stake does not depend on.
RestTyped ==
    /\ now' \in Nat
    /\ paused' \in BOOLEAN
    /\ slashRecords' \in [SlashIds -> SlashRecord]
    /\ nextSlashId' \in 1..(MaxSlashes + 1)
    /\ slashEscrowBalance' \in Nat

\* Pending slashes were pending before, or are agent a's.
PendingFrom(a) ==
    \A i \in SlashIds : slashRecords'[i].appeal = "PENDING" =>
      \/ slashRecords[i].appeal = "PENDING" /\ slashRecords'[i].agent = slashRecords[i].agent
      \/ slashRecords'[i].agent = a

\* Agent a's GUARD is moved between wallet, stake and slashes, nobody else's.
Rebooked(a, s) ==
    /\ stakes' = [stakes EXCEPT ![a] = s]
    /\ balance' \in [Accounts -> Nat]
    /\ agentTotalSlashed' \in [Agents -> Nat]
    /\ balance'[a] + s.total + agentTotalSlashed'[a]
         = balance[a] + stakes[a].total + agentTotalSlashed[a]
    /\ \A c \in Agents \ {a} :
         balance'[c] = balance[c] /\ agentTotalSlashed'[c] = agentTotalSlashed[c]

LEMMA RebookedIInv ==
    ASSUME IInv, NEW a \in Agents, NEW s, Sound(s), s.known,
           Rebooked(a, s), RestTyped, PendingFrom(a)
    PROVE  IInv'
  <1>1. stakes \in [Agents -> StakeInfo] /\ s \in StakeInfo
    BY DEF IInv, TypeOK, Sound
  <1>2. /\ stakes' \in [Agents -> StakeInfo]
        /\ stakes'[a] = s
        /\ \A c \in Agents \ {a} : stakes'[c] = stakes[c]
    BY <1>1 DEF Rebooked
  <1>3. TypeOK'
    BY <1>2 DEF TypeOK, Rebooked, RestTyped
  <1>4. PartsMakeTheTotal'
    <2> SUFFICES ASSUME NEW c \in Agents PROVE Sound(stakes'[c])
      BY DEF PartsMakeTheTotal, Sound
    <2> QED
      BY <1>2, SoundStakes
  <1>5. NoStakeLost'
    <2> SUFFICES ASSUME NEW c \in Agents
                 PROVE  balance'[c] + stakes'[c].total + agentTotalSlashed'[c] = InitialBalance
      BY DEF NoStakeLost
    <2>1. balance[c] + stakes[c].total + agentTotalSlashed[c] = InitialBalance
      BY DEF IInv, NoStakeLost
    <2> QED
      BY <1>2, <2>1 DEF Rebooked
  <1>6. PendingIsSomeones'
    <2> SUFFICES ASSUME NEW i \in SlashIds, slashRecords'[i].appeal = "PENDING"
                 PROVE  /\ slashRecords'[i].agent \in Agents
                        /\ stakes'[slashRecords'[i].agent].known
      BY DEF PendingIsSomeones
    <2>1. CASE slashRecords'[i].agent = a
      BY <1>2, <2>1
    <2>2. CASE slashRecords'[i].agent # a
      <3>1. slashRecords[i].appeal = "PENDING" /\ slashRecords'[i].agent = slashRecords[i].agent
        BY <2>2 DEF PendingFrom
      <3>2. slashRecords[i].agent \in Agents /\ stakes[slashRecords[i].agent].known
        BY <3>1 DEF IInv, PendingIsSomeones
      <3> QED
        BY <1>2, <2>2, <3>1, <3>2
    <2> QED
      BY <2>1, <2>2
  <1> QED
    BY <1>3, <1>4, <1>5, <1>6 DEF IInv

\* A step that leaves stakes and agents' wallets alone.
LEMMA RecordsIInv ==
    ASSUME IInv, UNCHANGED <<stakes, agentTotalSlashed>>,
           balance' \in [Accounts -> Nat],
           \A c \in Agents : balance'[c] = balance[c],
           RestTyped,
           \A i \in SlashIds : slashRecords'[i].appeal = "PENDING" =>
             slashRecords[i].appeal = "PENDING" /\ slashRecords'[i].agent = slashRecords[i].agent
    PROVE  IInv'
  <1>1. TypeOK'
    BY DEF IInv, TypeOK, RestTyped
  <1>2. PartsMakeTheTotal'
    BY DEF IInv, PartsMakeTheTotal
  <1>3. NoStakeLost'
    BY DEF IInv, NoStakeLost
  <1>4. PendingIsSomeones'
    BY DEF IInv, PendingIsSomeones
  <1> QED
    BY <1>1, <1>2, <1>3, <1>4 DEF IInv

\* The variables of records and clock stand still.
LEMMA RestUnchanged ==
    ASSUME IInv, UNCHANGED <<now, paused, slashRecords, nextSlashId, slashEscrowBalance>>
    PROVE  RestTyped /\ \A a : PendingFrom(a)
  BY DEF IInv, TypeOK, RestTyped, PendingFrom

\* Stake moves between its parts only.
LEMMA RearrangedIInv ==
    ASSUME IInv, NEW a \in Agents, NEW s, SoundKnown(s, stakes[a].total),
           stakes' = [stakes EXCEPT ![a] = s],
           UNCHANGED <<now, paused, slashRecords, nextSlashId, slashEscrowBalance,
                       agentTotalSlashed, balance>>
    PROVE  IInv'
  <1>1. balance \in [Accounts -> Nat] /\ agentTotalSlashed \in [Agents -> Nat]
    BY DEF IInv, TypeOK
  <1>2. Sound(s) /\ s.known /\ s.total = stakes[a].total
    BY DEF SoundKnown
  <1>3. Rebooked(a, s)
    BY <1>1, <1>2 DEF Rebooked
  <1> QED
    BY <1>2, <1>3, RebookedIInv, RestUnchanged

-----------------------------------------------------------------------------
(***************************************************************************)
(* The steps.                                                              *)
(***************************************************************************)

LEMMA InitIInv == Init => IInv
  <1> SUFFICES ASSUME Init PROVE IInv
    OBVIOUS
  <1>1. NoStake \in StakeInfo
    BY DEF NoStake, StakeInfo, StakeStatus
  <1>2. NoRecord \in SlashRecord
    BY DEF NoRecord, SlashRecord, AppealStatus
  <1>3. TypeOK
    <2>1. balance \in [Accounts -> Nat]
      BY AmountsAssumption DEF Init
    <2>2. nextSlashId \in 1..(MaxSlashes + 1)
      BY AmountsAssumption DEF Init
    <2> QED
      BY <1>1, <1>2, <2>1, <2>2 DEF Init, TypeOK
  <1>4. PartsMakeTheTotal
    BY DEF Init, PartsMakeTheTotal, NoStake
  <1>5. NoStakeLost
    BY AmountsAssumption, AccountsDistinct DEF Init, NoStakeLost, NoStake
  <1>6. PendingIsSomeones
    BY DEF Init, PendingIsSomeones, NoRecord
  <1> QED
    BY <1>3, <1>4, <1>5, <1>6 DEF IInv

LEMMA StakeIInv ==
    ASSUME IInv, NEW a \in Agents, NEW amount \in Amounts, Stake(a, amount)
    PROVE  IInv'
  <1> DEFINE s == Deposited(stakes[a], amount)
  <1>1. amount \in Nat /\ amount > 0
    BY AmountsAssumption
  <1>2. Sound(s) /\ s.known /\ s.total = stakes[a].total + amount
    BY <1>1, SoundStakes, DepositedSound DEF SoundKnown
  <1>3. /\ balance \in [Accounts -> Nat] /\ agentTotalSlashed \in [Agents -> Nat]
        /\ stakes[a].total \in Nat
    BY SoundStakes, SoundFields DEF IInv, TypeOK
  <1>4. /\ stakes' = [stakes EXCEPT ![a] = s]
        /\ Transfer(a, Manager, amount)
        /\ UNCHANGED <<now, paused, slashRecords, nextSlashId, slashEscrowBalance>>
        /\ UNCHANGED agentTotalSlashed
    BY DEF Stake
  <1>5. /\ balance' \in [Accounts -> Nat] /\ balance'[a] = balance[a] - amount
        /\ \A c \in Accounts \ {a, Manager} : balance'[c] = balance[c]
    BY <1>1, <1>3, <1>4, TransferMoves, AccountsDistinct
  <1> HIDE DEF s
  <1>6. Rebooked(a, s)
    <2>1. balance[a] \in Nat
      BY <1>3, AccountsDistinct
    <2>2. agentTotalSlashed[a] \in Nat
      BY <1>3
    <2>3. balance'[a] + s.total + agentTotalSlashed'[a]
            = balance[a] + stakes[a].total + agentTotalSlashed[a]
      BY <1>1, <1>2, <1>3, <1>4, <1>5, <2>1, <2>2
    <2> QED
      BY <1>3, <1>4, <1>5, <2>3, AccountsDistinct DEF Rebooked
  <1> QED
    BY <1>2, <1>4, <1>6, RebookedIInv, RestUnchanged

LEMMA CompleteUnstakeIInv ==
    ASSUME IInv, NEW a \in Agents, CompleteUnstake(a)
    PROVE  IInv'
  <1> DEFINE s == Withdrawn(stakes[a])
             amount == stakes[a].unbonding
  <1>1. amount \in Nat /\ amount > 0 /\ stakes[a].total \in Nat /\ amount <= stakes[a].total
    BY SoundStakes, SoundFields DEF CompleteUnstake
  <1>2. Sound(s) /\ s.known /\ s.total = stakes[a].total - amount
    BY <1>1, SoundStakes, WithdrawnSound DEF SoundKnown
  <1>3. balance \in [Accounts -> Nat] /\ agentTotalSlashed \in [Agents -> Nat]
    BY DEF IInv, TypeOK
  <1>4. /\ stakes' = [stakes EXCEPT ![a] = s]
        /\ Transfer(Manager, a, amount)
        /\ UNCHANGED <<now, paused, slashRecords, nextSlashId, slashEscrowBalance>>
        /\ UNCHANGED agentTotalSlashed
    BY DEF CompleteUnstake
  <1> HIDE DEF s, amount
  <1>5. /\ balance' \in [Accounts -> Nat] /\ balance'[a] = balance[a] + amount
        /\ \A c \in Accounts \ {a, Manager} : balance'[c] = balance[c]
    BY <1>1, <1>3, <1>4, TransferMoves, AccountsDistinct
  <1>6. Rebooked(a, s)
    <2>1. balance[a] \in Nat
      BY <1>3, AccountsDistinct
    <2>2. agentTotalSlashed[a] \in Nat
      BY <1>3
    <2>3. balance'[a] + s.total + agentTotalSlashed'[a]
            = balance[a] + stakes[a].total + agentTotalSlashed[a]
      BY <1>1, <1>2, <1>4, <1>5, <2>1, <2>2
    <2> QED
      BY <1>3, <1>4, <1>5, <2>3, AccountsDistinct DEF Rebooked
  <1> QED
    BY <1>2, <1>4, <1>6, RebookedIInv, RestUnchanged

\* The agent's other calls, and locking, move stake between its parts.
LEMMA ArrangingIInv ==
    ASSUME IInv, NEW a \in Agents, NEW amount \in Amounts,
           RequestUnstake(a, amount) \/ LockStake(a, amount) \/ UnlockStake(a, amount)
    PROVE  IInv'
  <1>1. amount \in Nat /\ amount > 0 /\ now + UnbondingPeriod \in Nat
    BY AmountsAssumption DEF IInv, TypeOK
  <1>2. /\ Sound(stakes[a]) /\ stakes[a] \in StakeInfo /\ stakes \in [Agents -> StakeInfo]
        /\ stakes[a].available \in Nat /\ stakes[a].locked \in Nat
    BY SoundStakes, SoundFields DEF IInv, TypeOK
  <1>3. CASE RequestUnstake(a, amount)
    <2>1. SoundKnown(Unbonding(stakes[a], amount, now + UnbondingPeriod), stakes[a].total)
      BY <1>1, <1>2, <1>3, UnbondingSound DEF RequestUnstake, NothingUnbonding
    <2> QED
      BY <1>3, <2>1, RearrangedIInv DEF RequestUnstake
  <1>4. CASE LockStake(a, amount)
    <2> DEFINE free == stakes[a].available - amount
               locked == stakes[a].locked + amount
    <2>1. /\ free \in Nat /\ locked \in Nat /\ stakes[a].known
          /\ free + locked = stakes[a].available + stakes[a].locked
      BY <1>1, <1>2, <1>4 DEF LockStake
    <2>2. stakes' = [stakes EXCEPT ![a] = [stakes[a] EXCEPT !.available = free, !.locked = locked]]
      BY <1>2, <1>4 DEF LockStake
    <2> HIDE DEF free, locked
    <2>3. SoundKnown([stakes[a] EXCEPT !.available = free, !.locked = locked], stakes[a].total)
      BY <1>2, <2>1, MovedSound
    <2> QED
      BY <1>4, <2>2, <2>3, RearrangedIInv DEF LockStake
  <1>5. CASE UnlockStake(a, amount)
    <2> DEFINE free == stakes[a].available + amount
               locked == stakes[a].locked - amount
    <2>1. /\ free \in Nat /\ locked \in Nat /\ stakes[a].known
          /\ free + locked = stakes[a].available + stakes[a].locked
      BY <1>1, <1>2, <1>5 DEF UnlockStake
    <2>2. stakes' = [stakes EXCEPT ![a] = [stakes[a] EXCEPT !.available = free, !.locked = locked]]
      BY <1>2, <1>5 DEF UnlockStake
    <2> HIDE DEF free, locked
    <2>3. SoundKnown([stakes[a] EXCEPT !.available = free, !.locked = locked], stakes[a].total)
      BY <1>2, <2>1, MovedSound
    <2> QED
      BY <1>5, <2>2, <2>3, RearrangedIInv DEF UnlockStake
  <1> QED
    BY <1>3, <1>4, <1>5

LEMMA DeactivateIInv ==
    ASSUME IInv, NEW a \in Agents, Deactivate(a)
    PROVE  IInv'
  <1> DEFINE u == Unbonding(stakes[a], stakes[a].available, now + UnbondingPeriod)
  <1>1. Sound(stakes[a]) /\ now + UnbondingPeriod \in Nat
    BY SoundStakes, AmountsAssumption DEF IInv, TypeOK
  <1>2. SoundKnown([u EXCEPT !.status = "UNBONDING"], stakes[a].total)
    BY <1>1, LeavingSound DEF Deactivate, NothingUnbonding
  <1>3. stakes' = [stakes EXCEPT ![a] = [u EXCEPT !.status = "UNBONDING"]]
    BY DEF Deactivate
  <1> HIDE DEF u
  <1> QED
    BY <1>2, <1>3, RearrangedIInv DEF Deactivate

\* What a slash takes from the stake it adds to what the agent was slashed.
LEMMA InitiateSlashIInv ==
    ASSUME IInv, NEW a \in Agents, NEW bps \in SlashRates, InitiateSlash(a, bps)
    PROVE  IInv'
  <1>1. PICK amount \in 0..stakes[a].total :
          /\ stakes' = [stakes EXCEPT ![a] = Frozen(Deducted(stakes[a], amount), bps)]
          /\ slashRecords' = [slashRecords EXCEPT ![nextSlashId] = NewRecord(a, amount)]
          /\ slashEscrowBalance' = slashEscrowBalance + amount
          /\ agentTotalSlashed' = [agentTotalSlashed EXCEPT ![a] = agentTotalSlashed[a] + amount]
    BY DEF InitiateSlash
  <1> DEFINE s == Frozen(Deducted(stakes[a], amount), bps)
  <1>2. /\ stakes[a].known /\ nextSlashId <= MaxSlashes
        /\ nextSlashId' = nextSlashId + 1 /\ UNCHANGED <<now, paused, balance>>
    BY DEF InitiateSlash
  <1>3. /\ balance \in [Accounts -> Nat] /\ agentTotalSlashed \in [Agents -> Nat]
        /\ slashRecords \in [SlashIds -> SlashRecord] /\ nextSlashId \in 1..(MaxSlashes + 1)
        /\ now \in Nat /\ slashEscrowBalance \in Nat /\ paused \in BOOLEAN
    BY DEF IInv, TypeOK
  <1>4. stakes[a].total \in Nat
    BY SoundStakes, SoundFields
  <1>5. amount \in Nat /\ amount <= stakes[a].total
    BY <1>4
  <1>6. Sound(s) /\ s.known /\ s.total = stakes[a].total - amount
    BY <1>2, <1>5, SoundStakes, DeductedSound DEF SoundKnown
  <1>7. NewRecord(a, amount) \in SlashRecord
    BY <1>3, <1>5, AmountsAssumption DEF NewRecord, SlashRecord, AppealStatus
  <1>8. RestTyped
    <2>1. nextSlashId \in SlashIds /\ nextSlashId' \in 1..(MaxSlashes + 1)
      BY <1>2, <1>3, AmountsAssumption DEF SlashIds
    <2>2. slashRecords' \in [SlashIds -> SlashRecord]
      BY <1>1, <1>3, <1>7, <2>1
    <2>3. slashEscrowBalance' \in Nat
      BY <1>1, <1>3, <1>5
    <2> QED
      BY <1>2, <1>3, <2>1, <2>2, <2>3 DEF RestTyped
  <1>9. PendingFrom(a)
    <2> SUFFICES ASSUME NEW i \in SlashIds
                 PROVE  \/ slashRecords'[i] = slashRecords[i]
                        \/ slashRecords'[i].agent = a
      BY DEF PendingFrom
    <2>1. CASE i = nextSlashId
      BY <1>1, <1>3, <2>1 DEF NewRecord
    <2>2. CASE i # nextSlashId
      BY <1>1, <1>3, <2>2
    <2> QED
      BY <2>1, <2>2
  <1>10. stakes' = [stakes EXCEPT ![a] = s]
    BY <1>1
  <1> HIDE DEF s
  <1>11. Rebooked(a, s)
    <2>1. balance[a] \in Nat /\ agentTotalSlashed[a] \in Nat
      BY <1>3, AccountsDistinct
    <2>2. agentTotalSlashed' \in [Agents -> Nat] /\ agentTotalSlashed'[a] = agentTotalSlashed[a] + amount
      BY <1>1, <1>3, <1>5
    <2>3. balance'[a] + s.total + agentTotalSlashed'[a]
            = balance[a] + stakes[a].total + agentTotalSlashed[a]
      BY <1>2, <1>4, <1>5, <1>6, <2>1, <2>2
    <2> QED
      BY <1>1, <1>2, <1>3, <1>10, <2>2, <2>3 DEF Rebooked
  <1> QED
    BY <1>6, <1>8, <1>9, <1>11, RebookedIInv

LEMMA FileAppealIInv ==
    ASSUME IInv, NEW i \in SlashIds, FileAppeal(i)
    PROVE  IInv'
  <1>1. slashRecords \in [SlashIds -> SlashRecord] /\ slashRecords[i] \in SlashRecord
    BY DEF IInv, TypeOK
  <1>2. slashRecords' = [slashRecords EXCEPT ![i] = [slashRecords[i] EXCEPT !.filed = TRUE]]
    BY DEF FileAppeal
  <1> DEFINE r == [slashRecords[i] EXCEPT !.filed = TRUE]
  <1>3. r \in SlashRecord /\ r.appeal = slashRecords[i].appeal /\ r.agent = slashRecords[i].agent
    BY <1>1 DEF SlashRecord
  <1> HIDE DEF r
  <1>4. \A j \in SlashIds : slashRecords'[j] = IF j = i THEN r ELSE slashRecords[j]
    BY <1>1, <1>2 DEF r
  <1>5. slashRecords' \in [SlashIds -> SlashRecord]
    BY <1>1, <1>2, <1>3 DEF r
  <1>6. RestTyped /\ balance' \in [Accounts -> Nat]
    BY <1>5 DEF FileAppeal, RestTyped, IInv, TypeOK
  <1>7. UNCHANGED <<stakes, agentTotalSlashed, balance>>
    BY DEF FileAppeal
  <1> QED
    BY <1>3, <1>4, <1>6, <1>7, RecordsIInv

LEMMA ApproveAppealIInv ==
    ASSUME IInv, NEW i \in SlashIds, ApproveAppeal(i)
    PROVE  IInv'
  <1> DEFINE a == slashRecords[i].agent
             amount == slashRecords[i].amount
             s == Restored(stakes[a], amount)
             r == [slashRecords[i] EXCEPT !.appeal = "APPROVED"]
  <1>1. /\ slashRecords \in [SlashIds -> SlashRecord] /\ slashRecords[i] \in SlashRecord
        /\ balance \in [Accounts -> Nat] /\ agentTotalSlashed \in [Agents -> Nat]
        /\ now \in Nat /\ paused \in BOOLEAN /\ nextSlashId \in 1..(MaxSlashes + 1)
        /\ slashEscrowBalance \in Nat
    BY DEF IInv, TypeOK
  <1>2. a \in Agents /\ stakes[a].known
    BY DEF ApproveAppeal, Appealed, IInv, PendingIsSomeones
  <1>3. amount \in Nat
    BY <1>1 DEF SlashRecord
  <1>4. /\ slashEscrowBalance >= amount /\ agentTotalSlashed[a] >= amount
        /\ stakes' = [stakes EXCEPT ![a] = s]
        /\ slashEscrowBalance' = slashEscrowBalance - amount
        /\ agentTotalSlashed' = [agentTotalSlashed EXCEPT ![a] = agentTotalSlashed[a] - amount]
        /\ slashRecords' = [slashRecords EXCEPT ![i] = r]
        /\ UNCHANGED <<now, paused, nextSlashId, balance>>
    BY DEF ApproveAppeal
  <1>5. Sound(s) /\ s.known /\ s.total = stakes[a].total + amount
    BY <1>2, <1>3, SoundStakes, RestoredSound DEF SoundKnown
  <1>6. r \in SlashRecord /\ r.appeal = "APPROVED"
    BY <1>1 DEF SlashRecord, AppealStatus
  <1>7. stakes[a].total \in Nat
    BY <1>2, SoundStakes, SoundFields
  <1> HIDE DEF a, amount, s, r
  <1>8. RestTyped
    <2>1. slashRecords' \in [SlashIds -> SlashRecord]
      BY <1>1, <1>4, <1>6
    <2>2. slashEscrowBalance' \in Nat
      BY <1>1, <1>3, <1>4
    <2> QED
      BY <1>1, <1>4, <2>1, <2>2 DEF RestTyped
  <1>9. PendingFrom(a)
    BY <1>1, <1>4, <1>6 DEF PendingFrom
  <1>10. Rebooked(a, s)
    <2>1. balance[a] \in Nat /\ agentTotalSlashed[a] \in Nat
      BY <1>1, <1>2, AccountsDistinct
    <2>2. agentTotalSlashed' \in [Agents -> Nat] /\ agentTotalSlashed'[a] = agentTotalSlashed[a] - amount
      BY <1>1, <1>2, <1>3, <1>4, <2>1
    <2>3. balance'[a] + s.total + agentTotalSlashed'[a]
            = balance[a] + stakes[a].total + agentTotalSlashed[a]
      BY <1>3, <1>4, <1>5, <1>7, <2>1, <2>2
    <2> QED
      BY <1>1, <1>4, <2>2, <2>3 DEF Rebooked
  <1> QED
    BY <1>2, <1>5, <1>8, <1>9, <1>10, RebookedIInv

LEMMA DeniedRecord ==
    ASSUME NEW r \in SlashRecord
    PROVE  Denied(r) \in SlashRecord /\ Denied(r).appeal = "DENIED"
  BY DEF Denied, SlashRecord, AppealStatus

\* GUARD that leaves the escrow for the treasury is nobody's stake.
LEMMA EscrowPays ==
    ASSUME IInv, NEW amount \in 0..slashEscrowBalance, Transfer(Manager, Treasury, amount),
           slashEscrowBalance' = slashEscrowBalance - amount,
           slashRecords' \in [SlashIds -> SlashRecord],
           \A i \in SlashIds : slashRecords'[i] = slashRecords[i]
                               \/ slashRecords'[i].appeal = "DENIED",
           UNCHANGED <<now, paused, stakes, nextSlashId, agentTotalSlashed>>
    PROVE  IInv'
  <1>1. /\ balance \in [Accounts -> Nat] /\ slashEscrowBalance \in Nat
        /\ now \in Nat /\ paused \in BOOLEAN /\ nextSlashId \in 1..(MaxSlashes + 1)
    BY DEF IInv, TypeOK
  <1>2. amount \in Nat /\ slashEscrowBalance' \in Nat
    BY <1>1
  <1>3. /\ balance' \in [Accounts -> Nat]
        /\ \A c \in Accounts \ {Manager, Treasury} : balance'[c] = balance[c]
    BY <1>1, <1>2, TransferMoves, AccountsDistinct
  <1>4. \A c \in Agents : balance'[c] = balance[c]
    BY <1>3, AccountsDistinct
  <1>5. RestTyped
    BY <1>1, <1>2 DEF RestTyped
  <1>6. \A i \in SlashIds : slashRecords'[i].appeal = "PENDING" =>
          slashRecords[i].appeal = "PENDING" /\ slashRecords'[i].agent = slashRecords[i].agent
    OBVIOUS
  <1> QED
    BY <1>3, <1>4, <1>5, <1>6, RecordsIInv

LEMMA DenyAppealIInv ==
    ASSUME IInv, NEW i \in SlashIds, DenyAppeal(i)
    PROVE  IInv'
  <1> DEFINE amount == slashRecords[i].amount
  <1>1. /\ slashRecords \in [SlashIds -> SlashRecord] /\ slashRecords[i] \in SlashRecord
        /\ slashEscrowBalance \in Nat
    BY DEF IInv, TypeOK
  <1>2. amount \in 0..slashEscrowBalance
    <2>1. amount \in Nat /\ amount <= slashEscrowBalance
      BY <1>1 DEF SlashRecord, DenyAppeal
    <2> QED
      BY <1>1, <2>1
  <1>3. /\ slashRecords' = [slashRecords EXCEPT ![i] = Denied(slashRecords[i])]
        /\ Transfer(Manager, Treasury, amount)
        /\ slashEscrowBalance' = slashEscrowBalance - amount
        /\ UNCHANGED <<now, paused, stakes, nextSlashId, agentTotalSlashed>>
    BY DEF DenyAppeal
  <1>4. /\ slashRecords' \in [SlashIds -> SlashRecord]
        /\ \A j \in SlashIds : slashRecords'[j] = slashRecords[j]
                               \/ slashRecords'[j].appeal = "DENIED"
    BY <1>1, <1>3, DeniedRecord
  <1> HIDE DEF amount
  <1> QED
    BY <1>2, <1>3, <1>4, EscrowPays

LEMMA FinalizeIInv ==
    ASSUME IInv, FinalizeExpiredAppeals
    PROVE  IInv'
  <1>1. PICK amount \in 0..slashEscrowBalance :
          /\ Transfer(Manager, Treasury, amount)
          /\ slashEscrowBalance' = slashEscrowBalance - amount
    BY DEF FinalizeExpiredAppeals
  <1>2. slashRecords \in [SlashIds -> SlashRecord]
    BY DEF IInv, TypeOK
  <1>3. slashRecords' = [i \in SlashIds |-> IF i \in ExpiredSlashes
                                            THEN Denied(slashRecords[i]) ELSE slashRecords[i]]
    BY DEF FinalizeExpiredAppeals
  <1>4. /\ slashRecords' \in [SlashIds -> SlashRecord]
        /\ \A i \in SlashIds : slashRecords'[i] = slashRecords[i]
                               \/ slashRecords'[i].appeal = "DENIED"
    BY <1>2, <1>3, DeniedRecord
  <1>5. UNCHANGED <<now, paused, stakes, nextSlashId, agentTotalSlashed>>
    BY DEF FinalizeExpiredAppeals
  <1> QED
    BY <1>1, <1>4, <1>5, EscrowPays

LEMMA SlashesAreIds ==
    ASSUME IInv
    PROVE  Slashes \subseteq SlashIds
  <1>1. nextSlashId \in 1..(MaxSlashes + 1) /\ MaxSlashes \in Nat
    BY AmountsAssumption DEF IInv, TypeOK
  <1> QED
    BY <1>1 DEF Slashes, SlashIds

\* The pause and the clock.
LEMMA EnvironmentIInv ==
    ASSUME IInv, (\E p \in BOOLEAN : SetPaused(p)) \/ Tick
    PROVE  IInv'
  <1>1. now \in Nat /\ paused \in BOOLEAN
    BY DEF IInv, TypeOK
  <1>2. now' \in Nat
    BY <1>1 DEF SetPaused, Tick
  <1>3. paused' \in BOOLEAN
    BY <1>1 DEF SetPaused, Tick
  <1>4. UNCHANGED <<stakes, slashRecords, nextSlashId, slashEscrowBalance,
                    agentTotalSlashed, balance>>
    BY DEF SetPaused, Tick
  <1>5. RestTyped /\ balance' \in [Accounts -> Nat]
    BY <1>2, <1>3, <1>4 DEF RestTyped, IInv, TypeOK
  <1> QED
    BY <1>4, <1>5, RecordsIInv

LEMMA NextIInv == IInv /\ [Next]_vars => IInv'
  <1> SUFFICES ASSUME IInv, [Next]_vars PROVE IInv'
    OBVIOUS
  <1>1. CASE UNCHANGED vars
    BY <1>1 DEF vars, IInv, TypeOK, PartsMakeTheTotal, NoStakeLost, PendingIsSomeones
  <1>2. ASSUME NEW a \in Agents, AgentStep(a) PROVE IInv'
    <2>1. CASE \E amount \in Amounts : Stake(a, amount) \/ RequestUnstake(a, amount)
      BY <2>1, StakeIInv, ArrangingIInv
    <2>2. CASE CompleteUnstake(a)
      BY <2>2, CompleteUnstakeIInv
    <2>3. CASE Deactivate(a)
      BY <2>3, DeactivateIInv
    <2> QED
      BY <1>2, <2>1, <2>2, <2>3 DEF AgentStep
  <1>3. ASSUME NEW a \in Agents, SlasherStep(a) PROVE IInv'
    BY <1>3, ArrangingIInv, InitiateSlashIInv DEF SlasherStep
  <1>4. ASSUME NEW i \in Slashes, AppealStep(i) PROVE IInv'
    BY <1>4, SlashesAreIds, FileAppealIInv, ApproveAppealIInv, DenyAppealIInv DEF AppealStep
  <1> QED
    BY <1>1, <1>2, <1>3, <1>4, FinalizeIInv, EnvironmentIInv DEF Next

-----------------------------------------------------------------------------

\* Stake, its parts and its status agree, every agent's GUARD is accounted
\* for, and every undecided slash can be given back to its agent.
THEOREM InductiveInvariant == Spec => []IInv
  <1> QED
    BY InitIInv, NextIInv, PTL DEF Spec

-----------------------------------------------------------------------------
(***************************************************************************)
(* The freeze.                                                             *)
(***************************************************************************)

\* How agent a may leave the freeze in a step.
Thawed(a) ==
    \/ \E i \in Slashes : /\ slashRecords[i].agent = a
                          /\ slashRecords[i].appeal = "PENDING"
                          /\ slashRecords'[i].appeal = "APPROVED"
    \/ stakes'[a].status = "WITHDRAWN" /\ stakes'[a].total = 0

\* Another agent's stake is rewritten, or a's keeps its status.
LEMMA OneRewritten ==
    ASSUME IInv, NEW a \in Agents, NEW b \in Agents, NEW s,
           stakes' = [stakes EXCEPT ![b] = s]
    PROVE  IF a = b THEN stakes'[a] = s ELSE stakes'[a] = stakes[a]
  BY DEF IInv, TypeOK

LEMMA DepositKeepsFreeze ==
    ASSUME NEW s \in StakeInfo, s.status = "FROZEN", NEW amount \in Nat
    PROVE  Deposited(s, amount).status = "FROZEN"
  <1> DEFINE total == s.total + amount
             free == s.available + amount
             st == IF s.status = "WITHDRAWN" /\ total >= MinStakeForActive
                   THEN "ACTIVE" ELSE s.status
  <1>1. Deposited(s, amount) = [s EXCEPT !.known = TRUE, !.total = total,
                                         !.available = free, !.status = st]
    BY DEF Deposited
  <1>2. st = "FROZEN"
    OBVIOUS
  <1> HIDE DEF total, free, st
  <1> QED
    BY <1>1, <1>2 DEF StakeInfo

LEMMA WithdrawalKeepsFreeze ==
    ASSUME NEW s \in StakeInfo, s.status = "FROZEN"
    PROVE  \/ Withdrawn(s).status = "FROZEN"
           \/ Withdrawn(s).status = "WITHDRAWN" /\ Withdrawn(s).total = 0
  <1> DEFINE left == s.total - s.unbonding
             st == IF left = 0 THEN "WITHDRAWN"
                   ELSE IF s.status = "UNBONDING" /\ left >= MinStakeForActive
                   THEN "ACTIVE" ELSE s.status
  <1>1. Withdrawn(s) = [s EXCEPT !.total = left, !.unbonding = 0, !.completeAt = 0, !.status = st]
    BY DEF Withdrawn
  <1>2. st = "FROZEN" \/ (st = "WITHDRAWN" /\ left = 0)
    OBVIOUS
  <1> HIDE DEF left, st
  <1> QED
    BY <1>1, <1>2 DEF StakeInfo

LEMMA SlashKeepsFreeze ==
    ASSUME NEW s \in StakeInfo, s.status = "FROZEN", NEW amount, NEW bps
    PROVE  Frozen(Deducted(s, amount), bps).status = "FROZEN"
  <1> DEFINE d == Deducted(s, amount)
  <1>1. d.status = "FROZEN" /\ [d EXCEPT !.status = "FROZEN"].status = "FROZEN"
    BY DEF Deducted, StakeInfo
  <1> HIDE DEF d
  <1> QED
    BY <1>1 DEF Frozen, d

LEMMA MoveKeepsFreeze ==
    ASSUME NEW s \in StakeInfo, NEW free, NEW locked
    PROVE  [s EXCEPT !.available = free, !.locked = locked].status = s.status
  BY DEF StakeInfo

\* A frozen agent thaws only by the owner's approval of an appeal, or by
\* leaving with nothing: stakes, unbondings and slashes keep it frozen.
THEOREM FreezeHoldsAlways == Spec => FreezeHolds
  <1>1. ASSUME IInv, [Next]_vars, NEW a \in Agents,
               stakes[a].status = "FROZEN", stakes'[a].status # "FROZEN"
        PROVE  Thawed(a)
    <2>1. stakes \in [Agents -> StakeInfo] /\ stakes[a] \in StakeInfo
      BY <1>1 DEF IInv, TypeOK
    <2>2. stakes' # stakes
      BY <1>1
    <2>3. ASSUME NEW b \in Agents, AgentStep(b) PROVE Thawed(a)
      <3>1. ASSUME NEW amount \in Amounts, Stake(b, amount) PROVE FALSE
        <4>1. amount \in Nat
          BY AmountsAssumption
        <4>2. stakes' = [stakes EXCEPT ![b] = Deposited(stakes[b], amount)]
          BY <3>1 DEF Stake
        <4> QED
          BY <1>1, <2>1, <4>1, <4>2, OneRewritten, DepositKeepsFreeze
      <3>2. ASSUME NEW amount \in Amounts, RequestUnstake(b, amount) PROVE FALSE
        BY <1>1, <2>1, <3>2, OneRewritten DEF RequestUnstake
      <3>3. CASE CompleteUnstake(b)
        <4>1. stakes' = [stakes EXCEPT ![b] = Withdrawn(stakes[b])]
          BY <3>3 DEF CompleteUnstake
        <4> QED
          BY <1>1, <2>1, <4>1, OneRewritten, WithdrawalKeepsFreeze DEF Thawed
      <3>4. CASE Deactivate(b)
        BY <1>1, <2>1, <3>4, OneRewritten DEF Deactivate
      <3> QED
        BY <2>3, <3>1, <3>2, <3>3, <3>4 DEF AgentStep
    <2>4. ASSUME NEW b \in Agents, SlasherStep(b) PROVE FALSE
      <3>1. ASSUME NEW amount \in Amounts, LockStake(b, amount) PROVE FALSE
        <4>1. stakes'[a].status = stakes[a].status
          BY <2>1, <3>1, MoveKeepsFreeze DEF LockStake
        <4> QED
          BY <1>1, <4>1
      <3>2. ASSUME NEW amount \in Amounts, UnlockStake(b, amount) PROVE FALSE
        <4>1. stakes'[a].status = stakes[a].status
          BY <2>1, <3>2, MoveKeepsFreeze DEF UnlockStake
        <4> QED
          BY <1>1, <4>1
      <3>3. ASSUME NEW bps \in SlashRates, InitiateSlash(b, bps) PROVE FALSE
        <4>1. PICK amount \in 0..stakes[b].total :
                stakes' = [stakes EXCEPT ![b] = Frozen(Deducted(stakes[b], amount), bps)]
          BY <3>3 DEF InitiateSlash
        <4> QED
          BY <1>1, <2>1, <4>1, OneRewritten, SlashKeepsFreeze
      <3> QED
        BY <2>4, <3>1, <3>2, <3>3 DEF SlasherStep
    <2>5. ASSUME NEW i \in Slashes, AppealStep(i) PROVE Thawed(a)
      <3>1. CASE ApproveAppeal(i)
        <4>1. i \in SlashIds /\ slashRecords \in [SlashIds -> SlashRecord]
          BY <1>1, SlashesAreIds DEF IInv, TypeOK
        <4>2. slashRecords[i].appeal = "PENDING"
          BY <3>1 DEF ApproveAppeal, Appealed
        <4>3. slashRecords[i].agent = a
          BY <1>1, <2>1, <3>1 DEF ApproveAppeal
        <4>4. slashRecords[i] \in SlashRecord
          BY <4>1
        <4>5. slashRecords'[i] = [slashRecords[i] EXCEPT !.appeal = "APPROVED"]
          BY <3>1, <4>1 DEF ApproveAppeal
        <4>6. slashRecords'[i].appeal = "APPROVED"
          BY <4>4, <4>5 DEF SlashRecord
        <4> QED
          BY <4>2, <4>3, <4>6 DEF Thawed
      <3>2. CASE FileAppeal(i) \/ DenyAppeal(i)
        BY <2>2, <3>2 DEF FileAppeal, DenyAppeal
      <3> QED
        BY <2>5, <3>1, <3>2 DEF AppealStep
    <2>6. CASE FinalizeExpiredAppeals \/ (\E p \in BOOLEAN : SetPaused(p)) \/ Tick
      BY <2>2, <2>6 DEF FinalizeExpiredAppeals, SetPaused, Tick
    <2>7. CASE UNCHANGED vars
      BY <2>2, <2>7 DEF vars
    <2> QED
      BY <1>1, <2>3, <2>4, <2>5, <2>6, <2>7 DEF Next
  <1>2. ASSUME IInv, [Next]_vars
        PROVE  [\A a \in Agents :
                  stakes[a].status = "FROZEN" /\ stakes'[a].status # "FROZEN" =>
                    \/ \E i \in Slashes : /\ slashRecords[i].agent = a
                                          /\ slashRecords[i].appeal = "PENDING"
                                          /\ slashRecords'[i].appeal = "APPROVED"
                    \/ stakes'[a].status = "WITHDRAWN" /\ stakes'[a].total = 0]_vars
    BY <1>1, <1>2 DEF Thawed
  <1> QED
    BY <1>2, InductiveInvariant, PTL DEF Spec, FreezeHolds

-----------------------------------------------------------------------------
(***************************************************************************)
(* The escrow, the treasury and the contract's account against the sums of *)
(* what they hold.                                                         *)
(***************************************************************************)

\* What a record adds to the slashes of one status, and all of them together.
Part(r, st) == IF r.appeal = st THEN r.amount ELSE 0
Parts(st) == [i \in SlashIds |-> Part(slashRecords[i], st)]
Held(st) == SumFunctionOnSet(Parts(st), SlashIds)

StakedByAll == SumFunctionOnSet([a \in Agents |-> stakes[a].total], Agents)

\* Ids not given out yet hold no slash.
FreshIds == \A i \in SlashIds \ Slashes : slashRecords[i].appeal = "NONE"

Backed ==
    /\ slashEscrowBalance = Held("PENDING")
    /\ balance[Treasury] = Held("DENIED")
    /\ balance[Manager] = slashEscrowBalance + StakedByAll

LEMMA SetsFinite == IsFiniteSet(Agents) /\ IsFiniteSet(SlashIds)
  <1>1. MaxSlashes \in Nat
    BY AmountsAssumption
  <1> QED
    BY <1>1, AccountsAssumption, FS_Interval DEF SlashIds

LEMMA PartsAreNaturals ==
    ASSUME IInv, NEW st
    PROVE  /\ \A i \in SlashIds : Parts(st)[i] \in Nat /\ Parts(st)[i] = Part(slashRecords[i], st)
           /\ Held(st) \in Nat
  <1>1. \A i \in SlashIds : slashRecords[i] \in SlashRecord
    BY DEF IInv, TypeOK
  <1>2. \A i \in SlashIds : Part(slashRecords[i], st) \in Nat
    BY <1>1 DEF Part, SlashRecord
  <1>3. \A i \in SlashIds : Parts(st)[i] \in Nat /\ Parts(st)[i] = Part(slashRecords[i], st)
    BY <1>2 DEF Parts
  <1> QED
    BY <1>3, SetsFinite, SumAtLeast DEF Held

\* The sums of the property are these.
LEMMA TakenIsHeld ==
    ASSUME IInv, FreshIds, NEW st \in {"PENDING", "DENIED"}
    PROVE  Taken({i \in Slashes : slashRecords[i].appeal = st}) = Held(st)
  <1> DEFINE S == {i \in Slashes : slashRecords[i].appeal = st}
             amounts == [i \in SlashIds |-> slashRecords[i].amount]
             on == [i \in SlashIds |-> IF i \in S THEN amounts[i] ELSE 0]
  <1>1. S \in SUBSET SlashIds
    BY SlashesAreIds
  <1>2. \A i \in SlashIds : amounts[i] \in Int
    BY DEF IInv, TypeOK, SlashRecord
  <1>3. \A i \in SlashIds : on[i] = Parts(st)[i]
    <2> SUFFICES ASSUME NEW i \in SlashIds
                 PROVE  on[i] = Part(slashRecords[i], st)
      BY PartsAreNaturals
    <2>1. i \in S <=> slashRecords[i].appeal = st
      BY DEF FreshIds
    <2> QED
      BY <2>1 DEF Part
  <1>4. on = [i \in SlashIds |-> IF i \in S THEN amounts[i] ELSE 0]
    OBVIOUS
  <1>5. Taken(S) = SumFunctionOnSet(amounts, S)
    BY DEF Taken
  <1> HIDE DEF S, amounts, on
  <1>6. Taken(S) = SumFunctionOnSet(on, SlashIds)
    BY <1>1, <1>2, <1>4, <1>5, SetsFinite, SumOfPart
  <1>7. SumFunctionOnSet(on, SlashIds) = Held(st)
    BY <1>3, SetsFinite, SumSame DEF Held
  <1> QED
    BY <1>6, <1>7 DEF S

LEMMA BackedIsEscrowBacked ==
    ASSUME IInv, FreshIds, Backed
    PROVE  EscrowBacked
  <1> DEFINE totals == [a \in Agents |-> stakes[a].total]
  <1>1. DOMAIN totals = Agents
    OBVIOUS
  <1>2. SumFunction(totals) = StakedByAll
    BY <1>1 DEF SumFunction, StakedByAll
  <1> HIDE DEF totals
  <1> QED
    BY <1>2, TakenIsHeld DEF Backed, EscrowBacked, totals

\* One record changes.
LEMMA HeldChanges ==
    ASSUME IInv, IInv', NEW i \in SlashIds, NEW r,
           slashRecords' = [slashRecords EXCEPT ![i] = r], NEW st
    PROVE  Held(st)' = Held(st) + Part(r, st) - Part(slashRecords[i], st)
  <1> DEFINE before == Parts(st)
             after == [j \in SlashIds |-> Part(slashRecords'[j], st)]
  <1>1. slashRecords'[i] = r /\ \A j \in SlashIds \ {i} : slashRecords'[j] = slashRecords[j]
    BY DEF IInv, TypeOK
  <1>2. \A j \in SlashIds : before[j] \in Int /\ before[j] = Part(slashRecords[j], st)
    BY PartsAreNaturals
  <1>3. \A j \in SlashIds : after[j] \in Int /\ after[j] = Part(slashRecords'[j], st)
    BY DEF IInv, TypeOK, SlashRecord, Part
  <1>4. Held(st) = SumFunctionOnSet(before, SlashIds) /\ Held(st)' = SumFunctionOnSet(after, SlashIds)
    BY DEF Held, Parts
  <1> HIDE DEF before, after
  <1>5. \A j \in SlashIds \ {i} : before[j] = after[j]
    BY <1>1, <1>2, <1>3
  <1>6. SumFunctionOnSet(after, SlashIds) = SumFunctionOnSet(before, SlashIds) + after[i] - before[i]
    BY <1>2, <1>3, <1>5, SetsFinite, SumOneChanged
  <1> QED
    BY <1>1, <1>2, <1>3, <1>4, <1>6

\* One stake changes.
LEMMA StakedChanges ==
    ASSUME IInv, IInv', NEW a \in Agents, NEW s, stakes' = [stakes EXCEPT ![a] = s]
    PROVE  StakedByAll' = StakedByAll + s.total - stakes[a].total
  <1> DEFINE before == [b \in Agents |-> stakes[b].total]
             after == [b \in Agents |-> stakes'[b].total]
  <1>1. stakes'[a] = s /\ \A b \in Agents \ {a} : stakes'[b] = stakes[b]
    BY DEF IInv, TypeOK
  <1>2. \A b \in Agents : before[b] \in Int /\ after[b] \in Int
    BY DEF IInv, TypeOK, StakeInfo
  <1>3. /\ \A b \in Agents \ {a} : before[b] = after[b]
        /\ before[a] = stakes[a].total /\ after[a] = s.total
    BY <1>1
  <1>4. StakedByAll = SumFunctionOnSet(before, Agents) /\ StakedByAll' = SumFunctionOnSet(after, Agents)
    BY DEF StakedByAll
  <1> HIDE DEF before, after
  <1>5. SumFunctionOnSet(after, Agents) = SumFunctionOnSet(before, Agents) + after[a] - before[a]
    BY <1>2, <1>3, SetsFinite, SumOneChanged
  <1> QED
    BY <1>3, <1>4, <1>5

LEMMA StakedNatural ==
    ASSUME IInv
    PROVE  StakedByAll \in Nat
  <1> DEFINE totals == [b \in Agents |-> stakes[b].total]
  <1>1. \A b \in Agents : totals[b] \in Nat
    BY DEF IInv, TypeOK, StakeInfo
  <1> HIDE DEF totals
  <1>2. SumFunctionOnSet(totals, Agents) \in Nat
    BY <1>1, SetsFinite, SumAtLeast
  <1> QED
    BY <1>2 DEF StakedByAll, totals

LEMMA StakesTyped ==
    ASSUME IInv, NEW a \in Agents
    PROVE  /\ stakes[a] \in StakeInfo
           /\ stakes[a].total \in Nat /\ stakes[a].unbonding \in Nat
           /\ balance \in [Accounts -> Nat] /\ balance[Manager] \in Nat /\ balance[Treasury] \in Nat
           /\ a \in Accounts /\ a # Manager /\ a # Treasury
  BY AccountsDistinct DEF IInv, TypeOK, StakeInfo

\* The books of the slashes stay; what one stake gains or loses, the contract's
\* account gains or loses.
LEMMA StakeBacks ==
    ASSUME IInv, IInv', FreshIds, Backed, NEW a \in Agents, NEW s,
           stakes' = [stakes EXCEPT ![a] = s],
           balance'[Manager] = balance[Manager] + s.total - stakes[a].total,
           balance'[Treasury] = balance[Treasury],
           UNCHANGED <<slashRecords, nextSlashId, slashEscrowBalance>>
    PROVE  FreshIds' /\ Backed'
  <1>1. FreshIds' /\ Held("PENDING")' = Held("PENDING") /\ Held("DENIED")' = Held("DENIED")
    BY DEF FreshIds, Slashes, Held, Parts
  <1>2. StakedByAll' = StakedByAll + s.total - stakes[a].total
    BY StakedChanges
  <1>3. stakes[a].total \in Nat /\ s.total \in Nat /\ StakedByAll \in Nat /\ slashEscrowBalance \in Nat
    <2>1. stakes'[a] = s
      BY DEF IInv, TypeOK
    <2>2. s.total \in Nat
      BY <2>1 DEF IInv, TypeOK, StakeInfo
    <2> QED
      BY <2>2, StakesTyped, StakedNatural DEF IInv, TypeOK
  <1> QED
    BY <1>1, <1>2, <1>3 DEF Backed

\* Such a step that moves no GUARD.
LEMMA ArrangingBacks ==
    ASSUME IInv, IInv', FreshIds, Backed, NEW a \in Agents, NEW s,
           stakes' = [stakes EXCEPT ![a] = s], s.total = stakes[a].total,
           UNCHANGED <<slashRecords, nextSlashId, slashEscrowBalance, balance>>
    PROVE  FreshIds' /\ Backed'
  <1>1. stakes[a].total \in Nat /\ balance[Manager] \in Nat
    BY StakesTyped
  <1>2. balance'[Manager] = balance[Manager] + s.total - stakes[a].total
    BY <1>1
  <1>3. balance'[Treasury] = balance[Treasury]
    OBVIOUS
  <1>4. UNCHANGED <<slashRecords, nextSlashId, slashEscrowBalance>>
    OBVIOUS
  <1> QED
    BY <1>2, <1>3, <1>4, StakeBacks

LEMMA AgentStepBacks ==
    ASSUME IInv, IInv', FreshIds, Backed, NEW a \in Agents, AgentStep(a)
    PROVE  FreshIds' /\ Backed'
  <1>0. stakes[a] \in StakeInfo /\ Amounts \subseteq Nat
    BY StakesTyped, AmountsAssumption
  <1>1. ASSUME NEW amount \in Amounts, Stake(a, amount) PROVE FreshIds' /\ Backed'
    <2>1. Deposited(stakes[a], amount).total = stakes[a].total + amount
      BY <1>0 DEF Deposited, StakeInfo
    <2>2. /\ balance'[Manager] = balance[Manager] + amount
          /\ balance'[Treasury] = balance[Treasury]
      BY <1>0, <1>1, StakesTyped, TransferMoves, AccountsDistinct DEF Stake
    <2>3. balance'[Manager] = balance[Manager] + Deposited(stakes[a], amount).total - stakes[a].total
      BY <1>0, <2>1, <2>2, StakesTyped
    <2> QED
      BY <1>1, <2>2, <2>3, StakeBacks DEF Stake
  <1>2. ASSUME NEW amount \in Amounts, RequestUnstake(a, amount) PROVE FreshIds' /\ Backed'
    <2>1. Unbonding(stakes[a], amount, now + UnbondingPeriod).total = stakes[a].total
      BY <1>0 DEF Unbonding, StakeInfo
    <2> QED
      BY <1>2, <2>1, ArrangingBacks DEF RequestUnstake
  <1>3. ASSUME CompleteUnstake(a) PROVE FreshIds' /\ Backed'
    <2>1. Withdrawn(stakes[a]).total = stakes[a].total - stakes[a].unbonding
      BY <1>0 DEF Withdrawn, StakeInfo
    <2>2. /\ balance'[Manager] = balance[Manager] - stakes[a].unbonding
          /\ balance'[Treasury] = balance[Treasury]
      BY <1>3, StakesTyped, TransferMoves, AccountsDistinct DEF CompleteUnstake
    <2>3. balance'[Manager] = balance[Manager] + Withdrawn(stakes[a]).total - stakes[a].total
      BY <2>1, <2>2, StakesTyped
    <2> QED
      BY <1>3, <2>2, <2>3, StakeBacks DEF CompleteUnstake
  <1>4. ASSUME Deactivate(a) PROVE FreshIds' /\ Backed'
    <2> DEFINE u == Unbonding(stakes[a], stakes[a].available, now + UnbondingPeriod)
               s == [u EXCEPT !.status = "UNBONDING"]
    <2>1. s.total = stakes[a].total
      BY <1>0 DEF Unbonding, StakeInfo
    <2>2. stakes' = [stakes EXCEPT ![a] = s]
      BY <1>4 DEF Deactivate
    <2> HIDE DEF s, u
    <2> QED
      BY <1>4, <2>1, <2>2, ArrangingBacks DEF Deactivate
  <1> QED
    BY <1>1, <1>2, <1>3, <1>4 DEF AgentStep

LEMMA MovingBacks ==
    ASSUME IInv, IInv', FreshIds, Backed, NEW a \in Agents, NEW amount,
           LockStake(a, amount) \/ UnlockStake(a, amount)
    PROVE  FreshIds' /\ Backed'
  <1>1. PICK free, locked :
          stakes' = [stakes EXCEPT ![a] = [stakes[a] EXCEPT !.available = free, !.locked = locked]]
    <2>1. CASE LockStake(a, amount)
      <3>1. stakes' = [stakes EXCEPT ![a] = [stakes[a] EXCEPT
                         !.available = stakes[a].available - amount,
                         !.locked = stakes[a].locked + amount]]
        BY <2>1, StakesTyped DEF LockStake, IInv, TypeOK
      <3> QED
        BY <3>1
    <2>2. CASE UnlockStake(a, amount)
      <3>1. stakes' = [stakes EXCEPT ![a] = [stakes[a] EXCEPT
                         !.available = stakes[a].available + amount,
                         !.locked = stakes[a].locked - amount]]
        BY ZenonT(60), <2>2, StakesTyped DEF UnlockStake, IInv, TypeOK, StakeInfo
      <3> QED
        BY <3>1
    <2> QED
      BY <2>1, <2>2
  <1>2. [stakes[a] EXCEPT !.available = free, !.locked = locked].total = stakes[a].total
    BY StakesTyped DEF StakeInfo
  <1>3. UNCHANGED <<slashRecords, nextSlashId, slashEscrowBalance, balance>>
    BY DEF LockStake, UnlockStake
  <1> QED
    BY <1>1, <1>2, <1>3, ArrangingBacks

LEMMA InitiateSlashBacks ==
    ASSUME IInv, IInv', FreshIds, Backed, NEW a \in Agents, NEW bps, InitiateSlash(a, bps)
    PROVE  FreshIds' /\ Backed'
  <1> DEFINE i == nextSlashId
  <1>1. PICK amount \in 0..stakes[a].total :
          /\ stakes' = [stakes EXCEPT ![a] = Frozen(Deducted(stakes[a], amount), bps)]
          /\ slashRecords' = [slashRecords EXCEPT ![i] = NewRecord(a, amount)]
          /\ slashEscrowBalance' = slashEscrowBalance + amount
    BY DEF InitiateSlash
  <1>2. nextSlashId' = i + 1 /\ balance' = balance /\ i <= MaxSlashes /\ stakes[a].known
    BY DEF InitiateSlash
  <1>3. i \in Nat \ {0} /\ MaxSlashes \in Nat /\ slashEscrowBalance \in Nat
    <2>1. /\ nextSlashId \in 1..(MaxSlashes + 1)
          /\ MaxSlashes \in Nat /\ slashEscrowBalance \in Nat
      BY AmountsAssumption DEF IInv, TypeOK
    <2> QED
      BY <2>1
  <1>4. i \in SlashIds /\ i \notin Slashes /\ Slashes' = Slashes \cup {i}
    BY <1>2, <1>3 DEF SlashIds, Slashes
  <1>5. slashRecords[i].appeal = "NONE"
    BY <1>4 DEF FreshIds
  <1>6. amount \in Nat /\ amount <= stakes[a].total
    BY <1>1, StakesTyped
  <1>7. FreshIds'
    <2> SUFFICES ASSUME NEW j \in SlashIds \ Slashes'
                 PROVE  slashRecords'[j].appeal = "NONE"
      BY DEF FreshIds
    <2>1. j # i /\ j \in SlashIds \ Slashes
      BY <1>4
    <2>2. slashRecords'[j] = slashRecords[j]
      BY <1>1, <2>1 DEF IInv, TypeOK
    <2> QED
      BY <2>1, <2>2 DEF FreshIds
  <1>8. Part(NewRecord(a, amount), "PENDING") = amount /\ Part(NewRecord(a, amount), "DENIED") = 0
    BY DEF Part, NewRecord
  <1>9. Part(slashRecords[i], "PENDING") = 0 /\ Part(slashRecords[i], "DENIED") = 0
    BY <1>5 DEF Part
  <1>10. Frozen(Deducted(stakes[a], amount), bps).total = stakes[a].total - amount
    BY <1>2, <1>6, SoundStakes, DeductedSound DEF SoundKnown
  <1> HIDE DEF i
  <1>11. Held("PENDING")' = Held("PENDING") + amount - 0 /\ Held("DENIED")' = Held("DENIED") + 0 - 0
    BY <1>1, <1>4, <1>8, <1>9, HeldChanges
  <1>12. StakedByAll' = StakedByAll + (stakes[a].total - amount) - stakes[a].total
    BY <1>1, <1>10, StakedChanges
  <1>13. Held("PENDING") \in Nat /\ Held("DENIED") \in Nat /\ StakedByAll \in Nat
         /\ stakes[a].total \in Nat
    BY PartsAreNaturals, StakedNatural, StakesTyped
  <1> QED
    BY <1>1, <1>2, <1>3, <1>6, <1>7, <1>11, <1>12, <1>13 DEF Backed

\* A record changes and keeps its place; the sums change by what it adds.
LEMMA RecordKeepsFresh ==
    ASSUME IInv, FreshIds, NEW i \in Slashes, NEW r,
           slashRecords' = [slashRecords EXCEPT ![i] = r], nextSlashId' = nextSlashId
    PROVE  FreshIds'
  <1> SUFFICES ASSUME NEW j \in SlashIds \ Slashes
               PROVE  slashRecords'[j].appeal = "NONE"
    BY DEF FreshIds, Slashes
  <1>1. slashRecords'[j] = slashRecords[j]
    BY DEF IInv, TypeOK
  <1> QED
    BY <1>1 DEF FreshIds

LEMMA AppealStepBacks ==
    ASSUME IInv, IInv', FreshIds, Backed, NEW i \in Slashes, AppealStep(i)
    PROVE  FreshIds' /\ Backed'
  <1> DEFINE amount == slashRecords[i].amount
  <1>1. i \in SlashIds /\ slashRecords[i] \in SlashRecord /\ amount \in Nat
        /\ slashRecords[i].appeal = "PENDING"
    BY SlashesAreIds DEF IInv, TypeOK, SlashRecord, AppealStep, FileAppeal, ApproveAppeal,
                         DenyAppeal, Appealed
  <1>2. Part(slashRecords[i], "PENDING") = amount /\ Part(slashRecords[i], "DENIED") = 0
    BY <1>1 DEF Part
  <1>3. /\ Held("PENDING") \in Nat /\ Held("DENIED") \in Nat /\ StakedByAll \in Nat
        /\ slashEscrowBalance \in Nat
    BY PartsAreNaturals, StakedNatural DEF IInv, TypeOK
  <1>4. CASE FileAppeal(i)
    <2> DEFINE r == [slashRecords[i] EXCEPT !.filed = TRUE]
    <2>1. r.appeal = "PENDING" /\ r.amount = amount
      BY <1>1 DEF SlashRecord
    <2>2. /\ slashRecords' = [slashRecords EXCEPT ![i] = r]
          /\ UNCHANGED <<stakes, nextSlashId, slashEscrowBalance, balance>>
      BY <1>4 DEF FileAppeal
    <2> HIDE DEF r, amount
    <2>3. Part(r, "PENDING") = amount /\ Part(r, "DENIED") = 0
      BY <2>1 DEF Part
    <2>4. FreshIds' /\ Held("PENDING")' = Held("PENDING") + amount - amount
          /\ Held("DENIED")' = Held("DENIED") + 0 - 0
      BY <1>1, <1>2, <2>2, <2>3, RecordKeepsFresh, HeldChanges
    <2>5. StakedByAll' = StakedByAll
      BY <2>2 DEF StakedByAll
    <2> QED
      BY <1>1, <1>3, <2>2, <2>4, <2>5 DEF Backed
  <1>5. CASE ApproveAppeal(i)
    <2> DEFINE r == [slashRecords[i] EXCEPT !.appeal = "APPROVED"]
               a == slashRecords[i].agent
    <2>1. r.appeal = "APPROVED"
      BY <1>1 DEF SlashRecord
    <2>2. /\ slashRecords' = [slashRecords EXCEPT ![i] = r]
          /\ stakes' = [stakes EXCEPT ![a] = Restored(stakes[a], amount)]
          /\ slashEscrowBalance' = slashEscrowBalance - amount
          /\ UNCHANGED <<nextSlashId, balance>>
      BY <1>5 DEF ApproveAppeal
    <2>3. a \in Agents
      BY <1>1 DEF IInv, PendingIsSomeones
    <2>4. Restored(stakes[a], amount).total = stakes[a].total + amount
      BY <1>1, <2>3, StakesTyped DEF Restored, StakeInfo
    <2> HIDE DEF r, a, amount
    <2>5. Part(r, "PENDING") = 0 /\ Part(r, "DENIED") = 0
      BY <2>1 DEF Part
    <2>6. FreshIds' /\ Held("PENDING")' = Held("PENDING") + 0 - amount
          /\ Held("DENIED")' = Held("DENIED") + 0 - 0
      BY <1>1, <1>2, <2>2, <2>5, RecordKeepsFresh, HeldChanges
    <2>7. StakedByAll' = StakedByAll + (stakes[a].total + amount) - stakes[a].total
      BY <2>2, <2>3, <2>4, StakedChanges
    <2>8. stakes[a].total \in Nat
      BY <2>3, StakesTyped
    <2> QED
      BY <1>1, <1>3, <2>2, <2>6, <2>7, <2>8 DEF Backed
  <1>6. CASE DenyAppeal(i)
    <2> DEFINE r == Denied(slashRecords[i])
    <2>1. r.appeal = "DENIED" /\ r.amount = amount
      BY <1>1 DEF Denied, SlashRecord
    <2>2. /\ slashRecords' = [slashRecords EXCEPT ![i] = r]
          /\ slashEscrowBalance' = slashEscrowBalance - amount
          /\ Transfer(Manager, Treasury, amount)
          /\ UNCHANGED <<stakes, nextSlashId>>
      BY <1>6 DEF DenyAppeal
    <2>3. /\ balance'[Manager] = balance[Manager] - amount
          /\ balance'[Treasury] = balance[Treasury] + amount
      BY <1>1, <2>2, TransferMoves, AccountsDistinct DEF IInv, TypeOK
    <2> HIDE DEF r, amount
    <2>4. Part(r, "PENDING") = 0 /\ Part(r, "DENIED") = amount
      BY <2>1 DEF Part
    <2>5. FreshIds' /\ Held("PENDING")' = Held("PENDING") + 0 - amount
          /\ Held("DENIED")' = Held("DENIED") + amount - 0
      BY <1>1, <1>2, <2>2, <2>4, RecordKeepsFresh, HeldChanges
    <2>6. StakedByAll' = StakedByAll
      BY <2>2 DEF StakedByAll
    <2> QED
      BY <1>1, <1>3, <2>2, <2>3, <2>5, <2>6 DEF Backed
  <1> QED
    BY <1>4, <1>5, <1>6 DEF AppealStep

LEMMA FinalizeBacks ==
    ASSUME IInv, IInv', FreshIds, Backed, FinalizeExpiredAppeals
    PROVE  FreshIds' /\ Backed'
  <1> DEFINE E == ExpiredSlashes
             amounts == [i \in SlashIds |-> slashRecords[i].amount]
             on == [i \in SlashIds |-> IF i \in E THEN amounts[i] ELSE 0]
             pendingAfter == [i \in SlashIds |-> Part(slashRecords'[i], "PENDING")]
             deniedAfter == [i \in SlashIds |-> Part(slashRecords'[i], "DENIED")]
             moved == SumFunctionOnSet(on, SlashIds)
  <1>1. /\ E \in SUBSET SlashIds
        /\ \A i \in E : i \in Slashes /\ slashRecords[i].appeal = "PENDING"
    BY SlashesAreIds DEF ExpiredSlashes, Expired
  <1>2. \A i \in SlashIds : slashRecords[i] \in SlashRecord /\ slashRecords'[i] \in SlashRecord
    BY DEF IInv, TypeOK
  <1>3. \A i \in SlashIds : slashRecords'[i] =
            IF i \in E THEN Denied(slashRecords[i]) ELSE slashRecords[i]
    BY DEF FinalizeExpiredAppeals
  <1>4. \A i \in SlashIds : amounts[i] = slashRecords[i].amount /\ amounts[i] \in Nat
    BY <1>2 DEF SlashRecord
  <1>5. \A i \in SlashIds : on[i] = (IF i \in E THEN amounts[i] ELSE 0) /\ on[i] \in Nat
    BY <1>4
  <1>6. Taken(E) = SumFunctionOnSet(amounts, E)
    BY DEF Taken
  <1>7. on = [i \in SlashIds |-> IF i \in E THEN amounts[i] ELSE 0]
    OBVIOUS
  <1>8. \A i \in SlashIds : /\ pendingAfter[i] = Part(slashRecords'[i], "PENDING")
                           /\ deniedAfter[i] = Part(slashRecords'[i], "DENIED")
    OBVIOUS
  <1>9. /\ Held("PENDING")' = SumFunctionOnSet(pendingAfter, SlashIds)
        /\ Held("DENIED")' = SumFunctionOnSet(deniedAfter, SlashIds)
    BY DEF Held, Parts
  <1>10. PICK amount \in 0..slashEscrowBalance :
           /\ amount = Taken(E)
           /\ Transfer(Manager, Treasury, amount)
           /\ slashEscrowBalance' = slashEscrowBalance - amount
    BY DEF FinalizeExpiredAppeals
  <1>11. UNCHANGED <<stakes, nextSlashId>>
    BY DEF FinalizeExpiredAppeals
  <1>12. slashEscrowBalance \in Nat
    BY DEF IInv, TypeOK
  <1>13. moved \in Nat
    BY <1>5, SetsFinite, SumAtLeast
  <1>14. moved = SumFunctionOnSet(on, SlashIds)
    OBVIOUS
  <1> HIDE DEF E, amounts, on, pendingAfter, deniedAfter, moved
  <1>15. amount = moved
    <2>1. \A i \in SlashIds : amounts[i] \in Int
      BY <1>4
    <2> QED
      BY <2>1, <1>1, <1>6, <1>7, <1>10, <1>14, SetsFinite, SumOfPart
  <1>16. \A i \in SlashIds :
           /\ Parts("PENDING")[i] = pendingAfter[i] + on[i] /\ pendingAfter[i] \in Int
           /\ deniedAfter[i] = Parts("DENIED")[i] + on[i] /\ Parts("DENIED")[i] \in Int
           /\ on[i] \in Int
    <2> SUFFICES ASSUME NEW i \in SlashIds
                 PROVE  /\ Part(slashRecords[i], "PENDING") = pendingAfter[i] + on[i]
                        /\ pendingAfter[i] \in Int
                        /\ deniedAfter[i] = Part(slashRecords[i], "DENIED") + on[i]
                        /\ Part(slashRecords[i], "DENIED") \in Int /\ on[i] \in Int
      BY PartsAreNaturals
    <2>0. slashRecords[i] \in SlashRecord /\ slashRecords[i].amount \in Nat
      BY <1>2 DEF SlashRecord
    <2>1. CASE i \in E
      <3>1. /\ slashRecords'[i].appeal = "DENIED"
            /\ slashRecords'[i].amount = slashRecords[i].amount
        BY <2>0, <2>1, <1>3 DEF Denied, SlashRecord
      <3>2. on[i] = slashRecords[i].amount /\ slashRecords[i].appeal = "PENDING"
        BY <2>1, <1>1, <1>4, <1>5
      <3> QED
        BY <2>0, <3>1, <3>2, <1>8 DEF Part
    <2>2. CASE i \notin E
      BY <2>0, <2>2, <1>3, <1>5, <1>8 DEF Part
    <2> QED
      BY <2>1, <2>2
  <1>17. Held("PENDING") = Held("PENDING")' + moved
    BY <1>9, <1>14, <1>16, SetsFinite, SumAdds DEF Held
  <1>18. Held("DENIED")' = Held("DENIED") + moved
    BY <1>9, <1>14, <1>16, SetsFinite, SumAdds DEF Held
  <1>19. Held("PENDING")' \in Int
    BY <1>9, <1>16, SetsFinite, SumInteger
  <1>20. /\ balance'[Manager] = balance[Manager] - moved
         /\ balance'[Treasury] = balance[Treasury] + moved
    BY <1>10, <1>13, <1>15, TransferMoves, AccountsDistinct DEF IInv, TypeOK
  <1>21. FreshIds'
    <2> SUFFICES ASSUME NEW i \in SlashIds \ Slashes
                 PROVE  slashRecords'[i].appeal = "NONE"
      BY <1>11 DEF FreshIds, Slashes
    <2>1. slashRecords'[i] = slashRecords[i]
      BY <1>1, <1>3
    <2> QED
      BY <2>1 DEF FreshIds
  <1>22. StakedByAll' = StakedByAll /\ StakedByAll \in Nat
    BY <1>11, StakedNatural DEF StakedByAll
  <1>23. Held("PENDING") \in Nat /\ Held("DENIED") \in Nat
    BY PartsAreNaturals
  <1> QED
    BY <1>10, <1>12, <1>13, <1>15, <1>17, <1>18, <1>19, <1>20, <1>21, <1>22, <1>23 DEF Backed

LEMMA NextBacks ==
    ASSUME IInv, IInv', FreshIds, Backed, [Next]_vars
    PROVE  FreshIds' /\ Backed'
  <1>1. ASSUME NEW a \in Agents, AgentStep(a) PROVE FreshIds' /\ Backed'
    BY <1>1, AgentStepBacks
  <1>2. ASSUME NEW a \in Agents, SlasherStep(a) PROVE FreshIds' /\ Backed'
    BY <1>2, MovingBacks, InitiateSlashBacks DEF SlasherStep
  <1>3. ASSUME NEW i \in Slashes, AppealStep(i) PROVE FreshIds' /\ Backed'
    BY <1>3, AppealStepBacks
  <1>4. CASE FinalizeExpiredAppeals
    BY <1>4, FinalizeBacks
  <1>5. ASSUME UNCHANGED <<stakes, slashRecords, nextSlashId, slashEscrowBalance, balance>>
        PROVE  FreshIds' /\ Backed'
    <2>1. /\ Held("PENDING")' = Held("PENDING") /\ Held("DENIED")' = Held("DENIED")
          /\ StakedByAll' = StakedByAll
      BY <1>5 DEF Held, Parts, StakedByAll
    <2> QED
      BY <1>5, <2>1 DEF Backed, FreshIds, Slashes
  <1>6. CASE (\E p \in BOOLEAN : SetPaused(p)) \/ Tick \/ UNCHANGED vars
    BY <1>5, <1>6 DEF SetPaused, Tick, vars
  <1> QED
    BY <1>1, <1>2, <1>3, <1>4, <1>6 DEF Next

LEMMA InitBacks == Init => FreshIds /\ Backed
  <1> SUFFICES ASSUME Init
               PROVE  FreshIds /\ Backed
    OBVIOUS
  <1>1. \A i \in SlashIds : slashRecords[i].appeal = "NONE"
    BY DEF Init, NoRecord
  <1>2. \A i \in SlashIds : Parts("PENDING")[i] = 0 /\ Parts("DENIED")[i] = 0
    BY <1>1 DEF Parts, Part
  <1>3. Held("PENDING") = 0 /\ Held("DENIED") = 0
    BY <1>2, SetsFinite, SumZero DEF Held
  <1>4. StakedByAll = 0
    <2> DEFINE totals == [a \in Agents |-> stakes[a].total]
    <2>1. \A a \in Agents : totals[a] = 0
      BY DEF Init, NoStake
    <2> HIDE DEF totals
    <2>2. SumFunctionOnSet(totals, Agents) = 0
      BY <2>1, SetsFinite, SumZero
    <2> QED
      BY <2>2 DEF StakedByAll, totals
  <1>5. balance[Manager] = 0 /\ balance[Treasury] = 0 /\ slashEscrowBalance = 0
    BY AccountsDistinct DEF Init
  <1> QED
    BY <1>1, <1>3, <1>4, <1>5 DEF FreshIds, Backed

\* The escrow is always exactly what undecided slashes took, the treasury has
\* exactly what denied ones took, and the contract's GUARD account is the escrow
\* and everyone's stake: whatever is unbonding, appealed or expired can be paid.
\* For any agents, amounts, rates and number of slashes, and also when
\* finalizeExpiredAppeals settles any set of them in one call.
THEOREM EscrowBackedHolds == Spec => []EscrowBacked
  <1>1. Init => FreshIds /\ Backed
    BY InitBacks
  <1>2. IInv /\ IInv' /\ (FreshIds /\ Backed) /\ [Next]_vars => (FreshIds /\ Backed)'
    BY NextBacks
  <1>3. IInv /\ (FreshIds /\ Backed) => EscrowBacked
    BY BackedIsEscrowBacked
  <1> QED
    BY <1>1, <1>2, <1>3, InductiveInvariant, PTL DEF Spec
=============================================================================
