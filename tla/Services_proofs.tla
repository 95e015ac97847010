--------------------------- MODULE Services_proofs ---------------------------
(***************************************************************************)
(* Proofs about the orchestrator's write queue, its settlement of a job    *)
(* and its intake of discoveries, about the scanner, and about the         *)
(* dashboard's event feed, for any number of callers, handlers,            *)
(* discoveries, cycles and polls.                                          *)
(***************************************************************************)
EXTENDS WriteQueue, ServiceProcesses, DashboardProcess, SumLemmas, SequenceTheorems, WellFoundedInduction, TLAPS

-----------------------------------------------------------------------------
(***************************************************************************)
(* The write queue: its drain loop is alone, and the streak cap bounds     *)
(* overtaking.                                                             *)
(***************************************************************************)

\* What the cap rests on: the history never runs ahead of the streak, a high
\* task goes past a waiting normal one only below the cap, and the history
\* starts over when a normal task is taken.
Capped ==
    /\ fastPath => /\ passed <= streak
                   /\ passing => streak < MaxHighStreak
    /\ \A t \in sending : ~IsHigh(t) => passed = 0 /\ ~passing

IInv == TypeOK /\ OneLoop /\ Capped

-----------------------------------------------------------------------------

LEMMA LeastElement ==
  ASSUME NEW S \in SUBSET Nat, S # {}
  PROVE  Min(S) \in S /\ \A y \in S : Min(S) <= y
<1> DEFINE Less == {ss \in Nat \X Nat : ss[1] < ss[2]}
<1>1. IsWellFoundedOn(Less, Nat)
  BY NatLessThanWellFounded DEF OpToRel
<1> HIDE DEF Less
<1>2. \E x \in S : \A y \in S : ~ (<<y, x>> \in Less)
  BY <1>1, WFMin
<1>3. \A x, y \in Nat : ~ (<<y, x>> \in Less) => x <= y
  BY DEF Less
<1>4. \E x \in S : \A y \in S : x <= y
  BY <1>2, <1>3
<1> QED BY <1>4 DEF Min

LEMMA FirstNormalRange ==
  ASSUME NEW q \in Seq(Tasks)
  PROVE  FirstNormal(q) \in 0..Len(q)
<1> DEFINE I == {i \in 1..Len(q) : IsNormal(q[i])}
<1>1. FirstNormal(q) = IF I # {} THEN Min(I) ELSE 0
  BY DEF FirstNormal, SelectInSeq
<1>2. Len(q) \in Nat
  OBVIOUS
<1>3. I \subseteq Nat
  OBVIOUS
<1>4. I # {} => Min(I) \in I
  <2> HIDE DEF I
  <2> QED BY <1>3, LeastElement
<1> QED BY <1>1, <1>2, <1>4

\* What FirstNormal finds is normal.
LEMMA TakesNormal ==
  ASSUME NEW q \in Seq(Tasks), FirstNormal(q) # 0
  PROVE  ~IsHigh(q[FirstNormal(q)])
<1> DEFINE I == {i \in 1..Len(q) : IsNormal(q[i])}
<1>1. FirstNormal(q) = IF I # {} THEN Min(I) ELSE 0
  BY DEF FirstNormal, SelectInSeq
<1>2. I \subseteq Nat
  OBVIOUS
<1>3. I # {} => Min(I) \in I
  <2> HIDE DEF I
  <2> QED BY <1>2, LeastElement
<1> QED BY <1>1, <1>3 DEF IsNormal, IsHigh

\* Every task before the first normal one is high.
LEMMA HighBefore ==
  ASSUME NEW q \in Seq(Tasks), NEW i \in 1..Len(q), ~IsHigh(q[i])
  PROVE  FirstNormal(q) # 0 /\ FirstNormal(q) <= i
<1> DEFINE I == {j \in 1..Len(q) : IsNormal(q[j])}
<1>1. FirstNormal(q) = IF I # {} THEN Min(I) ELSE 0
  BY DEF FirstNormal, SelectInSeq
<1>2. i \in I /\ I \in SUBSET Nat /\ 0 \notin I
  BY DEF IsNormal, IsHigh
<1> HIDE DEF I
<1> QED BY <1>1, <1>2, LeastElement

\* Where the next task is taken from is a position of the queue.
LEMMA NextIndexRange ==
  ASSUME NEW q \in Seq(Tasks), q # <<>>, NEW s \in Nat
  PROVE  NextIndex(q, s) \in 1..Len(q)
<1>1. Len(q) \in Nat /\ Len(q) # 0
  OBVIOUS
<1> QED BY <1>1, FirstNormalRange DEF NextIndex

LEMMA RemoveAtType ==
  ASSUME NEW q \in Seq(Tasks), NEW k \in 1..Len(q)
  PROVE  RemoveAt(q, k) \in Seq(Tasks) /\ q[k] \in Tasks
<1>1. SubSeq(q, 1, k - 1) \in Seq(Tasks)
  BY SubSeqProperties
<1>2. SubSeq(q, k + 1, Len(q)) \in Seq(Tasks)
  BY SubSeqProperties
<1>3. q[k] \in Tasks
  BY ElementOfSeq
<1> QED BY <1>1, <1>2, <1>3, ConcatProperties DEF RemoveAt

LEMMA EnqueuedType ==
  ASSUME NEW q \in Seq(Tasks), NEW t \in Tasks
  PROVE  Enqueued(q, t) \in Seq(Tasks) /\ Enqueued(q, t) # <<>>
<1>1. Append(q, t) \in Seq(Tasks) /\ Append(q, t) # <<>>
  BY AppendProperties
<1>2. ASSUME NEW k \in 1..Len(q)
      PROVE  InsertAt(q, k, t) \in Seq(Tasks) /\ InsertAt(q, k, t) # <<>>
  <2>1. SubSeq(q, 1, k - 1) \in Seq(Tasks) /\ SubSeq(q, k, Len(q)) \in Seq(Tasks)
    BY SubSeqProperties
  <2>2. <<t>> \in Seq(Tasks) /\ Len(<<t>>) = 1
    OBVIOUS
  <2> DEFINE before == SubSeq(q, 1, k - 1) \o <<t>>
  <2>3. before \in Seq(Tasks) /\ Len(before) = Len(SubSeq(q, 1, k - 1)) + 1
    BY <2>1, <2>2, ConcatProperties
  <2> HIDE DEF before
  <2>4. before \o SubSeq(q, k, Len(q)) \in Seq(Tasks)
    BY <2>1, <2>3, ConcatProperties
  <2>5. Len(before \o SubSeq(q, k, Len(q))) = Len(before) + Len(SubSeq(q, k, Len(q)))
    BY <2>1, <2>3, ConcatProperties
  <2>6. Len(before \o SubSeq(q, k, Len(q))) # 0
    BY <2>1, <2>3, <2>5, LenProperties
  <2> QED BY <2>4, <2>6 DEF InsertAt, before
<1>3. FirstNormal(q) # 0 => FirstNormal(q) \in 1..Len(q)
  BY FirstNormalRange
<1> QED BY <1>1, <1>2, <1>3 DEF Enqueued

-----------------------------------------------------------------------------

\* The head of the drain loop establishes the invariant from any well-formed
\* queue, when no other send is on its way.
LEMMA DrainKeeps ==
  ASSUME fastPath \in BOOLEAN,
         NEW q \in Seq(Tasks), NEW s \in 0..MaxHighStreak, NEW p \in Nat,
         fastPath => p <= s,
         Drain(q, s, p, {})
  PROVE  IInv'
<1>1. MaxHighStreak \in Nat \ {0}
  BY QueueAssumption
<1>2. CASE q = <<>>
  BY <1>1, <1>2 DEF Drain, Stopped, IInv, TypeOK, OneLoop, Capped
<1>3. CASE q # <<>>
  <2> DEFINE k == NextIndex(q, s)
  <2>1. k \in 1..Len(q)
    BY <1>1, <1>3, NextIndexRange
  <2>2. RemoveAt(q, k) \in Seq(Tasks) /\ q[k] \in Tasks
    BY <2>1, RemoveAtType
  <2>3. fastPath /\ FirstNormal(q) # 0 /\ s >= MaxHighStreak => ~IsHigh(q[k])
    BY <1>3, TakesNormal DEF NextIndex, Due
  <2>4. /\ queue' = RemoveAt(q, k) /\ running' = TRUE /\ sending' = {q[k]}
        /\ passing' = (IsHigh(q[k]) /\ FirstNormal(q) # 0)
        /\ passed' = (IF IsHigh(q[k]) THEN p ELSE 0)
        /\ streak' = s /\ fastPath' = fastPath
    BY <1>3 DEF Drain
  <2> HIDE DEF k
  <2>5. TypeOK'
    BY <2>2, <2>4 DEF TypeOK, IsHigh
  <2>6. OneLoop'
    BY <2>4 DEF OneLoop
  <2>7. ASSUME fastPath
        PROVE  passed' <= streak' /\ (passing' => streak' < MaxHighStreak)
    <3>1. passed' <= streak'
      BY <2>4, <2>7
    <3>2. passing' => ~ (s >= MaxHighStreak)
      BY <2>3, <2>4, <2>7
    <3> QED BY <1>1, <2>4, <3>1, <3>2
  <2>8. \A t \in sending' : ~IsHigh(t) => passed' = 0 /\ ~passing'
    BY <2>4
  <2>9. Capped'
    BY <2>4, <2>7, <2>8 DEF Capped, IsHigh
  <2> QED BY <2>5, <2>6, <2>9 DEF IInv
<1> QED BY <1>2, <1>3

THEOREM InitIInv == Init => IInv
<1> SUFFICES ASSUME Init PROVE IInv
  OBVIOUS
<1>1. TypeOK
  <2>1. queue \in Seq(Tasks)
    BY EmptySeq DEF Init
  <2>2. fastPath \in BOOLEAN /\ running \in BOOLEAN /\ passing \in BOOLEAN
    BY Zenon DEF Init
  <2>3. streak \in 0..MaxHighStreak /\ passed \in Nat
    BY QueueAssumption DEF Init
  <2> QED BY <2>1, <2>2, <2>3 DEF Init, TypeOK
<1>2. OneLoop /\ Capped
  BY QueueAssumption DEF Init, OneLoop, Capped
<1> QED BY <1>1, <1>2 DEF IInv

LEMMA EnqueueKeeps ==
  ASSUME IInv, NEW t \in Tasks, Enqueue(t)
  PROVE  IInv'
<1>1. Enqueued(queue, t) \in Seq(Tasks) /\ Enqueued(queue, t) # <<>>
  BY EnqueuedType DEF IInv, TypeOK
<1>2. CASE MayDrain
  <2>1. sending = {}
    BY <1>2 DEF MayDrain, IInv, OneLoop
  <2>2. Drain(Enqueued(queue, t), streak, passed, {})
    BY <1>2, <2>1 DEF Enqueue
  <2> QED BY <1>1, <2>2, DrainKeeps DEF IInv, TypeOK, Capped
<1>3. CASE ~MayDrain
  BY <1>1, <1>3 DEF Enqueue, MayDrain, IInv, TypeOK, OneLoop, Capped
<1> QED BY <1>2, <1>3

\* After the only send settles, no other is on its way.
LEMMA SettledAlone ==
  ASSUME IInv, NEW t \in sending
  PROVE  sending \ {t} = {}
BY DEF IInv, OneLoop

LEMMA ResolveKeeps ==
  ASSUME IInv, NEW t \in Tasks, Resolve(t)
  PROVE  IInv'
<1> DEFINE s == Counted(streak, t)
           p == OneMorePassed(passed)
<1>0. MaxHighStreak \in Nat \ {0} /\ streak \in 0..MaxHighStreak /\ passed \in Nat
  BY QueueAssumption DEF IInv, TypeOK
<1>1. s \in 0..MaxHighStreak /\ p \in Nat
  BY <1>0 DEF Counted, OneMorePassed
<1>2. fastPath => p <= s
  <2> SUFFICES ASSUME fastPath PROVE p <= s
    OBVIOUS
  <2>1. passed <= streak /\ (passing => streak < MaxHighStreak)
    BY DEF IInv, Capped
  <2>2. ~IsHigh(t) => passed = 0 /\ ~passing
    BY DEF Resolve, IInv, Capped
  <2> QED BY <1>0, <2>1, <2>2 DEF Counted, OneMorePassed
<1>3. t \in sending /\ Drain(queue, s, p, sending \ {t})
  BY DEF Resolve
<1>4. Drain(queue, s, p, {})
  BY <1>3, SettledAlone
<1> HIDE DEF s, p
<1> QED BY <1>1, <1>2, <1>4, DrainKeeps DEF IInv, TypeOK

LEMMA RejectKeeps ==
  ASSUME IInv, NEW t \in Tasks, Reject(t)
  PROVE  IInv'
<1>1. t \in sending /\ Drain(queue, streak, passed, sending \ {t})
  BY DEF Reject
<1>2. Drain(queue, streak, passed, {})
  BY <1>1, SettledAlone
<1> QED BY <1>2, DrainKeeps DEF IInv, TypeOK, Capped

THEOREM NextIInv == IInv /\ [Next]_vars => IInv'
<1> SUFFICES ASSUME IInv, [Next]_vars
             PROVE  IInv'
  OBVIOUS
<1>1. CASE Next
  BY <1>1, EnqueueKeeps, ResolveKeeps, RejectKeeps DEF Next
<1>2. CASE UNCHANGED vars
  BY <1>2 DEF vars, IInv, TypeOK, OneLoop, Capped
<1> QED BY <1>1, <1>2

THEOREM InductiveInvariant == Spec => []IInv
BY InitIInv, NextIInv, PTL DEF Spec

\* One send at a time, and a loop for every queued task.
THEOREM OneLoopHolds == Spec => []OneLoop
<1>1. IInv => OneLoop
  BY DEF IInv
<1> QED BY <1>1, InductiveInvariant, PTL

\* The cap bounds overtaking.
THEOREM BoundedOvertakingHolds == Spec => []BoundedOvertaking
<1>1. IInv => BoundedOvertaking
  BY QueueAssumption DEF IInv, TypeOK, Capped, BoundedOvertaking
<1> QED BY <1>1, InductiveInvariant, PTL

-----------------------------------------------------------------------------
(***************************************************************************)
(* The write queue implements the two-class queue: a call is put in behind *)
(* all of its priority, and what is taken is the first of its priority,    *)
(* because no task is queued twice and, on the fast path, the high ones    *)
(* come first.                                                             *)
(***************************************************************************)

\* Sequence r is q with t put in at position k, and q without what stands there.
PutIn(q, r, k, t) ==
    /\ r \in Seq(Tasks) /\ Len(r) = Len(q) + 1
    /\ \A i \in 1..Len(r) : r[i] = IF i < k THEN q[i] ELSE IF i = k THEN t ELSE q[i - 1]
TakenOut(q, r, k) ==
    /\ r \in Seq(Tasks) /\ Len(q) = Len(r) + 1
    /\ \A i \in 1..Len(r) : r[i] = IF i < k THEN q[i] ELSE q[i + 1]

LEMMA AppendPuts ==
  ASSUME NEW q \in Seq(Tasks), NEW t \in Tasks
  PROVE  PutIn(q, Append(q, t), Len(q) + 1, t)
BY AppendProperties DEF PutIn

LEMMA JoinedType ==
  ASSUME NEW a \in Seq(Tasks), NEW b \in Seq(Tasks)
  PROVE  a \o b \in Seq(Tasks) /\ Len(a \o b) = Len(a) + Len(b)
BY ConcatProperties

LEMMA JoinedAt ==
  ASSUME NEW a \in Seq(Tasks), NEW b \in Seq(Tasks), NEW i \in 1..Len(a) + Len(b)
  PROVE  (a \o b)[i] = IF i <= Len(a) THEN a[i] ELSE b[i - Len(a)]
BY ConcatProperties

LEMMA InsertAtPuts ==
  ASSUME NEW q \in Seq(Tasks), NEW k \in 1..Len(q), NEW t \in Tasks
  PROVE  PutIn(q, InsertAt(q, k, t), k, t)
<1> DEFINE a == SubSeq(q, 1, k - 1)
           b == SubSeq(q, k, Len(q))
<1>0. Len(q) \in Nat
  OBVIOUS
<1>1. a \in Seq(Tasks) /\ Len(a) = k - 1 /\ \A i \in 1..k - 1 : a[i] = q[i]
  BY <1>0, SubSeqProperties
<1>2. b \in Seq(Tasks) /\ Len(b) = Len(q) - k + 1 /\ \A i \in 1..Len(q) - k + 1 : b[i] = q[k + i - 1]
  BY <1>0, SubSeqProperties
<1>3. <<t>> \in Seq(Tasks) /\ Len(<<t>>) = 1 /\ <<t>>[1] = t
  OBVIOUS
<1> HIDE DEF a, b
<1> DEFINE c == a \o <<t>>
<1>4. c \in Seq(Tasks) /\ Len(c) = k /\ \A i \in 1..k : c[i] = IF i < k THEN q[i] ELSE t
  BY <1>0, <1>1, <1>3, ConcatProperties
<1> HIDE DEF c
<1> DEFINE d == c \o b
<1>5. d \in Seq(Tasks) /\ Len(d) = Len(c) + Len(b)
  BY <1>2, <1>4, JoinedType
<1>6. Len(c) + Len(b) = Len(q) + 1
  BY <1>0, <1>2, <1>4
<1>7. ASSUME NEW i \in 1..Len(q) + 1
      PROVE  d[i] = IF i <= k THEN c[i] ELSE b[i - k]
  <2>1. d[i] = IF i <= Len(c) THEN c[i] ELSE b[i - Len(c)]
    BY <1>2, <1>4, <1>6, JoinedAt
  <2> HIDE DEF d
  <2> QED BY <1>4, <2>1
<1> HIDE DEF d
<1>8. \A i \in 1..Len(q) + 1 : i > k => b[i - k] = q[i - 1]
  <2> TAKE i \in 1..Len(q) + 1
  <2> HAVE i > k
  <2>1. i - k \in 1..Len(q) - k + 1 /\ k + (i - k) - 1 = i - 1
    BY <1>0
  <2> QED BY <1>2, <2>1
<1>9. PutIn(q, d, k, t)
  <2>1. ASSUME NEW i \in 1..Len(q) + 1
        PROVE  d[i] = IF i < k THEN q[i] ELSE IF i = k THEN t ELSE q[i - 1]
    <3>1. CASE i <= k
      BY <1>0, <1>4, <1>7, <3>1
    <3>2. CASE i > k
      BY <1>0, <1>7, <1>8, <3>2
    <3> QED BY <1>0, <3>1, <3>2
  <2> QED BY <1>5, <1>6, <2>1 DEF PutIn
<1> QED BY <1>9 DEF InsertAt, a, b, c, d

LEMMA RemoveAtTakes ==
  ASSUME NEW q \in Seq(Tasks), NEW k \in 1..Len(q)
  PROVE  TakenOut(q, RemoveAt(q, k), k)
<1> DEFINE a == SubSeq(q, 1, k - 1)
           b == SubSeq(q, k + 1, Len(q))
<1>0. Len(q) \in Nat
  OBVIOUS
<1>1. a \in Seq(Tasks) /\ Len(a) = k - 1 /\ \A i \in 1..k - 1 : a[i] = q[i]
  BY <1>0, SubSeqProperties
<1>2. b \in Seq(Tasks) /\ Len(b) = Len(q) - k /\ \A i \in 1..Len(q) - k : b[i] = q[k + i]
  BY <1>0, SubSeqProperties
<1> HIDE DEF a, b
<1> DEFINE d == a \o b
<1>3. d \in Seq(Tasks) /\ Len(d) = Len(q) - 1 /\ Len(a) + Len(b) = Len(q) - 1
  <2>1. d \in Seq(Tasks) /\ Len(d) = Len(a) + Len(b)
    BY <1>1, <1>2, JoinedType
  <2>2. Len(a) + Len(b) = Len(q) - 1
    BY <1>0, <1>1, <1>2
  <2> QED BY <2>1, <2>2
<1>4. ASSUME NEW i \in 1..Len(q) - 1
      PROVE  d[i] = IF i < k THEN a[i] ELSE b[i - (k - 1)]
  <2>1. d[i] = IF i <= Len(a) THEN a[i] ELSE b[i - Len(a)]
    BY <1>1, <1>2, <1>3, JoinedAt
  <2> HIDE DEF d
  <2> QED BY <1>0, <1>1, <2>1
<1> HIDE DEF d
<1>5. \A i \in 1..Len(q) - 1 : i >= k => b[i - (k - 1)] = q[i + 1]
  <2> TAKE i \in 1..Len(q) - 1
  <2> HAVE i >= k
  <2>1. i - (k - 1) \in 1..Len(q) - k /\ k + (i - (k - 1)) = i + 1
    BY <1>0
  <2> QED BY <1>2, <2>1
<1>6. TakenOut(q, d, k)
  <2>1. ASSUME NEW i \in 1..Len(q) - 1
        PROVE  d[i] = IF i < k THEN q[i] ELSE q[i + 1]
    BY <1>0, <1>1, <1>4, <1>5
  <2>2. Len(q) = Len(d) + 1 /\ 1..Len(d) = 1..Len(q) - 1
    BY <1>0, <1>3
  <2> QED BY <1>3, <2>1, <2>2 DEF TakenOut
<1> QED BY <1>6 DEF RemoveAt, a, b, d

-----------------------------------------------------------------------------
\* No task twice; on the fast path the high tasks come first.
Distinct(q) == \A i, j \in DOMAIN q : q[i] = q[j] => i = j
HighFirst(q) == \A i, j \in DOMAIN q : i < j /\ IsHigh(q[j]) => IsHigh(q[i])
Ordered == Distinct(queue) /\ (fastPath => HighFirst(queue))

Same(t, u) == IsHigh(t) <=> IsHigh(u)

LEMMA Members ==
  ASSUME NEW q \in Seq(Tasks)
  PROVE  DOMAIN q = 1..Len(q) /\ Len(q) \in Nat
         /\ \A t : t \in ToSet(q) <=> \E i \in 1..Len(q) : q[i] = t
BY DEF ToSet

\* A new task that is put in behind all of its priority is behind these only.
LEMMA PutInBehind ==
  ASSUME NEW q \in Seq(Tasks), NEW t \in Tasks, NEW k \in 1..Len(q) + 1, NEW r,
         PutIn(q, r, k, t), Distinct(q), t \notin ToSet(q),
         \A i \in 1..Len(q) : i >= k => ~Same(q[i], t)
  PROVE  /\ Distinct(r)
         /\ ToSet(r) = ToSet(q) \cup {t}
         /\ Ahead(r) = Ahead(q) \cup {<<u, t>> : u \in {u \in ToSet(q) : Same(u, t)}}
<1>0. /\ DOMAIN q = 1..Len(q) /\ Len(q) \in Nat
      /\ DOMAIN r = 1..Len(q) + 1 /\ Len(r) = Len(q) + 1 /\ r \in Seq(Tasks)
      /\ \A i \in 1..Len(q) + 1 : r[i] = IF i < k THEN q[i] ELSE IF i = k THEN t ELSE q[i - 1]
  BY Members DEF PutIn
<1> DEFINE New(i) == IF i < k THEN i ELSE i + 1
<1>1. \A i \in 1..Len(q) : New(i) \in 1..Len(q) + 1 /\ New(i) # k /\ r[New(i)] = q[i] /\ q[i] # t
  BY <1>0, Members
<1>2. \A i \in 1..Len(q) + 1 : i # k => \E j \in 1..Len(q) : New(j) = i
  <2> TAKE i \in 1..Len(q) + 1
  <2> HAVE i # k
  <2>1. CASE i < k
    BY <1>0, <2>1
  <2>2. CASE i > k
    <3>1. i - 1 \in 1..Len(q) /\ New(i - 1) = i
      BY <1>0, <2>2
    <3> QED BY <3>1
  <2> QED BY <1>0, <2>1, <2>2
<1>3. r[k] = t /\ k \in 1..Len(q) + 1
  BY <1>0
<1>4. \A i, j \in 1..Len(q) : i < j <=> New(i) < New(j)
  BY <1>0
<1>8. \A i \in 1..Len(q) : New(i) < k <=> i < k
  BY <1>0
<1>9. \A i \in 1..Len(q) + 1 : (i # k => (~(i < k) => i > k))
  BY <1>0
<1> HIDE DEF New
<1>5. Distinct(r)
  <2> SUFFICES ASSUME NEW i \in 1..Len(q) + 1, NEW j \in 1..Len(q) + 1, r[i] = r[j]
               PROVE  i = j
    BY <1>0 DEF Distinct
  <2>1. CASE i = k \/ j = k
    BY <1>1, <1>2, <1>3, <2>1
  <2>2. CASE i # k /\ j # k
    <3>1. PICK m, n \in 1..Len(q) : New(m) = i /\ New(n) = j
      BY <1>2, <2>2
    <3>2. q[m] = q[n]
      BY <1>1, <3>1
    <3> QED BY <1>0, <3>1, <3>2 DEF Distinct
  <2> QED BY <2>1, <2>2
<1>6. ToSet(r) = ToSet(q) \cup {t}
  BY <1>0, <1>1, <1>2, <1>3, Members
<1>7. Ahead(r) = Ahead(q) \cup {<<u, t>> : u \in {u \in ToSet(q) : Same(u, t)}}
  <2> DEFINE B == {<<u, t>> : u \in {u \in ToSet(q) : Same(u, t)}}
  <2>1. ASSUME NEW x \in Ahead(q)
        PROVE  x \in Ahead(r)
    <3>1. PICK i, j \in 1..Len(q) : i < j /\ q[i] = x[1] /\ q[j] = x[2]
      BY <1>0, <2>1 DEF Ahead
    <3>2. r[New(i)] = x[1] /\ r[New(j)] = x[2] /\ New(i) < New(j)
      BY <1>1, <1>4, <3>1
    <3>3. x \in ToSet(r) \X ToSet(r) /\ (IsHigh(x[1]) <=> IsHigh(x[2]))
      BY <1>6, <2>1 DEF Ahead
    <3> QED BY <1>0, <1>1, <3>2, <3>3 DEF Ahead
  <2>2. ASSUME NEW u \in ToSet(q), Same(u, t)
        PROVE  <<u, t>> \in Ahead(r)
    <3>1. PICK i \in 1..Len(q) : q[i] = u
      BY Members
    <3>2. i < k
      BY <1>0, <2>2, <3>1
    <3>3. r[New(i)] = u /\ New(i) < k /\ New(i) \in 1..Len(q) + 1
      BY <1>1, <1>8, <3>1, <3>2
    <3>4. <<u, t>> \in ToSet(r) \X ToSet(r)
      BY <1>6
    <3> QED BY <1>0, <1>3, <2>2, <3>3, <3>4 DEF Ahead, Same
  <2>3. ASSUME NEW x \in Ahead(r)
        PROVE  x \in Ahead(q) \/ x \in B
    <3>1. x \in ToSet(r) \X ToSet(r) /\ Same(x[1], x[2]) /\ x = <<x[1], x[2]>>
      BY <2>3 DEF Ahead, Same
    <3>2. PICK i, j \in 1..Len(q) + 1 : i < j /\ r[i] = x[1] /\ r[j] = x[2]
      BY <1>0, <2>3 DEF Ahead
    <3>3. CASE i = k
      <4>1. PICK m \in 1..Len(q) : New(m) = j
        BY <1>0, <1>2, <3>2, <3>3
      <4>2. ~(m < k) /\ q[m] = x[2] /\ x[1] = t
        BY <1>0, <1>1, <1>3, <1>8, <3>2, <3>3, <4>1
      <4>3. ~Same(q[m], t)
        BY <1>0, <4>2
      <4> QED BY <3>1, <4>2, <4>3 DEF Same
    <3>4. CASE i # k /\ j = k
      <4>1. PICK m \in 1..Len(q) : New(m) = i
        BY <1>2, <3>2, <3>4
      <4>2. q[m] = x[1] /\ x[2] = t
        BY <1>1, <1>3, <3>2, <3>4, <4>1
      <4>3. x[1] \in ToSet(q)
        BY <4>2, Members
      <4> QED BY <3>1, <4>2, <4>3
    <3>5. CASE i # k /\ j # k
      <4>1. PICK m, n \in 1..Len(q) : New(m) = i /\ New(n) = j
        BY <1>2, <3>2, <3>5
      <4>2. q[m] = x[1] /\ q[n] = x[2] /\ m < n
        BY <1>1, <1>4, <3>2, <4>1
      <4>3. x \in ToSet(q) \X ToSet(q)
        BY <3>1, <4>2, Members
      <4> QED BY <1>0, <3>1, <4>2, <4>3 DEF Ahead, Same
    <3> QED BY <3>3, <3>4, <3>5
  <2> QED BY <2>1, <2>2, <2>3
<1> QED BY <1>5, <1>6, <1>7

\* What is taken out leaves the others as they were.
LEMMA TakenOutOnly ==
  ASSUME NEW q \in Seq(Tasks), NEW k \in 1..Len(q), NEW r, TakenOut(q, r, k), Distinct(q)
  PROVE  /\ Distinct(r) /\ (HighFirst(q) => HighFirst(r))
         /\ ToSet(r) = ToSet(q) \ {q[k]}
         /\ Ahead(r) = {p \in Ahead(q) : p[1] # q[k] /\ p[2] # q[k]}
<1>0. /\ DOMAIN q = 1..Len(q) /\ Len(q) \in Nat
      /\ DOMAIN r = 1..Len(q) - 1 /\ r \in Seq(Tasks)
      /\ \A i \in 1..Len(q) - 1 : r[i] = IF i < k THEN q[i] ELSE q[i + 1]
  BY Members DEF TakenOut
<1> DEFINE Old(i) == IF i < k THEN i ELSE i + 1
<1>1. \A i \in 1..Len(q) - 1 : Old(i) \in 1..Len(q) /\ Old(i) # k /\ r[i] = q[Old(i)]
  BY <1>0
<1>2. \A j \in 1..Len(q) : j # k => \E i \in 1..Len(q) - 1 : Old(i) = j
  <2> TAKE j \in 1..Len(q)
  <2> HAVE j # k
  <2>1. CASE j < k
    BY <1>0, <2>1
  <2>2. CASE j > k
    <3>1. j - 1 \in 1..Len(q) - 1 /\ Old(j - 1) = j
      BY <1>0, <2>2
    <3> QED BY <3>1
  <2> QED BY <1>0, <2>1, <2>2
<1>3. \A i, j \in 1..Len(q) - 1 : (i < j <=> Old(i) < Old(j)) /\ (Old(i) = Old(j) => i = j)
  BY <1>0
<1>4. \A i \in 1..Len(q) - 1 : q[Old(i)] # q[k]
  BY <1>0, <1>1 DEF Distinct
<1>9. r = [i \in 1..Len(q) - 1 |-> r[i]] /\ \A t : t \in ToSet(r) <=> \E i \in 1..Len(q) - 1 : r[i] = t
  BY <1>0, Members
<1> HIDE DEF Old
<1>5. Distinct(r)
  BY <1>0, <1>1, <1>3 DEF Distinct
<1>6. HighFirst(q) => HighFirst(r)
  BY <1>0, <1>1, <1>3 DEF HighFirst
<1>7. ToSet(r) = ToSet(q) \ {q[k]}
  <2>1. \A t : t \in ToSet(r) => t \in ToSet(q) \ {q[k]}
    BY <1>1, <1>4, <1>9, Members
  <2>2. \A t \in ToSet(q) \ {q[k]} : t \in ToSet(r)
    BY <1>1, <1>2, <1>9, Members
  <2> QED BY <2>1, <2>2
<1>8. Ahead(r) = {p \in Ahead(q) : p[1] # q[k] /\ p[2] # q[k]}
  <2>1. ASSUME NEW x \in Ahead(r)
        PROVE  x \in Ahead(q) /\ x[1] # q[k] /\ x[2] # q[k]
    <3>1. x \in ToSet(r) \X ToSet(r) /\ (IsHigh(x[1]) <=> IsHigh(x[2]))
      BY <2>1 DEF Ahead
    <3>2. PICK i, j \in 1..Len(q) - 1 : i < j /\ r[i] = x[1] /\ r[j] = x[2]
      BY <1>0, <2>1 DEF Ahead
    <3>3. q[Old(i)] = x[1] /\ q[Old(j)] = x[2] /\ Old(i) < Old(j)
      BY <1>1, <1>3, <3>2
    <3>4. x \in ToSet(q) \X ToSet(q) /\ x[1] # q[k] /\ x[2] # q[k]
      BY <1>7, <3>1
    <3> QED BY <1>0, <1>1, <3>1, <3>3, <3>4 DEF Ahead
  <2>2. ASSUME NEW x \in Ahead(q), x[1] # q[k], x[2] # q[k]
        PROVE  x \in Ahead(r)
    <3>1. x \in ToSet(q) \X ToSet(q) /\ (IsHigh(x[1]) <=> IsHigh(x[2]))
      BY <2>2 DEF Ahead
    <3>2. PICK i, j \in 1..Len(q) : i < j /\ q[i] = x[1] /\ q[j] = x[2]
      BY <1>0, <2>2 DEF Ahead
    <3>3. PICK m, n \in 1..Len(q) - 1 : Old(m) = i /\ Old(n) = j
      BY <1>2, <2>2, <3>2
    <3>4. r[m] = x[1] /\ r[n] = x[2] /\ m < n
      BY <1>1, <1>3, <3>2, <3>3
    <3>5. x \in ToSet(r) \X ToSet(r)
      BY <1>7, <2>2, <3>1
    <3> QED BY <1>0, <3>1, <3>4, <3>5 DEF Ahead
  <2> QED BY <2>1, <2>2
<1> QED BY <1>5, <1>6, <1>7, <1>8

-----------------------------------------------------------------------------
\* A call is put in behind all of its priority.
LEMMA EnqueuedBehind ==
  ASSUME NEW q \in Seq(Tasks), NEW t \in Tasks, fastPath => HighFirst(q)
  PROVE  \E k \in 1..Len(q) + 1 :
           /\ PutIn(q, Enqueued(q, t), k, t)
           /\ \A i \in 1..Len(q) : i >= k => ~Same(q[i], t)
           /\ fastPath => HighFirst(Enqueued(q, t))
<1>0. /\ DOMAIN q = 1..Len(q) /\ Len(q) \in Nat
      /\ FirstNormal(q) \in 0..Len(q)
  BY FirstNormalRange
<1> DEFINE n == FirstNormal(q)
<1>1. CASE fastPath /\ IsHigh(t) /\ n # 0
  <2> DEFINE r == InsertAt(q, n, t)
  <2>1. Enqueued(q, t) = r /\ n \in 1..Len(q) /\ HighFirst(q)
    BY <1>0, <1>1 DEF Enqueued
  <2>2. PutIn(q, r, n, t)
    BY <2>1, InsertAtPuts
  <2>3. ~IsHigh(q[n])
    BY <1>1, TakesNormal
  <2> HIDE DEF n, r
  <2>4. \A i \in 1..Len(q) : i >= n => ~IsHigh(q[i])
    BY <1>0, <2>1, <2>3 DEF HighFirst
  <2>5. \A i \in 1..Len(q) : i < n => IsHigh(q[i])
    BY <1>0, <2>1, HighBefore DEF n
  <2>6. HighFirst(r)
    <3> SUFFICES ASSUME NEW i \in 1..Len(q) + 1, NEW j \in 1..Len(q) + 1, i < j, IsHigh(r[j])
                 PROVE  IsHigh(r[i])
      BY <1>0, <2>2 DEF HighFirst, PutIn
    <3>1. /\ r[i] = IF i < n THEN q[i] ELSE IF i = n THEN t ELSE q[i - 1]
          /\ r[j] = IF j < n THEN q[j] ELSE IF j = n THEN t ELSE q[j - 1]
      BY <1>0, <2>2 DEF PutIn
    <3>2. j <= n
      <4> SUFFICES ASSUME j > n PROVE FALSE
        BY <2>1
      <4>1. j - 1 \in 1..Len(q) /\ j - 1 >= n /\ r[j] = q[j - 1]
        BY <1>0, <2>1, <3>1
      <4> QED BY <2>4, <4>1
    <3>3. i < n /\ i \in 1..Len(q)
      BY <1>0, <2>1, <3>2
    <3> QED BY <2>5, <3>1, <3>3
  <2>7. \A i \in 1..Len(q) : i >= n => ~Same(q[i], t)
    BY <1>1, <2>4 DEF Same
  <2>8. n \in 1..Len(q) + 1
    BY <1>0, <2>1
  <2> QED BY <2>1, <2>2, <2>6, <2>7, <2>8
<1>2. CASE ~(fastPath /\ IsHigh(t) /\ n # 0)
  <2> DEFINE r == Append(q, t)
             m == Len(q) + 1
  <2>1. Enqueued(q, t) = r /\ PutIn(q, r, m, t)
    BY <1>2, AppendPuts DEF Enqueued
  <2> HIDE DEF r
  <2>2. m \in 1..Len(q) + 1 /\ \A i \in 1..Len(q) : ~(i >= m)
    BY <1>0
  <2>3. ASSUME fastPath
        PROVE  HighFirst(r)
    <3> SUFFICES ASSUME NEW i \in 1..Len(q) + 1, NEW j \in 1..Len(q) + 1, i < j, IsHigh(r[j])
                 PROVE  IsHigh(r[i])
      BY <1>0, <2>1 DEF HighFirst, PutIn
    <3>1. i \in 1..Len(q) /\ r[i] = q[i]
      BY <1>0, <2>1 DEF PutIn
    <3>2. CASE j = m
      <4>1. IsHigh(t)
        BY <1>0, <2>1, <3>2 DEF PutIn
      <4>2. n = 0
        BY <1>2, <2>3, <4>1
      <4> HIDE DEF n
      <4> QED BY <3>1, <4>2, HighBefore DEF n
    <3>3. CASE j # m
      <4>1. j \in 1..Len(q) /\ r[j] = q[j]
        BY <1>0, <2>1, <3>3 DEF PutIn, m
      <4> QED BY <1>0, <2>3, <3>1, <4>1 DEF HighFirst
    <3> QED BY <3>2, <3>3
  <2> HIDE DEF m
  <2> QED BY <2>1, <2>2, <2>3
<1> QED BY <1>1, <1>2

\* What is sent next is the first of its priority.
LEMMA NextIsFirst ==
  ASSUME NEW q \in Seq(Tasks), q # <<>>, NEW s \in Nat, Distinct(q),
         NEW u \in ToSet(q)
  PROVE  <<u, q[NextIndex(q, s)]>> \notin Ahead(q)
<1> DEFINE k == NextIndex(q, s)
<1>0. DOMAIN q = 1..Len(q) /\ Len(q) \in Nat /\ k \in 1..Len(q)
  BY NextIndexRange
<1>1. ASSUME NEW i \in 1..Len(q), i < k
      PROVE  ~Same(q[i], q[k])
  <2>1. k = FirstNormal(q) /\ FirstNormal(q) # 0
    BY <1>0, <1>1 DEF NextIndex
  <2>2. ~IsHigh(q[k])
    BY <2>1, TakesNormal
  <2>3. IsHigh(q[i])
    <3> HIDE DEF k
    <3> QED BY <1>0, <1>1, <2>1, HighBefore
  <2> QED BY <2>2, <2>3 DEF Same
<1> SUFFICES ASSUME <<u, q[k]>> \in Ahead(q)
             PROVE  FALSE
  OBVIOUS
<1> HIDE DEF k
<1>2. PICK i, j \in 1..Len(q) : i < j /\ q[i] = u /\ q[j] = q[k]
  BY <1>0 DEF Ahead
<1>3. j = k
  BY <1>0, <1>2 DEF Distinct
<1>4. Same(u, q[k])
  BY DEF Ahead, Same
<1> QED BY <1>1, <1>2, <1>3, <1>4

\* A turn of the drain loop, seen from the two-class queue.
LEMMA DrainTakes ==
  ASSUME NEW q \in Seq(Tasks), NEW s \in Nat, NEW p, Drain(q, s, p, {}),
         Distinct(q), fastPath => HighFirst(q)
  PROVE  /\ Ordered'
         /\ \/ q = <<>> /\ queue' = q /\ sending' = {}
            \/ \E t \in ToSet(q) : /\ \A u \in ToSet(q) : <<u, t>> \notin Ahead(q)
                                   /\ sending' = {t}
                                   /\ ToSet(queue') = ToSet(q) \ {t}
                                   /\ Ahead(queue') = {x \in Ahead(q) : x[1] # t /\ x[2] # t}
<1>0. fastPath' = fastPath
  BY DEF Drain
<1>1. CASE q = <<>>
  <2>1. queue' = q /\ sending' = {}
    BY <1>1 DEF Drain
  <2> QED BY <1>0, <1>1, <2>1 DEF Ordered
<1>2. CASE q # <<>>
  <2> DEFINE k == NextIndex(q, s)
  <2>1. k \in 1..Len(q)
    BY <1>2, NextIndexRange
  <2>2. queue' = RemoveAt(q, k) /\ sending' = {q[k]}
    BY <1>2 DEF Drain
  <2>3. \A u \in ToSet(q) : <<u, q[k]>> \notin Ahead(q)
    BY <1>2, NextIsFirst
  <2> HIDE DEF k
  <2>4. TakenOut(q, queue', k)
    BY <2>1, <2>2, RemoveAtTakes
  <2>5. /\ Distinct(queue') /\ (HighFirst(q) => HighFirst(queue'))
        /\ ToSet(queue') = ToSet(q) \ {q[k]}
        /\ Ahead(queue') = {x \in Ahead(q) : x[1] # q[k] /\ x[2] # q[k]}
    BY <2>1, <2>4, TakenOutOnly
  <2>6. q[k] \in ToSet(q)
    BY <2>1, Members
  <2>7. Ordered'
    BY <1>0, <2>5 DEF Ordered
  <2> QED BY <2>2, <2>3, <2>5, <2>6, <2>7
<1> QED BY <1>1, <1>2

LEMMA SubmitMaps ==
  ASSUME IInv, Ordered, NEW t \in Tasks, Enqueue(t)
  PROVE  Ordered' /\ Classes!Submit(t)
<1>0. queue \in Seq(Tasks) /\ t \notin ToSet(queue) /\ t \notin sending
      /\ Distinct(queue) /\ (fastPath => HighFirst(queue))
  BY DEF IInv, TypeOK, Ordered, Enqueue
<1> DEFINE r == Enqueued(queue, t)
<1>1. PICK k \in 1..Len(queue) + 1 : /\ PutIn(queue, r, k, t)
                                     /\ \A i \in 1..Len(queue) : i >= k => ~Same(queue[i], t)
                                     /\ fastPath => HighFirst(r)
  BY <1>0, EnqueuedBehind
<1>2. r \in Seq(Tasks)
  BY <1>1 DEF PutIn
<1>3. /\ Distinct(r) /\ ToSet(r) = ToSet(queue) \cup {t}
      /\ Ahead(r) = Ahead(queue) \cup {<<u, t>> : u \in {u \in ToSet(queue) : Same(u, t)}}
  BY <1>0, <1>1, PutInBehind
<1>4. CASE MayDrain
  <2>1. sending = {} /\ queue = <<>>
    BY <1>4 DEF MayDrain, IInv, OneLoop
  <2>2. Drain(r, streak, passed, {})
    BY <1>4, <2>1 DEF Enqueue
  <2>3. ToSet(queue) = {}
    BY <2>1 DEF ToSet
  <2>4. Ahead(queue) = {}
    BY <2>3 DEF Ahead
  <2>5. r # <<>> /\ streak \in Nat
    BY <1>3, <2>3, QueueAssumption DEF ToSet, IInv, TypeOK
  <2> HIDE DEF r
  <2>6. /\ Ordered'
        /\ \E u \in ToSet(r) : /\ sending' = {u} /\ ToSet(queue') = ToSet(r) \ {u}
    BY <1>1, <1>2, <1>3, <2>2, <2>5, DrainTakes
  <2>7. sending' = {t} /\ ToSet(queue') = {}
    BY <1>3, <2>3, <2>6
  <2>8. Ahead(queue') = {}
    BY <2>7 DEF Ahead
  <2> QED BY <1>0, <2>1, <2>3, <2>4, <2>6, <2>7, <2>8 DEF Classes!Submit
<1>5. CASE ~MayDrain
  <2>1. sending # {}
    BY <1>5 DEF MayDrain, IInv, OneLoop
  <2>2. queue' = r /\ sending' = sending /\ fastPath' = fastPath
    BY <1>5 DEF Enqueue
  <2> HIDE DEF r
  <2>3. Ordered'
    BY <1>1, <1>3, <2>2 DEF Ordered
  <2>4. {u \in ToSet(queue) : Same(u, t)} = {u \in ToSet(queue) : Classes!SamePriority(u, t)}
    BY DEF Same, IsHigh, Classes!SamePriority
  <2> QED BY <1>0, <1>3, <2>1, <2>2, <2>3, <2>4 DEF Classes!Submit
<1> QED BY <1>4, <1>5

LEMMA ProceedMaps ==
  ASSUME IInv, Ordered, NEW t \in sending, NEW s \in Nat, NEW p,
         Drain(queue, s, p, sending \ {t})
  PROVE  Ordered' /\ Classes!Proceed
<1>0. queue \in Seq(Tasks) /\ Distinct(queue) /\ (fastPath => HighFirst(queue))
      /\ sending # {} /\ sending \ {t} = {}
  BY DEF IInv, TypeOK, OneLoop, Ordered
<1>1. Drain(queue, s, p, {})
  BY <1>0
<1>2. /\ Ordered'
      /\ \/ queue = <<>> /\ queue' = queue /\ sending' = {}
         \/ \E u \in ToSet(queue) :
               /\ \A v \in ToSet(queue) : <<v, u>> \notin Ahead(queue)
               /\ sending' = {u}
               /\ ToSet(queue') = ToSet(queue) \ {u}
               /\ Ahead(queue') = {x \in Ahead(queue) : x[1] # u /\ x[2] # u}
  BY <1>0, <1>1, DrainTakes
<1>3. CASE queue = <<>> /\ queue' = queue /\ sending' = {}
  <2>1. ToSet(queue) = {}
    BY <1>3 DEF ToSet
  <2> QED BY <1>0, <1>2, <1>3, <2>1 DEF Classes!Proceed
<1> QED BY <1>0, <1>2, <1>3 DEF Classes!Proceed, Classes!First

LEMMA ClassesStep ==
  ASSUME IInv, Ordered, [Next]_vars
  PROVE  Ordered' /\ [Classes!Next]_Classes!vars
<1>1. ASSUME NEW t \in Tasks, Enqueue(t)
      PROVE  Ordered' /\ Classes!Next
  BY <1>1, SubmitMaps DEF Classes!Next
<1>2. ASSUME NEW t \in Tasks, Resolve(t) \/ Reject(t)
      PROVE  Ordered' /\ Classes!Next
  <2>1. streak \in Nat /\ Counted(streak, t) \in Nat
    BY QueueAssumption DEF IInv, TypeOK, Counted
  <2>2. t \in sending /\ \E s \in Nat : \E p : Drain(queue, s, p, sending \ {t})
    BY <1>2, <2>1 DEF Resolve, Reject
  <2> QED BY <2>2, ProceedMaps DEF Classes!Next
<1>3. CASE UNCHANGED vars
  BY <1>3 DEF vars, Ordered, Classes!vars
<1> QED BY <1>1, <1>2, <1>3 DEF Next

LEMMA ClassesInit ==
  ASSUME Init
  PROVE  Ordered /\ Classes!Init
<1>1. queue = <<>> /\ sending = {}
  BY DEF Init
<1>2. ToSet(queue) = {} /\ DOMAIN queue = {}
  BY <1>1 DEF ToSet
<1>3. Ahead(queue) = {}
  BY <1>2 DEF Ahead
<1> QED BY <1>1, <1>2, <1>3 DEF Ordered, Distinct, HighFirst, Classes!Init

\* The write queue implements the two-class queue.
THEOREM ImplementsTwoClassesHolds == Spec => ImplementsTwoClasses
<1>1. Init => Ordered /\ Classes!Init
  BY ClassesInit
<1>2. IInv /\ Ordered /\ [Next]_vars => Ordered' /\ [Classes!Next]_Classes!vars
  BY ClassesStep
<1> QED BY <1>1, <1>2, InductiveInvariant, PTL DEF Spec, Classes!Spec, ImplementsTwoClasses

-----------------------------------------------------------------------------
(***************************************************************************)
(* Settlement of a job.                                                    *)
(***************************************************************************)

EntryShape == [known : BOOLEAN, winners : BOOLEAN, heard : Nat, worth : BOOLEAN,
               published : BOOLEAN, settled : BOOLEAN, due : BOOLEAN]

\* Where a handler is before it knows whether it is the one to publish; after it.
Before == {"idle", "hydrating"}
BeforeDeposit == {"relaying", "checking", "previewing", "depositing"}
After == BeforeDeposit \cup {"settling", "crediting"}

\* A process that opened the job has one entry of it, and every handler works on
\* that one.
OneEntry ==
    /\ entries \in [{1} -> EntryShape] /\ current = 1
    /\ handler \in [Handlers -> [at : Before \cup After, on : {0, 1}]]
    /\ \A h \in Handlers : handler[h].at # "idle" => handler[h].on = 1

\* One handler at most gets past the flag, and what it has done is the history.
OnePublisher ==
    /\ \A g, h \in Handlers : handler[g].at \in After /\ handler[h].at \in After => g = h
    /\ \A h \in Handlers :
         /\ handler[h].at \in After => entries[1].published
         /\ handler[h].at = "relaying" => relayed = 0
         /\ handler[h].at \in BeforeDeposit => deposited = 0
    /\ ~entries[1].published => relayed = 0 /\ deposited = 0
    /\ relayed <= 1 /\ deposited <= 1

\* While nothing fails, the one deposit is there until its settlement is mined.
DepositUsed ==
    /\ deposited = 0 => deposits = 0 /\ pool = 0 /\ ~settled
    /\ \A h \in Handlers : handler[h].at = "settling" => deposits = 1 /\ pool = 0 /\ ~settled
    /\ pool > 0 => pool = 1 /\ deposits = 1 /\ ~settled
    /\ deposits > 0 => pool > 0 \/ \E h \in Handlers : handler[h].at = "settling"

SettlementInv ==
    /\ opened \in BOOLEAN /\ {relayed, deposited, deposits, pool, troubles} \subseteq Nat
    /\ opened => OneEntry /\ OnePublisher /\ (troubles = 0 /\ payable => DepositUsed)

\* What a handler's step does to the handlers.
LEMMA HandlerGoes ==
  ASSUME OneEntry, NEW h \in Handlers, NEW p \in Before \cup After,
         Settlement!Goto(h, p), handler[h].at # "idle"
  PROVE  /\ handler' \in [Handlers -> [at : Before \cup After, on : {0, 1}]]
         /\ handler'[h].at = p /\ handler'[h].on = 1
         /\ \A g \in Handlers \ {h} : handler'[g] = handler[g]
BY DEF OneEntry, Settlement!Goto

LEMMA HandlerSet ==
  ASSUME OneEntry, NEW h \in Handlers, NEW p \in {"idle", "hydrating"},
         handler' = [handler EXCEPT ![h] = [at |-> p, on |-> IF p = "idle" THEN 0 ELSE 1]]
  PROVE  /\ handler' \in [Handlers -> [at : Before \cup After, on : {0, 1}]]
         /\ handler'[h].at = p /\ (p # "idle" => handler'[h].on = 1)
         /\ \A g \in Handlers \ {h} : handler'[g] = handler[g]
BY DEF OneEntry, Before

LEMMA PlacesApart == Before \cap After = {} /\ BeforeDeposit \subseteq After
BY DEF Before, After, BeforeDeposit

\* A handler goes on, ends or begins, and neither publishes nor pays.
Quietly(p, q) ==
    /\ q \in After => p \in After
    /\ q \in BeforeDeposit => p \in BeforeDeposit
    /\ q = "relaying" => p = "relaying"
    /\ q = "settling" <=> p = "settling"

LEMMA QuietStep ==
  ASSUME SettlementInv, opened, opened' = opened, OneEntry',
         \A g \in Handlers : Quietly(handler[g].at, handler'[g].at),
         UNCHANGED <<payable, settled, deposits, pool, relayed, deposited>>,
         troubles' \in Nat, troubles' = 0 => troubles = 0,
         entries[1].published => entries'[1].published
  PROVE  SettlementInv'
<1>1. /\ OneEntry /\ OnePublisher /\ (troubles' = 0 /\ payable => DepositUsed)
      /\ {relayed, deposited, deposits, pool} \subseteq Nat
  BY DEF SettlementInv
<1>2. OnePublisher'
  <2>1. /\ \A g, f \in Handlers : handler'[g].at \in After /\ handler'[f].at \in After => g = f
        /\ \A g \in Handlers : /\ handler'[g].at \in After => entries'[1].published
                               /\ handler'[g].at = "relaying" => relayed = 0
                               /\ handler'[g].at \in BeforeDeposit => deposited = 0
    BY <1>1 DEF OnePublisher, Quietly
  <2>2. ~entries'[1].published => relayed = 0 /\ deposited = 0
    BY <1>1 DEF OnePublisher
  <2> QED BY <1>1, <2>1, <2>2 DEF OnePublisher
<1>3. troubles' = 0 /\ payable => DepositUsed'
  BY <1>1 DEF DepositUsed, Quietly
<1> QED BY <1>1, <1>2, <1>3 DEF SettlementInv

\* The same for a step of one handler.
LEMMA QuietHandler ==
  ASSUME SettlementInv, opened, opened' = opened, NEW h \in Handlers,
         handler' \in [Handlers -> [at : Before \cup After, on : {0, 1}]],
         \A g \in Handlers \ {h} : handler'[g] = handler[g],
         handler'[h].at # "idle" => handler'[h].on = 1,
         Quietly(handler[h].at, handler'[h].at),
         UNCHANGED <<payable, settled, deposits, pool, relayed, deposited>>,
         troubles' \in Nat, troubles' = 0 => troubles = 0,
         entries' \in [{1} -> EntryShape], current' = 1,
         entries[1].published => entries'[1].published
  PROVE  SettlementInv'
<1>1. OneEntry BY DEF SettlementInv
<1>2. OneEntry' BY <1>1 DEF OneEntry
<1>3. \A g \in Handlers : Quietly(handler[g].at, handler'[g].at)
  <2>1. \A p : Quietly(p, p) BY DEF Quietly
  <2> QED BY <2>1
<1> QED BY <1>2, <1>3, QuietStep

\* What a step costs in troubles.
LEMMA TroublesCounted ==
  ASSUME troubles \in Nat, Settlement!NoTrouble \/ Settlement!Trouble
  PROVE  troubles' \in Nat /\ (troubles' = 0 => troubles = 0)
BY DEF Settlement!NoTrouble, Settlement!Trouble

\* A process that lost the entry, or never had it, is not the one spoken of.
LEMMA NotOpened ==
  ASSUME SettlementInv, ~opened, Settlement!Next
  PROVE  SettlementInv'
<1> USE DEF Settlement!NoTrouble, Settlement!Trouble, Settlement!chain, Settlement!memory,
            Settlement!history
<1>1. /\ {relayed, deposited, deposits, pool, troubles} \subseteq Nat /\ opened = FALSE
  BY DEF SettlementInv
<1> DEFINE Good == /\ opened' = FALSE /\ relayed' \in Nat /\ deposited' \in Nat
                   /\ deposits' \in Nat /\ pool' \in Nat /\ troubles' \in Nat
<1>2. Good
  <2>1. CASE Settlement!HandleFindings BY <1>1, <2>1 DEF Settlement!HandleFindings
  <2>2. CASE Settlement!PublishTimer BY <1>1, <2>2 DEF Settlement!PublishTimer
  <2>3. CASE Settlement!WinnersSelected BY <1>1, <2>3 DEF Settlement!WinnersSelected
  <2>4. CASE Settlement!Mine BY <1>1, <2>4 DEF Settlement!Mine, Settlement!Refused
  <2>5. CASE Settlement!Restart BY <1>1, <2>5 DEF Settlement!Restart
  <2>6. ASSUME NEW h \in Handlers, Settlement!HandleReportPublished(h)
      PROVE  Good
    BY <1>1, <2>6 DEF Settlement!HandleReportPublished
  <2>7. ASSUME NEW h \in Handlers, Settlement!Handling(h)
      PROVE  Good
    <3>1. CASE Settlement!Hydrated(h) BY <1>1, <3>1 DEF Settlement!Hydrated
    <3>2. CASE Settlement!Relay(h) BY <1>1, <3>2 DEF Settlement!Relay
    <3>3. CASE Settlement!Check(h) BY <1>1, <3>3 DEF Settlement!Check
    <3>4. CASE Settlement!Preview(h) BY <1>1, <3>4 DEF Settlement!Preview
    <3>5. CASE Settlement!Deposit(h) BY <1>1, <3>5 DEF Settlement!Deposit
    <3>6. CASE Settlement!Settle(h) BY <1>1, <3>6 DEF Settlement!Settle
    <3>7. CASE Settlement!Credit(h) BY <1>1, <3>7 DEF Settlement!Credit
    <3> QED BY <2>7, <3>1, <3>2, <3>3, <3>4, <3>5, <3>6, <3>7 DEF Settlement!Handling
  <2> QED BY <2>1, <2>2, <2>3, <2>4, <2>5, <2>6, <2>7 DEF Settlement!Next
<1> QED BY <1>2 DEF SettlementInv

\* The one entry is found, and stays one whatever fields of it are set.
LEMMA EntryFound ==
  ASSUME OneEntry
  PROVE  /\ Settlement!Found = entries /\ Settlement!FoundAt = 1
         /\ entries[1] \in EntryShape
         /\ \A e \in EntryShape : /\ [entries EXCEPT ![1] = e] \in [{1} -> EntryShape]
                                  /\ [entries EXCEPT ![1] = e][1] = e
BY DEF OneEntry, Settlement!Found, Settlement!FoundAt

\* A handler that was idle begins with the only entry there is.
LEMMA HandlerBegins ==
  ASSUME SettlementInv, opened, opened' = opened, NEW h \in Handlers,
         handler[h].at = "idle", Settlement!Begin(h, 1),
         UNCHANGED <<payable, settled, deposits, pool, relayed, deposited>>,
         Settlement!NoTrouble,
         entries' \in [{1} -> EntryShape], current' = 1,
         entries[1].published => entries'[1].published
  PROVE  SettlementInv'
<1>1. OneEntry /\ troubles \in Nat BY DEF SettlementInv
<1>2. /\ handler' \in [Handlers -> [at : Before \cup After, on : {0, 1}]]
      /\ handler'[h].at = "hydrating" /\ handler'[h].on = 1
      /\ \A g \in Handlers \ {h} : handler'[g] = handler[g]
  BY <1>1, HandlerSet DEF Settlement!Begin
<1>3. Quietly(handler[h].at, handler'[h].at)
  BY <1>2 DEF Quietly, After, BeforeDeposit
<1> QED BY <1>1, <1>2, <1>3, QuietHandler, TroublesCounted

\* No handler moves.
LEMMA HandlersStay ==
  ASSUME SettlementInv, opened, opened' = opened, UNCHANGED handler,
         UNCHANGED <<payable, settled, deposits, pool, relayed, deposited>>,
         Settlement!NoTrouble,
         entries' \in [{1} -> EntryShape], current' = 1,
         entries[1].published => entries'[1].published
  PROVE  SettlementInv'
<1>1. OneEntry /\ troubles \in Nat BY DEF SettlementInv
<1>2. OneEntry' BY <1>1 DEF OneEntry
<1>3. \A g \in Handlers : Quietly(handler[g].at, handler'[g].at) BY DEF Quietly
<1> QED BY <1>1, <1>2, <1>3, QuietStep, TroublesCounted

\* An entry that has heard so much, of such worth.
Set(r, n, w) == [r EXCEPT !.known = TRUE, !.heard = n, !.worth = w]

LEMMA EntrySet ==
  ASSUME NEW r \in EntryShape, NEW n \in Nat, NEW w \in BOOLEAN
  PROVE  Set(r, n, w) \in EntryShape /\ Set(r, n, w).published = r.published
<1>1. ASSUME NEW k \in BOOLEAN
      PROVE  [r EXCEPT !.known = k, !.heard = n, !.worth = w] \in EntryShape
  BY DEF EntryShape
<1>2. ASSUME NEW k \in BOOLEAN
      PROVE  [r EXCEPT !.known = k, !.heard = n, !.worth = w].published = r.published
  BY DEF EntryShape
<1> QED BY <1>1, <1>2, Zenon DEF Set

LEMMA StillOpened ==
  ASSUME SettlementInv, opened, opened' = (opened /\ current # 0)
  PROVE  opened' = opened
<1>1. opened = TRUE BY DEF SettlementInv
<1>2. (current # 0) = TRUE BY DEF SettlementInv, OneEntry
<1> QED BY <1>1, <1>2, Zenon

LEMMA HandleFindingsKeeps ==
  ASSUME SettlementInv, opened, Settlement!HandleFindings
  PROVE  SettlementInv'
<1>1. OneEntry BY DEF SettlementInv
<1>2. opened' = opened
  BY <1>1, StillOpened DEF Settlement!HandleFindings
<1> DEFINE found == Settlement!Found
           at == Settlement!FoundAt
           Told(worth) == Set(found[at], found[at].heard + 1, found[at].worth \/ worth)
<1>3. PICK worth \in BOOLEAN :
        /\ entries' = [found EXCEPT ![at] = Told(worth)] /\ current' = at
        /\ \/ \E h \in Handlers : Settlement!At(h, "idle") /\ Settlement!Begin(h, at)
           \/ UNCHANGED handler
  BY Zenon DEF Settlement!HandleFindings, Set
<1> HIDE DEF found, at
<1>4. found = entries /\ at = 1 /\ entries[1] \in EntryShape
  BY <1>1, EntryFound DEF found, at
<1>5. Told(worth) \in EntryShape /\ Told(worth).published = entries[1].published
  <2>1. entries[1].heard + 1 \in Nat BY <1>4 DEF EntryShape
  <2>2. (entries[1].worth \/ worth) \in BOOLEAN OBVIOUS
  <2> QED BY ONLY <1>4, <2>1, <2>2, EntrySet, Zenon
<1>6. entries' \in [{1} -> EntryShape] /\ entries'[1].published = entries[1].published
  <2> HIDE DEF Told
  <2> QED BY <1>1, <1>3, <1>4, <1>5, EntryFound
<1>7. /\ UNCHANGED <<payable, settled, deposits, pool, relayed, deposited>> /\ Settlement!NoTrouble
      /\ current' = 1
      /\ \/ \E h \in Handlers : handler[h].at = "idle" /\ Settlement!Begin(h, 1)
         \/ UNCHANGED handler
  BY <1>3, <1>4 DEF Settlement!HandleFindings, Settlement!chain, Settlement!At
<1> QED BY <1>2, <1>6, <1>7, HandlerBegins, HandlersStay

LEMMA PublishTimerKeeps ==
  ASSUME SettlementInv, opened, Settlement!PublishTimer
  PROVE  SettlementInv'
<1>1. OneEntry BY DEF SettlementInv
<1>2. \/ \E h \in Handlers : handler[h].at = "idle" /\ Settlement!Begin(h, 1)
      \/ UNCHANGED handler
  BY <1>1 DEF OneEntry, Settlement!PublishTimer, Settlement!At
<1>3. /\ UNCHANGED <<payable, settled, deposits, pool, relayed, deposited, opened, entries, current>>
      /\ Settlement!NoTrouble
  BY DEF Settlement!PublishTimer, Settlement!chain, Settlement!history
<1>4. entries' \in [{1} -> EntryShape] /\ current' = 1 /\ entries' = entries
  BY <1>1, <1>3 DEF OneEntry
<1> QED BY <1>2, <1>3, <1>4, HandlerBegins, HandlersStay

LEMMA WinnersSelectedKeeps ==
  ASSUME SettlementInv, opened, Settlement!WinnersSelected
  PROVE  SettlementInv'
<1>1. OneEntry BY DEF SettlementInv
<1>2. entries' \in [{1} -> EntryShape] /\ entries'[1].published = entries[1].published
  BY <1>1 DEF OneEntry, EntryShape, Settlement!WinnersSelected
<1>3. /\ UNCHANGED <<payable, settled, deposits, pool, relayed, deposited, opened, handler, current>>
      /\ Settlement!NoTrouble
  BY DEF Settlement!WinnersSelected, Settlement!chain, Settlement!history
<1> QED BY <1>1, <1>2, <1>3, HandlersStay DEF OneEntry

LEMMA HandleReportPublishedKeeps ==
  ASSUME SettlementInv, opened, NEW h \in Handlers, Settlement!HandleReportPublished(h)
  PROVE  SettlementInv'
<1>1. OneEntry BY DEF SettlementInv
<1>2. handler[h].at = "idle" /\ Settlement!Begin(h, 1) /\ entries' = entries
  BY <1>1, EntryFound DEF Settlement!HandleReportPublished, Settlement!At
<1>3. /\ UNCHANGED <<payable, settled, deposits, pool, relayed, deposited, current>>
      /\ Settlement!NoTrouble /\ opened' = opened
  BY <1>1, StillOpened DEF Settlement!HandleReportPublished, Settlement!chain
<1> QED BY <1>1, <1>2, <1>3, HandlerBegins DEF OneEntry

\* Hydrated: the flag decides after the await who publishes.
LEMMA HydratedKeeps ==
  ASSUME SettlementInv, opened, NEW h \in Handlers, Settlement!Hydrated(h)
  PROVE  SettlementInv'
<1>1. /\ OneEntry /\ OnePublisher /\ (troubles = 0 /\ payable => DepositUsed)
      /\ {relayed, deposited, deposits, pool, troubles} \subseteq Nat
  BY DEF SettlementInv
<1>2. handler[h].at = "hydrating" /\ handler[h].on = 1 /\ Settlement!Entry(h) = entries[1]
  BY <1>1 DEF OneEntry, Settlement!Hydrated, Settlement!At, Settlement!Entry
<1>3. UNCHANGED <<payable, settled, deposits, pool, relayed, deposited, opened>>
  BY DEF Settlement!Hydrated, Settlement!chain, Settlement!history
<1>4. PICK e \in {Settlement!Learnt(entries[1]), entries[1]} :
        /\ Settlement!NoTrouble \/ Settlement!Trouble
        /\ current' \in {1, current}
        /\ IF e.published
           THEN Settlement!Ends(h) /\ entries' = [entries EXCEPT ![1] = e]
           ELSE Settlement!Goto(h, "relaying")
                /\ entries' = [entries EXCEPT ![1] = [e EXCEPT !.published = TRUE, !.due = e.worth]]
  BY <1>2 DEF Settlement!Hydrated, Settlement!Published
<1>5. e \in EntryShape /\ e.published = entries[1].published
  BY <1>1, EntryFound DEF EntryShape, Settlement!Learnt
<1>6. current' = 1 /\ troubles' \in Nat /\ (troubles' = 0 => troubles = 0)
  BY <1>1, <1>4, TroublesCounted DEF OneEntry
<1>7. CASE e.published
  <2>1. entries' \in [{1} -> EntryShape] /\ entries'[1].published
    BY <1>1, <1>4, <1>5, <1>7, EntryFound
  <2>2. /\ handler' \in [Handlers -> [at : Before \cup After, on : {0, 1}]]
        /\ handler'[h].at = "idle" /\ \A g \in Handlers \ {h} : handler'[g] = handler[g]
    BY <1>1, <1>4, <1>7, HandlerSet DEF Settlement!Ends, Settlement!Idle
  <2>3. Quietly(handler[h].at, handler'[h].at)
    BY <1>2, <2>2 DEF Quietly, After, BeforeDeposit
  <2> QED BY <1>3, <1>6, <2>1, <2>2, <2>3, QuietHandler
<1>8. CASE ~e.published
  <2>1. /\ [e EXCEPT !.published = TRUE, !.due = e.worth] \in EntryShape
        /\ [e EXCEPT !.published = TRUE, !.due = e.worth].published
    BY <1>5 DEF EntryShape
  <2>2. entries' \in [{1} -> EntryShape] /\ entries'[1].published
    BY <1>1, <1>4, <1>8, <2>1, EntryFound
  <2>3. /\ handler' \in [Handlers -> [at : Before \cup After, on : {0, 1}]]
        /\ handler'[h].at = "relaying" /\ handler'[h].on = 1
        /\ \A g \in Handlers \ {h} : handler'[g] = handler[g]
    BY <1>1, <1>2, <1>4, <1>8, HandlerGoes DEF After, BeforeDeposit
  <2>4. OneEntry' BY <1>1, <1>6, <2>2, <2>3 DEF OneEntry
  <2>5. \A g \in Handlers : handler[g].at \notin After
    BY <1>1, <1>5, <1>8 DEF OnePublisher
  <2>6. \A g \in Handlers : handler'[g].at \in After \cup BeforeDeposit => g = h
    BY <2>3, <2>5, PlacesApart
  <2>7. relayed = 0 /\ deposited = 0 BY <1>1, <1>5, <1>8 DEF OnePublisher
  <2>8. OnePublisher' BY <1>3, <2>2, <2>6, <2>7 DEF OnePublisher
  <2>9. troubles' = 0 /\ payable' => DepositUsed'
    <3>1. \A g \in Handlers : handler'[g].at = "settling" <=> handler[g].at = "settling"
      BY <1>2, <2>3
    <3> QED BY <1>1, <1>3, <1>6, <3>1 DEF DepositUsed
  <2> QED BY <1>1, <1>3, <1>6, <2>4, <2>8, <2>9 DEF SettlementInv
<1> QED BY <1>7, <1>8

\* The steps between the flag and the end that neither relay nor pay.
LEMMA CreditKeeps ==
  ASSUME SettlementInv, opened, NEW h \in Handlers, Settlement!Credit(h)
  PROVE  SettlementInv'
<1>1. OneEntry /\ troubles \in Nat BY DEF SettlementInv
<1>2. /\ UNCHANGED <<payable, settled, deposits, pool, relayed, deposited, opened, entries, current>>
      /\ Settlement!NoTrouble /\ handler[h].at = "crediting"
  BY DEF Settlement!Credit, Settlement!chain, Settlement!history, Settlement!At
<1>3. /\ handler' \in [Handlers -> [at : Before \cup After, on : {0, 1}]]
      /\ handler'[h].at = "idle" /\ \A g \in Handlers \ {h} : handler'[g] = handler[g]
  BY <1>1, HandlerSet DEF Settlement!Credit, Settlement!Ends, Settlement!Idle
<1>4. Quietly(handler[h].at, handler'[h].at)
  BY <1>2, <1>3 DEF Quietly, After, BeforeDeposit
<1> QED BY <1>1, <1>2, <1>3, <1>4, QuietHandler, TroublesCounted DEF OneEntry

LEMMA PreviewKeeps ==
  ASSUME SettlementInv, opened, NEW h \in Handlers, Settlement!Preview(h)
  PROVE  SettlementInv'
<1>1. OneEntry /\ troubles \in Nat BY DEF SettlementInv
<1>2. /\ UNCHANGED <<payable, settled, deposits, pool, relayed, deposited, opened, entries, current>>
      /\ Settlement!NoTrouble \/ Settlement!Trouble
      /\ handler[h].at = "previewing"
      /\ \E p \in {"depositing", "crediting"} : Settlement!Goto(h, p)
  BY DEF Settlement!Preview, Settlement!chain, Settlement!history, Settlement!At
<1>3. /\ handler' \in [Handlers -> [at : Before \cup After, on : {0, 1}]]
      /\ handler'[h].at \in {"depositing", "crediting"} /\ handler'[h].on = 1
      /\ \A g \in Handlers \ {h} : handler'[g] = handler[g]
  BY <1>1, <1>2, HandlerGoes DEF After, BeforeDeposit
<1>4. Quietly(handler[h].at, handler'[h].at)
  BY <1>2, <1>3 DEF Quietly, After, BeforeDeposit
<1> QED BY <1>1, <1>2, <1>3, <1>4, QuietHandler, TroublesCounted DEF OneEntry

\* Setting settled in the entry leaves published alone.
LEMMA EntryFlagged ==
  ASSUME OneEntry
  PROVE  /\ [entries EXCEPT ![1].settled = TRUE] \in [{1} -> EntryShape]
         /\ [entries EXCEPT ![1].settled = TRUE][1].published = entries[1].published
BY DEF OneEntry, EntryShape

LEMMA CheckKeeps ==
  ASSUME SettlementInv, opened, NEW h \in Handlers, Settlement!Check(h)
  PROVE  SettlementInv'
<1>1. OneEntry /\ troubles \in Nat BY DEF SettlementInv
<1>2. handler[h].at = "checking" /\ handler[h].on = 1
  BY <1>1 DEF OneEntry, Settlement!Check, Settlement!At
<1>3. /\ UNCHANGED <<payable, settled, deposits, pool, relayed, deposited, opened>>
      /\ Settlement!NoTrouble \/ Settlement!Trouble
      /\ \E p \in {"previewing", "crediting"} : Settlement!Goto(h, p)
      /\ \/ entries' = [entries EXCEPT ![1].settled = TRUE] /\ current' = 1
         \/ UNCHANGED <<entries, current>>
  BY <1>2 DEF Settlement!Check, Settlement!chain, Settlement!history
<1>4. /\ handler' \in [Handlers -> [at : Before \cup After, on : {0, 1}]]
      /\ handler'[h].at \in {"previewing", "crediting"} /\ handler'[h].on = 1
      /\ \A g \in Handlers \ {h} : handler'[g] = handler[g]
  BY <1>1, <1>2, <1>3, HandlerGoes DEF After, BeforeDeposit
<1>5. Quietly(handler[h].at, handler'[h].at)
  BY <1>2, <1>4 DEF Quietly, After, BeforeDeposit
<1>6. /\ entries' \in [{1} -> EntryShape] /\ current' = 1
      /\ entries'[1].published = entries[1].published
  BY <1>1, <1>3, EntryFlagged DEF OneEntry
<1> QED BY <1>1, <1>3, <1>4, <1>5, <1>6, QuietHandler, TroublesCounted

\* A handler past the flag is the only one there.
LEMMA OnlyOne ==
  ASSUME OnePublisher, NEW h \in Handlers, handler[h].at \in After
  PROVE  /\ entries[1].published
         /\ \A g \in Handlers \ {h} : handler[g].at \notin After
BY DEF OnePublisher

\* It goes on, and what the history and the chain are then is the matter of
\* the last three hypotheses.
LEMMA PublisherGoes ==
  ASSUME SettlementInv, opened, opened' = opened, NEW h \in Handlers, handler[h].at \in After,
         handler' \in [Handlers -> [at : Before \cup After, on : {0, 1}]],
         \A g \in Handlers \ {h} : handler'[g] = handler[g],
         handler'[h].at # "idle" => handler'[h].on = 1,
         entries' \in [{1} -> EntryShape], current' = 1, entries'[1].published,
         troubles' \in Nat, deposits' \in Nat, pool' \in Nat,
         relayed' \in 0..1, deposited' \in 0..1,
         handler'[h].at # "relaying", handler'[h].at \in BeforeDeposit => deposited' = 0,
         troubles' = 0 /\ payable' => DepositUsed'
  PROVE  SettlementInv'
<1>1. OneEntry /\ OnePublisher BY DEF SettlementInv
<1>2. \A g \in Handlers \ {h} : handler'[g] = handler[g] /\ handler[g].at \notin After
  BY <1>1, OnlyOne
<1>3. OneEntry' BY <1>1 DEF OneEntry
<1>4. \A g \in Handlers : handler'[g].at \in After \cup BeforeDeposit \cup {"relaying"} => g = h
  BY <1>2, PlacesApart DEF BeforeDeposit
<1>5. OnePublisher' BY <1>4 DEF OnePublisher
<1> QED BY <1>3, <1>5 DEF SettlementInv

LEMMA RelayKeeps ==
  ASSUME SettlementInv, opened, NEW h \in Handlers, Settlement!Relay(h)
  PROVE  SettlementInv'
<1>1. /\ OneEntry /\ OnePublisher /\ (troubles = 0 /\ payable => DepositUsed)
      /\ {deposits, pool, troubles} \subseteq Nat
  BY DEF SettlementInv
<1>2. /\ handler[h].at = "relaying" /\ handler[h].at \in After /\ relayed = 0 /\ deposited = 0
  BY <1>1 DEF OnePublisher, Settlement!Relay, Settlement!At, After, BeforeDeposit
<1>3. /\ UNCHANGED <<payable, settled, deposits, pool, deposited, opened, entries, current>>
      /\ relayed' \in 0..1
      /\ \/ (\E p \in {"checking", "crediting"} : Settlement!Goto(h, p)) /\ Settlement!NoTrouble
         \/ Settlement!Ends(h) /\ Settlement!Trouble
  BY <1>2 DEF Settlement!Relay, Settlement!chain
<1>4. /\ handler' \in [Handlers -> [at : Before \cup After, on : {0, 1}]]
      /\ handler'[h].at \in {"checking", "crediting", "idle"}
      /\ handler'[h].at # "idle" => handler'[h].on = 1
      /\ \A g \in Handlers \ {h} : handler'[g] = handler[g]
  BY <1>1, <1>2, <1>3, HandlerGoes, HandlerSet DEF After, BeforeDeposit, Settlement!Ends, Settlement!Idle
<1>5. troubles' \in Nat /\ (troubles' = 0 => troubles = 0)
  BY <1>1, <1>3, TroublesCounted
<1>6. entries' \in [{1} -> EntryShape] /\ current' = 1 /\ entries'[1].published
  BY <1>1, <1>2, <1>3, OnlyOne DEF OneEntry
<1>7. troubles' = 0 /\ payable' => DepositUsed'
  <2>1. \A g \in Handlers : handler'[g].at = "settling" <=> handler[g].at = "settling"
    BY <1>2, <1>4
  <2> QED BY <1>1, <1>3, <1>5, <2>1 DEF DepositUsed
<1> QED BY <1>1, <1>2, <1>3, <1>4, <1>5, <1>6, <1>7, PublisherGoes

\* The one deposit: what was there before is nothing.
LEMMA DepositKeeps ==
  ASSUME SettlementInv, opened, NEW h \in Handlers, Settlement!Deposit(h)
  PROVE  SettlementInv'
<1>1. /\ OneEntry /\ OnePublisher /\ (troubles = 0 /\ payable => DepositUsed)
      /\ {relayed, deposits, pool, troubles} \subseteq Nat
  BY DEF SettlementInv
<1>2. handler[h].at = "depositing" /\ handler[h].at \in After /\ deposited = 0 /\ relayed \in 0..1
  BY <1>1 DEF OnePublisher, Settlement!Deposit, Settlement!At, After, BeforeDeposit
<1>3. /\ UNCHANGED <<payable, settled, pool, relayed, opened, entries, current>>
      /\ deposited' \in 0..1 /\ deposits' \in Nat
      /\ \/ /\ Settlement!Goto(h, "settling") /\ Settlement!NoTrouble
            /\ deposits' = deposits + 1 /\ deposited' = 1
         \/ Settlement!Goto(h, "crediting") /\ Settlement!Trouble
  BY <1>1, <1>2 DEF Settlement!Deposit
<1>4. /\ handler' \in [Handlers -> [at : Before \cup After, on : {0, 1}]]
      /\ handler'[h].at \in {"settling", "crediting"} /\ handler'[h].on = 1
      /\ \A g \in Handlers \ {h} : handler'[g] = handler[g]
  BY <1>1, <1>2, <1>3, HandlerGoes DEF After, BeforeDeposit
<1>5. troubles' \in Nat BY <1>1, <1>3, TroublesCounted
<1>6. entries' \in [{1} -> EntryShape] /\ current' = 1 /\ entries'[1].published
  BY <1>1, <1>2, <1>3, OnlyOne DEF OneEntry
<1>7. ASSUME troubles' = 0, payable'
      PROVE  DepositUsed'
  <2>1. Settlement!NoTrouble BY <1>1, <1>3, <1>7 DEF Settlement!Trouble
  <2>2. Settlement!Goto(h, "settling") /\ deposits' = deposits + 1 /\ deposited' = 1 /\ troubles = 0
    BY <1>1, <1>3, <1>7, <2>1 DEF Settlement!Trouble, Settlement!NoTrouble
  <2>3. deposits = 0 /\ pool = 0 /\ ~settled
    BY <1>1, <1>2, <1>3, <1>7, <2>2 DEF DepositUsed
  <2>4. handler'[h].at = "settling"
    BY <1>1, <1>2, <2>2, HandlerGoes DEF After
  <2> QED BY <1>3, <2>2, <2>3, <2>4 DEF DepositUsed
<1>8. handler'[h].at \notin BeforeDeposit /\ handler'[h].at # "relaying" /\ handler'[h].at # "idle"
  BY <1>4 DEF BeforeDeposit
<1> QED BY <1>1, <1>2, <1>3, <1>4, <1>5, <1>6, <1>7, <1>8, PublisherGoes

\* The settlement is sent; it is refused only when something failed or the
\* auction refuses.
LEMMA SettleKeeps ==
  ASSUME SettlementInv, opened, NEW h \in Handlers, Settlement!Settle(h)
  PROVE  SettlementInv'
<1>1. /\ OneEntry /\ OnePublisher /\ (troubles = 0 /\ payable => DepositUsed)
      /\ {relayed, deposited, deposits, pool, troubles} \subseteq Nat
  BY DEF SettlementInv
<1>2. /\ handler[h].at = "settling" /\ handler[h].at \in After /\ handler[h].on = 1
      /\ relayed \in 0..1 /\ deposited \in 0..1
  BY <1>1 DEF OneEntry, OnePublisher, Settlement!Settle, Settlement!At, After
<1>3. PICK sent \in BOOLEAN :
        /\ sent => ~Settlement!Refused
        /\ IF sent \/ Settlement!Refused THEN Settlement!NoTrouble ELSE Settlement!Trouble
        /\ pool' \in IF sent THEN {pool + 1} ELSE IF Settlement!Refused THEN {pool} ELSE {pool, pool + 1}
        /\ entries' = [entries EXCEPT ![1] = Settlement!Flagged(@, sent)]
        /\ current' = IF sent THEN 1 ELSE current
  BY <1>2 DEF Settlement!Settle
<1>4. /\ UNCHANGED <<payable, settled, deposits, relayed, deposited, opened>>
      /\ Settlement!Goto(h, "crediting")
  BY DEF Settlement!Settle, Settlement!history
<1>5. /\ handler' \in [Handlers -> [at : Before \cup After, on : {0, 1}]]
      /\ handler'[h].at = "crediting" /\ handler'[h].on = 1
      /\ \A g \in Handlers \ {h} : handler'[g] = handler[g]
  BY <1>1, <1>2, <1>4, HandlerGoes DEF After
<1>6. troubles' \in Nat /\ pool' \in Nat /\ current' = 1
  BY <1>1, <1>3, TroublesCounted DEF OneEntry
<1>7. entries' \in [{1} -> EntryShape] /\ entries'[1].published
  <2>1. entries[1].published BY <1>1, <1>2, OnlyOne
  <2>2. Settlement!Flagged(entries[1], sent) \in EntryShape
        /\ Settlement!Flagged(entries[1], sent).published
    BY <1>1, <2>1, EntryFound DEF Settlement!Flagged, EntryShape
  <2> QED BY <1>1, <1>3, <2>2 DEF OneEntry
<1>8. ASSUME troubles' = 0, payable'
      PROVE  DepositUsed'
  <2>1. Settlement!NoTrouble /\ troubles = 0 /\ payable
    BY <1>1, <1>3, <1>4, <1>8 DEF Settlement!Trouble, Settlement!NoTrouble
  <2>2. deposits = 1 /\ pool = 0 /\ ~settled /\ deposited # 0
    BY <1>1, <1>2, <2>1 DEF DepositUsed
  <2>3. ~Settlement!Refused BY <2>1, <2>2 DEF Settlement!Refused
  <2>4. sent
    <3>1. ~Settlement!Trouble BY <1>1, <2>1 DEF Settlement!Trouble, Settlement!NoTrouble
    <3> QED BY <1>3, <2>3, <3>1
  <2>5. pool' = 1 BY <1>3, <2>2, <2>4
  <2>6. \A g \in Handlers : handler'[g].at # "settling"
    BY <1>1, <1>2, <1>5, OnlyOne DEF After
  <2> QED BY <1>4, <2>2, <2>5, <2>6 DEF DepositUsed
<1>9. handler'[h].at \notin BeforeDeposit /\ handler'[h].at # "relaying"
  BY <1>5 DEF BeforeDeposit
<1> QED BY <1>1, <1>2, <1>4, <1>5, <1>6, <1>7, <1>8, <1>9, PublisherGoes

\* A settlement is mined: it uses the deposit, or is refused and leaves it.
LEMMA MineKeeps ==
  ASSUME SettlementInv, opened, Settlement!Mine
  PROVE  SettlementInv'
<1>1. /\ OneEntry /\ OnePublisher /\ (troubles = 0 /\ payable => DepositUsed)
      /\ {relayed, deposited, deposits, pool, troubles} \subseteq Nat /\ opened \in BOOLEAN
  BY DEF SettlementInv
<1>2. /\ UNCHANGED <<payable, entries, current, handler, relayed, deposited, opened, troubles>>
      /\ pool > 0 /\ pool' = pool - 1
      /\ IF Settlement!Refused THEN UNCHANGED <<settled, deposits>>
         ELSE settled' = TRUE /\ deposits' = deposits - 1
  BY DEF Settlement!Mine, Settlement!memory, Settlement!history, Settlement!NoTrouble
<1>3. pool' \in Nat /\ deposits' \in Nat
  BY <1>1, <1>2 DEF Settlement!Refused
<1>4. OneEntry' BY <1>1, <1>2 DEF OneEntry
<1>5. OnePublisher' BY <1>1, <1>2 DEF OnePublisher
<1>6. ASSUME troubles' = 0, payable'
      PROVE  DepositUsed'
  <2>1. DepositUsed /\ payable BY <1>1, <1>2, <1>6
  <2>2. pool = 1 /\ deposits = 1 /\ ~settled BY <1>2, <2>1 DEF DepositUsed
  <2>3. ~Settlement!Refused BY <2>1, <2>2 DEF Settlement!Refused
  <2>4. pool' = 0 /\ deposits' = 0 /\ deposited # 0
    BY <1>2, <2>1, <2>2, <2>3 DEF DepositUsed
  <2>5. \A g \in Handlers : handler[g].at # "settling"
    BY <2>1, <2>2 DEF DepositUsed
  <2> QED BY <1>2, <2>4, <2>5 DEF DepositUsed
<1> QED BY <1>1, <1>2, <1>3, <1>4, <1>5, <1>6 DEF SettlementInv

LEMMA SettlementRestarts ==
  ASSUME SettlementInv, Settlement!Restart
  PROVE  SettlementInv'
<1>1. opened' = FALSE /\ UNCHANGED <<deposits, pool, relayed, deposited>> /\ Settlement!Trouble
  BY DEF Settlement!Restart, Settlement!chain
<1>2. {relayed, deposited, deposits, pool, troubles} \subseteq Nat BY DEF SettlementInv
<1>3. troubles' \in Nat BY <1>1, <1>2, TroublesCounted
<1> QED BY <1>1, <1>2, <1>3 DEF SettlementInv

LEMMA SettlementBegins == Settlement!Init => SettlementInv
<1> SUFFICES ASSUME Settlement!Init PROVE SettlementInv
  OBVIOUS
<1>1. /\ opened \in BOOLEAN /\ relayed = 0 /\ deposited = 0 /\ deposits = 0 /\ pool = 0 /\ troubles = 0
      /\ settled = FALSE
  BY DEF Settlement!Init
<1>2. ASSUME opened
      PROVE  OneEntry /\ OnePublisher /\ DepositUsed
  <2>1. entries = <<[Settlement!NewEntry EXCEPT !.known = TRUE]>> /\ current = 1
        /\ handler = [h \in Handlers |-> Settlement!Idle]
    BY <1>2 DEF Settlement!Init
  <2>2. [Settlement!NewEntry EXCEPT !.known = TRUE] \in EntryShape
    BY DEF Settlement!NewEntry, EntryShape
  <2>3. entries \in [{1} -> EntryShape]
    <3> DEFINE e == [Settlement!NewEntry EXCEPT !.known = TRUE]
    <3>1. entries = <<e>> /\ e \in EntryShape BY <2>1, <2>2
    <3> HIDE DEF e
    <3>2. <<e>> = [i \in {1} |-> e] OBVIOUS
    <3> QED BY <3>1, <3>2
  <2>4. \A h \in Handlers : handler[h] = [at |-> "idle", on |-> 0]
    BY <2>1 DEF Settlement!Idle
  <2>5. OneEntry BY <2>1, <2>3, <2>4 DEF OneEntry, Before, Settlement!Idle
  <2>6. OnePublisher BY <1>1, <2>4 DEF OnePublisher, After, BeforeDeposit
  <2>7. DepositUsed BY <1>1, <2>4 DEF DepositUsed
  <2> QED BY <2>5, <2>6, <2>7
<1> QED BY <1>1, <1>2 DEF SettlementInv

LEMMA SettlementGoesOn ==
  ASSUME SettlementInv, [Settlement!Next]_Settlement!vars
  PROVE  SettlementInv'
<1>1. CASE UNCHANGED Settlement!vars
  <2>1. UNCHANGED <<payable, settled, deposits, pool, entries, current, handler, opened, relayed,
                    deposited, troubles>>
    BY <1>1 DEF Settlement!vars, Settlement!chain, Settlement!memory, Settlement!history
  <2>2. OneEntry => OneEntry' BY <2>1 DEF OneEntry
  <2>3. OnePublisher => OnePublisher' BY <2>1 DEF OnePublisher
  <2>4. DepositUsed => DepositUsed' BY <2>1 DEF DepositUsed
  <2> QED BY <2>1, <2>2, <2>3, <2>4 DEF SettlementInv
<1>2. CASE Settlement!Next /\ ~opened
  BY <1>2, NotOpened
<1>3. CASE Settlement!Next /\ opened
  <2>1. ASSUME NEW h \in Handlers, Settlement!Handling(h)
        PROVE  SettlementInv'
    BY <1>3, <2>1, HydratedKeeps, RelayKeeps, CheckKeeps, PreviewKeeps, DepositKeeps, SettleKeeps,
       CreditKeeps DEF Settlement!Handling
  <2> QED BY <1>3, <2>1, HandleFindingsKeeps, PublishTimerKeeps, WinnersSelectedKeeps, MineKeeps,
             SettlementRestarts, HandleReportPublishedKeeps DEF Settlement!Next
<1> QED BY <1>1, <1>2, <1>3

\* In a process that opened the job, one report is relayed and one deposit made,
\* by one handler, and while nothing fails the deposit is used.
THEOREM SettledOnceHolds == Settlement!Spec => []SettledOnce
<1>1. SettlementInv => SettledOnce
  <2> SUFFICES ASSUME SettlementInv, opened
               PROVE  /\ relayed <= 1 /\ deposited <= 1
                      /\ troubles = 0 /\ payable /\ deposits > 0 =>
                           pool > 0 \/ \E h \in Handlers : Settlement!At(h, "settling")
    BY DEF SettledOnce, Settlement!SettledOnce
  <2> QED BY DEF SettlementInv, OnePublisher, DepositUsed, Settlement!At
<1>2. Settlement!Init => SettlementInv BY SettlementBegins
<1>3. SettlementInv /\ [Settlement!Next]_Settlement!vars => SettlementInv' BY SettlementGoesOn
<1> QED BY <1>1, <1>2, <1>3, PTL DEF Settlement!Spec

-----------------------------------------------------------------------------
(***************************************************************************)
(* Intake of discoveries.                                                  *)
(***************************************************************************)

\* A discovery whose job is being created, and one that may change the chain.
Creating == {"waiting", "posting", "recording"}
Holding == {"posting", "recording"}

DiscoveryShape == [at : Creating \cup {"unheard", "ended", "inviting", "arming"},
                   contract : Contracts \cup {"none"}, valid : BOOLEAN, attempt : Nat,
                   expected : Nat, id : Nat]

IntakeShape ==
    /\ posted \in Seq(Contracts) /\ lock \in Seq(Discoveries)
    /\ discovery \in [Discoveries -> DiscoveryShape]
    /\ \A i \in DOMAIN jobs : jobs[i] \in [contract : Contracts \cup {"none"}, open : BOOLEAN]

\* Who creates a job is in line for the lock, and its contract is marked and has
\* no open job; who may change the chain holds the lock, and the id that its
\* receipt or the reading before gives is that of the job.
Right(d) ==
    LET r == discovery[d] IN
    /\ r.at \in Creating =>
         /\ r.contract \in Contracts
         /\ \E k \in DOMAIN lock : lock[k] = d
         /\ "outlasted" \in mishaps \/
              /\ r.contract \in recent
              /\ \A i \in DOMAIN jobs : jobs[i].open => jobs[i].contract # r.contract
    /\ r.at \in Holding => Head(lock) = d
    /\ r.at = "posting" => "other" \in mishaps \/ r.expected = Len(posted) + 1
    /\ r.at = "recording" =>
         \/ {"unread receipt", "other"} \subseteq mishaps
         \/ r.id \in DOMAIN posted /\ posted[r.id] = r.contract

\* No two create a job for one contract.
Apart(d, e) ==
    \/ "outlasted" \in mishaps \/ d = e
    \/ discovery[d].at \notin Creating \/ discovery[e].at \notin Creating
    \/ discovery[d].contract # discovery[e].contract

IntakeInv ==
    /\ IntakeShape
    /\ \A d \in Discoveries : Right(d) /\ \A e \in Discoveries : Apart(d, e)
    /\ Intake!RecordsMatchChain

\* A job more on the chain.
LEMMA PostedGrows ==
  ASSUME posted \in Seq(Contracts), NEW c \in Contracts, posted' = Append(posted, c)
  PROVE  /\ posted' \in Seq(Contracts) /\ Len(posted) \in Nat /\ Len(posted') = Len(posted) + 1
         /\ Len(posted') \in DOMAIN posted' /\ posted'[Len(posted')] = c
         /\ \A i \in DOMAIN posted : i \in DOMAIN posted' /\ posted'[i] = posted[i]
OBVIOUS

\* The holder leaves the line, and a handler joins it.
LEMMA LineShortens ==
  ASSUME lock \in Seq(Discoveries), NEW d \in Discoveries, \E k \in DOMAIN lock : lock[k] = d,
         Head(lock) = d, lock' = Tail(lock)
  PROVE  /\ lock' \in Seq(Discoveries)
         /\ \A e \in Discoveries \ {d} :
              (\E k \in DOMAIN lock : lock[k] = e) => \E k \in DOMAIN lock' : lock'[k] = e
<1>1. lock # <<>> /\ lock' \in Seq(Discoveries) /\ Len(lock') = Len(lock) - 1
  OBVIOUS
<1>2. ASSUME NEW e \in Discoveries \ {d}, NEW k \in DOMAIN lock, lock[k] = e
      PROVE  k - 1 \in DOMAIN lock' /\ lock'[k - 1] = e
  <2>1. k # 1 BY <1>1, <1>2
  <2> QED BY <1>1, <1>2, <2>1
<1> QED BY <1>1, <1>2

LEMMA LineLengthens ==
  ASSUME lock \in Seq(Discoveries), NEW d \in Discoveries, lock' = Append(lock, d)
  PROVE  /\ lock' \in Seq(Discoveries) /\ \E k \in DOMAIN lock' : lock'[k] = d
         /\ \A e \in Discoveries :
              (\E k \in DOMAIN lock : lock[k] = e) =>
                 Head(lock') = Head(lock) /\ \E k \in DOMAIN lock' : lock'[k] = e
<1>1. lock' \in Seq(Discoveries) /\ Len(lock') = Len(lock) + 1 /\ lock'[Len(lock) + 1] = d
  OBVIOUS
<1>2. \A k \in DOMAIN lock : k \in DOMAIN lock' /\ lock'[k] = lock[k]
  OBVIOUS
<1>3. (\E k \in DOMAIN lock : TRUE) => Head(lock') = Head(lock)
  BY <1>1, <1>2
<1> QED BY <1>1, <1>2, <1>3

\* The chain has what it had.
Kept == posted' \in Seq(Contracts) /\ \A i \in DOMAIN posted : i \in DOMAIN posted' /\ posted'[i] = posted[i]

\* A step of one handler that leaves the jobs alone; who holds the lock may
\* change the chain.
LEMMA HandlerSteps ==
  ASSUME IntakeInv, NEW d \in Discoveries, discovery' \in [Discoveries -> DiscoveryShape],
         \A e \in Discoveries \ {d} : discovery'[e] = discovery[e],
         mishaps \subseteq mishaps', recent \subseteq recent', jobs' = jobs, Kept,
         posted' = posted \/ Head(lock) = d,
         lock' \in Seq(Discoveries),
         \A e \in Discoveries \ {d} : discovery[e].at \in Creating =>
            /\ \E k \in DOMAIN lock' : lock'[k] = e
            /\ discovery[e].at \in Holding => Head(lock') = e,
         Right(d)', \A e \in Discoveries : Apart(d, e)'
  PROVE  IntakeInv'
<1> Holding \subseteq Creating /\ "posting" \in Holding /\ "recording" \in Holding
  BY DEF Holding, Creating
<1>1. IntakeShape /\ Intake!RecordsMatchChain BY DEF IntakeInv
<1>2. IntakeShape' BY <1>1 DEF IntakeShape, Kept
<1>3. ASSUME NEW e \in Discoveries \ {d}
      PROVE  Right(e)'
  <2>1. Right(e) BY DEF IntakeInv
  <2>2. discovery[e].at \in Holding => posted' = posted BY <2>1 DEF Right
  <2>3. \A i \in DOMAIN posted : i \in DOMAIN posted' /\ posted'[i] = posted[i] BY DEF Kept
  <2>4. discovery'[e] = discovery[e] OBVIOUS
  <2>5. discovery[e].at = "recording" =>
          \/ {"unread receipt", "other"} \subseteq mishaps
          \/ discovery[e].id \in DOMAIN posted /\ posted[discovery[e].id] = discovery[e].contract
    BY <2>1 DEF Right
  <2>6. discovery[e].at = "recording" =>
          \/ {"unread receipt", "other"} \subseteq mishaps'
          \/ discovery[e].id \in DOMAIN posted' /\ posted'[discovery[e].id] = discovery[e].contract
    BY <2>3, <2>5
  <2>7. discovery[e].at = "posting" => "other" \in mishaps' \/ discovery[e].expected = Len(posted') + 1
    BY <2>1, <2>2 DEF Right
  <2>8. discovery[e].at \in Creating =>
          /\ discovery[e].contract \in Contracts
          /\ \E k \in DOMAIN lock' : lock'[k] = e
          /\ "outlasted" \in mishaps' \/
               /\ discovery[e].contract \in recent'
               /\ \A i \in DOMAIN jobs' : jobs'[i].open => jobs'[i].contract # discovery[e].contract
    BY <2>1 DEF Right
  <2>9. discovery[e].at \in Holding => Head(lock') = e OBVIOUS
  <2> QED BY ONLY <2>4, <2>6, <2>7, <2>8, <2>9, Zenon DEF Right
<1>4. ASSUME NEW e \in Discoveries \ {d}, NEW f \in Discoveries
      PROVE  Apart(e, f)'
  <2>1. Apart(e, f) BY DEF IntakeInv
  <2>2. CASE f = d
    <3>1. Apart(d, e)' OBVIOUS
    <3> QED BY <2>2, <3>1 DEF Apart
  <2> QED BY <2>1, <2>2 DEF Apart
<1>5. Intake!RecordsMatchChain'
  <2>1. Intake!RecordedAsPosted'
    BY <1>1 DEF Intake!RecordsMatchChain, Intake!RecordedAsPosted, Kept
  <2>2. Intake!OneOpenJob'
    BY <1>1 DEF Intake!RecordsMatchChain, Intake!OneOpenJob
  <2> QED BY <2>1, <2>2 DEF Intake!RecordsMatchChain
<1> QED BY <1>2, <1>3, <1>4, <1>5 DEF IntakeInv

\* One handler is where it was not.
LEMMA HandlerMoved ==
  ASSUME discovery \in [Discoveries -> DiscoveryShape], NEW d \in Discoveries,
         NEW r \in DiscoveryShape, discovery' = [discovery EXCEPT ![d] = r]
  PROVE  /\ discovery' \in [Discoveries -> DiscoveryShape] /\ discovery'[d] = r
         /\ \A e \in Discoveries \ {d} : discovery'[e] = discovery[e]
OBVIOUS

\* One that no longer creates, or never did, has nothing to keep.
LEMMA OutOfIt ==
  ASSUME NEW d \in Discoveries, discovery'[d].at \notin Creating
  PROVE  Right(d)' /\ \A e \in Discoveries : Apart(d, e)'
<1> Holding \subseteq Creating /\ "posting" \in Holding /\ "recording" \in Holding
  BY DEF Holding, Creating
<1> QED BY DEF Right, Apart

\* A handler goes on creating its job, and holds the lock if it changes the chain.
LEMMA CreationGoesOn ==
  ASSUME IntakeInv, NEW d \in Discoveries, NEW r \in DiscoveryShape,
         discovery' = [discovery EXCEPT ![d] = r],
         discovery[d].at \in Creating, r.contract = discovery[d].contract, Head(lock) = d,
         mishaps \subseteq mishaps', recent' = recent, jobs' = jobs, lock' = lock, Kept,
         r.at = "posting" => "other" \in mishaps' \/ r.expected = Len(posted') + 1,
         r.at = "recording" =>
             \/ {"unread receipt", "other"} \subseteq mishaps'
             \/ r.id \in DOMAIN posted' /\ posted'[r.id] = r.contract
  PROVE  IntakeInv'
<1> Holding \subseteq Creating
  BY DEF Holding, Creating
<1>1. IntakeShape /\ Right(d) /\ \A e \in Discoveries : Right(e) /\ Apart(d, e) BY DEF IntakeInv
<1>2. /\ discovery' \in [Discoveries -> DiscoveryShape] /\ discovery'[d] = r
      /\ \A e \in Discoveries \ {d} : discovery'[e] = discovery[e]
  BY <1>1, HandlerMoved DEF IntakeShape
<1>3. /\ r.contract \in Contracts
      /\ \E k \in DOMAIN lock : lock[k] = d
      /\ "outlasted" \in mishaps \/
           /\ r.contract \in recent
           /\ \A i \in DOMAIN jobs : jobs[i].open => jobs[i].contract # r.contract
  BY <1>1 DEF Right
<1>4. /\ r.contract \in Contracts
      /\ \E k \in DOMAIN lock' : lock'[k] = d
      /\ "outlasted" \in mishaps' \/
           /\ r.contract \in recent'
           /\ \A i \in DOMAIN jobs' : jobs'[i].open => jobs'[i].contract # r.contract
  BY <1>3
<1>5. Right(d)'
  <2>1. Head(lock') = d OBVIOUS
  <2> QED BY <1>2, <1>4, <2>1, Zenon DEF Right
<1>6. ASSUME NEW e \in Discoveries
      PROVE  Apart(d, e)'
  <2>1. Apart(d, e) BY <1>1
  <2>2. CASE e # d
    <3>1. discovery'[e] = discovery[e] BY <1>2, <2>2
    <3>2. "outlasted" \in mishaps => "outlasted" \in mishaps' OBVIOUS
    <3> QED BY <1>2, <2>1, <3>1, <3>2, Zenon DEF Apart
  <2> QED BY <2>2 DEF Apart
<1>7. \A e \in Discoveries \ {d} : discovery[e].at \in Creating =>
        /\ \E k \in DOMAIN lock' : lock'[k] = e
        /\ discovery[e].at \in Holding => Head(lock') = e
  BY <1>1 DEF Right
<1>8. lock' \in Seq(Discoveries) BY <1>1 DEF IntakeShape
<1> QED BY <1>2, <1>5, <1>6, <1>7, <1>8, HandlerSteps

\* Where a handler is and what it keeps, after a step that sets some of it.
LEMMA DiscoverySet ==
  ASSUME NEW s \in DiscoveryShape, NEW at \in Creating \cup {"unheard", "ended", "inviting", "arming"},
         NEW n \in Nat
  PROVE  /\ [s EXCEPT !.at = at] \in DiscoveryShape
         /\ [s EXCEPT !.at = at, !.expected = n] \in DiscoveryShape
         /\ [s EXCEPT !.at = at, !.id = n] \in DiscoveryShape
         /\ [s EXCEPT !.at = at, !.attempt = n] \in DiscoveryShape
BY DEF DiscoveryShape

\* Others keep their place when the holder leaves the lock.
LEMMA LineMoves ==
  ASSUME IntakeInv, NEW d \in Discoveries, discovery[d].at \in Holding, lock' = Tail(lock)
  PROVE  /\ lock' \in Seq(Discoveries)
         /\ \A e \in Discoveries \ {d} : discovery[e].at \in Creating =>
              /\ \E k \in DOMAIN lock' : lock'[k] = e
              /\ discovery[e].at \notin Holding
<1> Holding \subseteq Creating BY DEF Holding, Creating
<1>1. lock \in Seq(Discoveries) /\ \A e \in Discoveries : Right(e) BY DEF IntakeInv, IntakeShape
<1>2. Head(lock) = d /\ \E k \in DOMAIN lock : lock[k] = d BY <1>1 DEF Right
<1>3. /\ lock' \in Seq(Discoveries)
      /\ \A e \in Discoveries \ {d} :
           (\E k \in DOMAIN lock : lock[k] = e) => \E k \in DOMAIN lock' : lock'[k] = e
  BY <1>1, <1>2, LineShortens
<1>4. ASSUME NEW e \in Discoveries \ {d}, discovery[e].at \in Creating
      PROVE  (\E k \in DOMAIN lock : lock[k] = e) /\ discovery[e].at \notin Holding
  BY <1>1, <1>2, <1>4 DEF Right
<1> QED BY <1>3, <1>4

\* The holder gives up.
LEMMA LockLeft ==
  ASSUME IntakeInv, NEW d \in Discoveries, discovery[d].at \in Holding,
         discovery' = [discovery EXCEPT ![d].at = "ended"], lock' = Tail(lock),
         mishaps \subseteq mishaps', recent' = recent, jobs' = jobs, Kept
  PROVE  IntakeInv'
<1> "ended" \notin Creating /\ Holding \subseteq Creating BY DEF Creating, Holding
<1> DEFINE r == [discovery[d] EXCEPT !.at = "ended"]
<1>1. IntakeShape /\ Right(d) BY DEF IntakeInv
<1>2. discovery[d] \in DiscoveryShape /\ Head(lock) = d BY <1>1 DEF IntakeShape, Right
<1>3. r \in DiscoveryShape /\ r.at = "ended" BY <1>2, DiscoverySet DEF DiscoveryShape
<1>4. discovery' = [discovery EXCEPT ![d] = r] OBVIOUS
<1> HIDE DEF r
<1>5. /\ discovery' \in [Discoveries -> DiscoveryShape] /\ discovery'[d] = r
      /\ \A e \in Discoveries \ {d} : discovery'[e] = discovery[e]
  BY <1>1, <1>3, <1>4, HandlerMoved DEF IntakeShape
<1>6. Right(d)' /\ \A e \in Discoveries : Apart(d, e)' BY <1>3, <1>5, OutOfIt
<1> QED BY <1>2, <1>5, <1>6, LineMoves, HandlerSteps

LEMMA ExpectKeeps ==
  ASSUME IntakeInv, NEW d \in Discoveries, Intake!Expect(d)
  PROVE  IntakeInv'
<1> Holding \subseteq Creating /\ "posting" \in Creating /\ "waiting" \in Creating
  BY DEF Holding, Creating
<1> DEFINE r == [discovery[d] EXCEPT !.at = "posting", !.expected = Len(posted) + 1]
<1>1. /\ discovery[d].at = "waiting" /\ Head(lock) = d
      /\ discovery' = [discovery EXCEPT ![d] = r]
      /\ mishaps' = mishaps /\ posted' = posted /\ jobs' = jobs /\ recent' = recent /\ lock' = lock
  BY DEF Intake!Expect, Intake!At, Intake!HoldsLock, Intake!NoMishap, Intake!memory
<1>2. /\ posted \in Seq(Contracts) /\ Len(posted) + 1 \in Nat
      /\ discovery[d] \in DiscoveryShape
  BY DEF IntakeInv, IntakeShape
<1>3. r \in DiscoveryShape BY <1>2, DiscoverySet
<1>4. r.at = "posting" /\ r.expected = Len(posted) + 1 /\ r.contract = discovery[d].contract
  BY <1>2 DEF DiscoveryShape
<1>5. Kept BY <1>1, <1>2 DEF Kept
<1> HIDE DEF r
<1> QED BY <1>1, <1>3, <1>4, <1>5, CreationGoesOn

\* The mined job is the last, and the receipt or the expectation gives its id.
LEMMA PostKeeps ==
  ASSUME IntakeInv, NEW d \in Discoveries, Intake!Post(d)
  PROVE  IntakeInv'
<1> "posting" \in Holding /\ "posting" \in Creating /\ "recording" \in Creating
  BY DEF Holding, Creating
<1>1. PICK id \in {Len(posted'), discovery[d].expected} :
        /\ discovery[d].at = "posting" /\ posted' = Append(posted, discovery[d].contract)
        /\ discovery' = [discovery EXCEPT ![d] = [discovery[d] EXCEPT !.at = "recording", !.id = id]]
        /\ mishaps \subseteq mishaps' /\ (id # Len(posted') => "unread receipt" \in mishaps')
        /\ jobs' = jobs /\ recent' = recent /\ lock' = lock
  <2>1. /\ Intake!At(d, "posting") /\ posted' = Intake!Mined(d) /\ UNCHANGED Intake!memory
        /\ \/ /\ Intake!NoMishap
              /\ discovery' = [discovery EXCEPT ![d].at = "recording", ![d].id = Len(posted')]
           \/ /\ Intake!Mishap("unread receipt")
              /\ discovery' = [discovery EXCEPT ![d].at = "recording", ![d].id = discovery[d].expected]
    BY DEF Intake!Post
  <2>2. Intake!NoMishap => mishaps \subseteq mishaps' BY DEF Intake!NoMishap
  <2>3. Intake!Mishap("unread receipt") => mishaps \subseteq mishaps' /\ "unread receipt" \in mishaps'
    BY DEF Intake!Mishap
  <2> QED BY <2>1, <2>2, <2>3 DEF Intake!At, Intake!Mined, Intake!Contract, Intake!memory
<1> DEFINE r == [discovery[d] EXCEPT !.at = "recording", !.id = id]
<1>2. IntakeShape /\ Right(d) BY DEF IntakeInv
<1>3. /\ discovery[d].contract \in Contracts /\ Head(lock) = d
      /\ "other" \in mishaps \/ discovery[d].expected = Len(posted) + 1
  BY <1>1, <1>2 DEF Right
<1>4. /\ posted' \in Seq(Contracts) /\ Len(posted) \in Nat /\ Len(posted') = Len(posted) + 1
      /\ Len(posted') \in DOMAIN posted' /\ posted'[Len(posted')] = discovery[d].contract
      /\ \A i \in DOMAIN posted : i \in DOMAIN posted' /\ posted'[i] = posted[i]
  BY <1>1, <1>2, <1>3, PostedGrows DEF IntakeShape
<1>5. id \in Nat /\ discovery[d] \in DiscoveryShape BY <1>2, <1>4 DEF IntakeShape, DiscoveryShape
<1>6. r \in DiscoveryShape BY <1>5, DiscoverySet
<1>7. r.at = "recording" /\ r.id = id /\ r.contract = discovery[d].contract
  BY <1>5 DEF DiscoveryShape
<1>8. \/ {"unread receipt", "other"} \subseteq mishaps'
      \/ id \in DOMAIN posted' /\ posted'[id] = discovery[d].contract
  BY <1>1, <1>3, <1>4
<1>9. Kept BY <1>4 DEF Kept
<1>10. discovery' = [discovery EXCEPT ![d] = r] BY <1>1
<1> HIDE DEF r
<1>11. r.at # "posting" BY <1>7
<1>12. \/ {"unread receipt", "other"} \subseteq mishaps'
       \/ r.id \in DOMAIN posted' /\ posted'[r.id] = r.contract
  BY <1>7, <1>8
<1>13. discovery[d].at \in Creating /\ mishaps \subseteq mishaps' BY <1>1
<1>14. jobs' = jobs /\ recent' = recent /\ lock' = lock /\ Head(lock) = d BY <1>1, <1>3
<1> QED BY ONLY IntakeInv, d \in Discoveries, <1>6, <1>7, <1>9, <1>10, <1>11, <1>12, <1>13, <1>14, CreationGoesOn

\* An attempt failed, mined or not: it is tried again, or given up.
LEMMA PostFailsKeeps ==
  ASSUME IntakeInv, NEW d \in Discoveries, Intake!PostFails(d)
  PROVE  IntakeInv'
<1> "posting" \in Holding /\ "posting" \in Creating /\ "waiting" \in Creating /\ "ended" \notin Creating
  BY DEF Holding, Creating
<1>1. IntakeShape /\ Right(d) BY DEF IntakeInv
<1>2. discovery[d].at = "posting" /\ jobs' = jobs /\ recent' = recent /\ Intake!Failed(d)
  BY DEF Intake!PostFails, Intake!At
<1>3. discovery[d].contract \in Contracts /\ Head(lock) = d /\ \E k \in DOMAIN lock : lock[k] = d
  BY <1>1, <1>2 DEF Right
<1>4. mishaps \subseteq mishaps' /\ (posted' = posted \/ posted' = Append(posted, discovery[d].contract))
  BY DEF Intake!PostFails, Intake!Mishap, Intake!Mined, Intake!Contract
<1>5. Kept
  BY <1>1, <1>3, <1>4, PostedGrows DEF IntakeShape, Kept
<1>6. discovery[d] \in DiscoveryShape BY <1>1 DEF IntakeShape
<1>7. ASSUME discovery' = [discovery EXCEPT ![d].at = "waiting", ![d].attempt = @ + 1], lock' = lock
      PROVE  IntakeInv'
  <2> DEFINE r == [discovery[d] EXCEPT !.at = "waiting", !.attempt = discovery[d].attempt + 1]
  <2>1. discovery[d].attempt + 1 \in Nat BY <1>6 DEF DiscoveryShape
  <2>2. r \in DiscoveryShape BY <1>6, <2>1, DiscoverySet
  <2>3. r.at = "waiting" /\ r.contract = discovery[d].contract BY <1>6 DEF DiscoveryShape
  <2>4. discovery' = [discovery EXCEPT ![d] = r] BY <1>7
  <2> HIDE DEF r
  <2>5. r.at # "posting" /\ r.at # "recording" BY <2>3
  <2>6. discovery[d].at \in Creating /\ mishaps \subseteq mishaps' BY <1>2, <1>4
  <2>7. jobs' = jobs /\ recent' = recent /\ lock' = lock /\ Head(lock) = d BY <1>2, <1>3, <1>7
  <2> QED BY ONLY IntakeInv, d \in Discoveries, <1>5, <2>2, <2>3, <2>4, <2>5, <2>6, <2>7, CreationGoesOn
<1>8. ASSUME discovery' = [discovery EXCEPT ![d].at = "ended"], lock' = Tail(lock)
      PROVE  IntakeInv'
  BY <1>2, <1>3, <1>4, <1>5, <1>8, LockLeft
<1> QED BY <1>2, <1>7, <1>8 DEF Intake!Failed, Intake!Goto, Intake!Released

\* One that no longer creates goes on, or one that does not create is heard.
LEMMA OutsideSteps ==
  ASSUME IntakeInv, NEW d \in Discoveries, NEW r \in DiscoveryShape,
         discovery[d].at \notin Creating, r.at \notin Creating,
         discovery' = [discovery EXCEPT ![d] = r],
         mishaps \subseteq mishaps', recent \subseteq recent', jobs' = jobs,
         posted' = posted, lock' = lock
  PROVE  IntakeInv'
<1> Holding \subseteq Creating BY DEF Creating, Holding
<1>1. IntakeShape /\ \A e \in Discoveries : Right(e) BY DEF IntakeInv
<1>2. /\ discovery' \in [Discoveries -> DiscoveryShape] /\ discovery'[d] = r
      /\ \A e \in Discoveries \ {d} : discovery'[e] = discovery[e]
  BY <1>1, HandlerMoved DEF IntakeShape
<1>3. Right(d)' /\ \A e \in Discoveries : Apart(d, e)' BY <1>2, OutOfIt
<1>4. Kept /\ lock' \in Seq(Discoveries) BY <1>1 DEF IntakeShape, Kept
<1>5. \A e \in Discoveries \ {d} : discovery[e].at \in Creating =>
        /\ \E k \in DOMAIN lock' : lock'[k] = e
        /\ discovery[e].at \in Holding => Head(lock') = e
  BY <1>1 DEF Right
<1> QED BY <1>2, <1>3, <1>4, <1>5, HandlerSteps

LEMMA InviteKeeps ==
  ASSUME IntakeInv, NEW d \in Discoveries, Intake!Invite(d)
  PROVE  IntakeInv'
<1> "inviting" \notin Creating /\ "arming" \notin Creating BY DEF Creating
<1> DEFINE r == [discovery[d] EXCEPT !.at = "arming"]
<1>1. /\ discovery[d].at = "inviting" /\ discovery' = [discovery EXCEPT ![d] = r]
      /\ mishaps \subseteq mishaps' /\ posted' = posted /\ recent' = recent /\ jobs' = jobs /\ lock' = lock
  BY DEF Intake!Invite, Intake!At, Intake!Goto, Intake!AfterInviting, Intake!NoMishap, Intake!Mishap,
         Intake!memory
<1>2. discovery[d] \in DiscoveryShape BY DEF IntakeInv, IntakeShape
<1>3. r \in DiscoveryShape /\ r.at = "arming" BY <1>2, DiscoverySet DEF DiscoveryShape
<1> HIDE DEF r
<1> QED BY <1>1, <1>3, OutsideSteps

LEMMA ArmKeeps ==
  ASSUME IntakeInv, NEW d \in Discoveries, Intake!Arm(d)
  PROVE  IntakeInv'
<1> "ended" \notin Creating /\ "arming" \notin Creating BY DEF Creating
<1> DEFINE r == [discovery[d] EXCEPT !.at = "ended"]
<1>1. /\ discovery[d].at = "arming" /\ discovery' = [discovery EXCEPT ![d] = r]
      /\ mishaps' = mishaps /\ posted' = posted /\ recent' = recent /\ jobs' = jobs /\ lock' = lock
  BY DEF Intake!Arm, Intake!At, Intake!Goto, Intake!NoMishap
<1>2. discovery[d] \in DiscoveryShape BY DEF IntakeInv, IntakeShape
<1>3. r \in DiscoveryShape /\ r.at = "ended" BY <1>2, DiscoverySet DEF DiscoveryShape
<1> HIDE DEF r
<1> QED BY <1>1, <1>3, OutsideSteps

\* A discovery that passes gets in line: its contract had no mark, so nobody was
\* creating a job for it, and no open job.
LEMMA DiscoverKeeps ==
  ASSUME IntakeInv, NEW d \in Discoveries, Intake!Discover(d)
  PROVE  IntakeInv'
<1> Holding \subseteq Creating /\ "waiting" \in Creating /\ "waiting" \notin Holding
    /\ "unheard" \notin Creating /\ "ended" \notin Creating
  BY DEF Creating, Holding
<1>1. IntakeShape /\ \A e \in Discoveries : Right(e) /\ \A f \in Discoveries : Apart(e, f) BY DEF IntakeInv
<1>2. PICK c \in Contracts, valid \in BOOLEAN :
        LET duplicate == c \in recent \/ Intake!HasOpenJob(c)
            goes == valid /\ ~duplicate
        IN /\ recent' = IF duplicate THEN recent \cup {c} ELSE Intake!Marked(c, valid)
           /\ lock' = IF goes THEN Append(lock, d) ELSE lock
           /\ discovery' = [discovery EXCEPT ![d] =
                 [Intake!Unheard EXCEPT !.at = IF goes THEN "waiting" ELSE "ended",
                                 !.contract = c, !.valid = valid, !.attempt = 1]]
  BY DEF Intake!Discover
<1>3. discovery[d].at = "unheard" /\ mishaps' = mishaps /\ posted' = posted /\ jobs' = jobs
  BY DEF Intake!Discover, Intake!At, Intake!NoMishap
<1> DEFINE goes == valid /\ ~(c \in recent \/ Intake!HasOpenJob(c))
           at == IF goes THEN "waiting" ELSE "ended"
           r == [Intake!Unheard EXCEPT !.at = at, !.contract = c, !.valid = valid, !.attempt = 1]
<1>4. discovery' = [discovery EXCEPT ![d] = r] /\ lock' = IF goes THEN Append(lock, d) ELSE lock
  BY <1>2
<1>5. recent \subseteq recent' /\ (goes => c \in recent')
  BY <1>2 DEF Intake!Marked
<1>6. r \in DiscoveryShape /\ r.at = at /\ r.contract = c
  <2>1. at \in Creating \cup {"unheard", "ended", "inviting", "arming"} OBVIOUS
  <2> HIDE DEF at, goes
  <2> QED BY <2>1 DEF Intake!Unheard, DiscoveryShape
<1>7. goes => c \notin recent /\ \A i \in DOMAIN jobs : jobs[i].open => jobs[i].contract # c
  BY DEF Intake!HasOpenJob
<1>8. at = IF goes THEN "waiting" ELSE "ended" OBVIOUS
<1> HIDE DEF r, goes, at
<1>9. CASE ~goes
  BY <1>3, <1>4, <1>5, <1>6, <1>8, <1>9, OutsideSteps
<1>10. CASE goes
  <2>1. /\ discovery' \in [Discoveries -> DiscoveryShape] /\ discovery'[d] = r
        /\ \A e \in Discoveries \ {d} : discovery'[e] = discovery[e]
    BY <1>1, <1>4, <1>6, HandlerMoved DEF IntakeShape
  <2>2. lock' = Append(lock, d) /\ r.at = "waiting" BY <1>4, <1>6, <1>8, <1>10
  <2>3. lock \in Seq(Discoveries) BY <1>1 DEF IntakeShape
  <2>4. /\ lock' \in Seq(Discoveries) /\ \E k \in DOMAIN lock' : lock'[k] = d
        /\ \A e \in Discoveries :
             (\E k \in DOMAIN lock : lock[k] = e) =>
                Head(lock') = Head(lock) /\ \E k \in DOMAIN lock' : lock'[k] = e
    BY <2>2, <2>3, LineLengthens
  <2>5. \A i \in DOMAIN jobs' : jobs'[i].open => jobs'[i].contract # c BY <1>3, <1>7, <1>10
  <2>6. Right(d)'
    <3>1. r.at # "posting" /\ r.at # "recording" BY <2>2
    <3> QED BY <1>5, <1>6, <1>10, <2>1, <2>2, <2>4, <2>5, <3>1, Zenon DEF Right
  <2>7. ASSUME NEW e \in Discoveries \ {d}
        PROVE  Apart(d, e)'
    <3>1. Right(e) BY <1>1
    <3>2. discovery[e].at \in Creating => "outlasted" \in mishaps \/ discovery[e].contract \in recent
      BY <3>1 DEF Right
    <3>3. c \notin recent BY <1>7, <1>10
    <3> QED BY <1>3, <1>6, <2>1, <3>2, <3>3 DEF Apart
  <2>8. Apart(d, d)' BY DEF Apart
  <2>9. \A e \in Discoveries \ {d} : discovery[e].at \in Creating =>
          /\ \E k \in DOMAIN lock' : lock'[k] = e
          /\ discovery[e].at \in Holding => Head(lock') = e
    BY <1>1, <2>4 DEF Right
  <2>10. Kept BY <1>1, <1>3 DEF IntakeShape, Kept
  <2>11. \A e \in Discoveries : Apart(d, e)' BY <2>7, <2>8
  <2> QED BY <1>3, <1>5, <2>1, <2>4, <2>6, <2>9, <2>10, <2>11, HandlerSteps
<1> QED BY <1>9, <1>10

\* The job gets the id that it has on the chain, and it is the contract's first
\* open one.
LEMMA RecordKeeps ==
  ASSUME IntakeInv, NEW d \in Discoveries, Intake!Record(d)
  PROVE  IntakeInv'
<1> Holding \subseteq Creating /\ "recording" \in Holding /\ "posting" \in Holding /\ "inviting" \notin Creating
  BY DEF Creating, Holding
<1> DEFINE id == discovery[d].id
           job == [contract |-> discovery[d].contract, open |-> TRUE]
           r == [discovery[d] EXCEPT !.at = "inviting"]
<1>1. IntakeShape /\ Right(d) /\ \A e \in Discoveries : Right(e) /\ \A f \in Discoveries : Apart(e, f)
  BY DEF IntakeInv
<1>2. /\ discovery[d].at = "recording" /\ discovery' = [discovery EXCEPT ![d] = r]
      /\ lock' = Tail(lock) /\ mishaps' = mishaps /\ posted' = posted /\ recent' = recent
      /\ jobs' = [i \in DOMAIN jobs \cup {id} |-> IF i = id THEN job ELSE jobs[i]]
  BY DEF Intake!Record, Intake!At, Intake!Goto, Intake!NoMishap, Intake!Released, Intake!Contract
<1>3. discovery[d] \in DiscoveryShape BY <1>1 DEF IntakeShape
<1>4. r \in DiscoveryShape /\ r.at = "inviting" BY <1>3, DiscoverySet DEF DiscoveryShape
<1>5. /\ discovery[d].contract \in Contracts
      /\ "outlasted" \in mishaps \/
           \A i \in DOMAIN jobs : jobs[i].open => jobs[i].contract # discovery[d].contract
      /\ \/ {"unread receipt", "other"} \subseteq mishaps
         \/ id \in DOMAIN posted /\ posted[id] = discovery[d].contract
  <2>1. discovery[d].at \in Creating /\ discovery[d].at = "recording" BY <1>2
  <2>2. Right(d) BY <1>1
  <2> QED BY ONLY <2>1, <2>2 DEF Right
<1>6. job \in [contract : Contracts \cup {"none"}, open : BOOLEAN] /\ job.contract = discovery[d].contract
  BY <1>5
<1> HIDE DEF r, id, job
<1>7. /\ discovery' \in [Discoveries -> DiscoveryShape] /\ discovery'[d] = r
      /\ \A e \in Discoveries \ {d} : discovery'[e] = discovery[e]
  BY <1>1, <1>2, <1>4, HandlerMoved DEF IntakeShape
<1>8. /\ DOMAIN jobs' = DOMAIN jobs \cup {id} /\ jobs'[id] = job
      /\ \A i \in DOMAIN jobs' \ {id} : i \in DOMAIN jobs /\ jobs'[i] = jobs[i]
  BY <1>2
<1>9. /\ lock' \in Seq(Discoveries)
      /\ \A e \in Discoveries \ {d} : discovery[e].at \in Creating =>
           /\ \E k \in DOMAIN lock' : lock'[k] = e
           /\ discovery[e].at \notin Holding
  BY <1>2, LineMoves
<1>10. IntakeShape' BY <1>1, <1>2, <1>6, <1>7, <1>8, <1>9 DEF IntakeShape
<1>11. Right(d)' /\ \A e \in Discoveries : Apart(d, e)' BY <1>4, <1>7, OutOfIt
<1>12. ASSUME NEW e \in Discoveries \ {d}
       PROVE  Right(e)'
  <2>1. Right(e) /\ Apart(d, e) BY <1>1
  <2>2. CASE discovery[e].at \notin Creating
    BY <1>7, <2>2 DEF Right
  <2>3. CASE discovery[e].at \in Creating
    <3>1. discovery[e].at \notin Holding /\ \E k \in DOMAIN lock' : lock'[k] = e BY <1>9, <2>3
    <3>2. "outlasted" \in mishaps \/ discovery[d].contract # discovery[e].contract
      BY <1>2, <2>1, <2>3 DEF Apart
    <3>3. discovery[e].contract \in Contracts
          /\ ("outlasted" \in mishaps \/
                /\ discovery[e].contract \in recent
                /\ \A i \in DOMAIN jobs : jobs[i].open => jobs[i].contract # discovery[e].contract)
      BY <2>1, <2>3 DEF Right
    <3>4. "outlasted" \in mishaps \/
             \A i \in DOMAIN jobs' : jobs'[i].open => jobs'[i].contract # discovery[e].contract
      BY <1>6, <1>8, <3>2, <3>3
    <3> QED BY <1>2, <1>7, <3>1, <3>3, <3>4, Zenon DEF Right
  <2> QED BY <2>2, <2>3
<1>13. ASSUME NEW e \in Discoveries, NEW f \in Discoveries
       PROVE  Apart(e, f)'
  <2>1. Apart(e, f) BY <1>1
  <2>2. "inviting" \notin Creating /\ discovery'[d].at = "inviting" BY <1>4, <1>7
  <2> QED BY <1>2, <1>7, <2>1, <2>2 DEF Apart
<1>14. Intake!RecordedAsPosted /\ Intake!OneOpenJob BY DEF IntakeInv, Intake!RecordsMatchChain
<1>15. Intake!RecordedAsPosted'
  BY <1>2, <1>5, <1>6, <1>8, <1>14 DEF Intake!RecordedAsPosted
<1>16. Intake!OneOpenJob'
  <2>1. mishaps' = mishaps BY <1>2
  <2>2. \A n \in DOMAIN jobs : "outlasted" \in mishaps \/ (jobs[n].open => jobs[n].contract # discovery[d].contract)
    BY <1>5
  <2>3. ASSUME "outlasted" \notin mishaps, NEW i \in DOMAIN jobs', NEW k \in DOMAIN jobs',
               jobs'[i].open, jobs'[k].open, jobs'[i].contract = jobs'[k].contract
        PROVE  i = k
    <3>1. CASE i # id /\ k # id
      BY <1>8, <1>14, <2>3, <3>1 DEF Intake!OneOpenJob
    <3>2. CASE i = id /\ k # id
      BY <1>6, <1>8, <2>2, <2>3, <3>2
    <3>3. CASE i # id /\ k = id
      BY <1>6, <1>8, <2>2, <2>3, <3>3
    <3> QED BY <3>1, <3>2, <3>3
  <2> QED BY ONLY <2>1, <2>3 DEF Intake!OneOpenJob
<1> QED BY <1>10, <1>11, <1>12, <1>13, <1>15, <1>16 DEF IntakeInv, Intake!RecordsMatchChain

\* Nobody moves, and the marks and jobs that creation relies on are kept.
LEMMA NobodyMoves ==
  ASSUME IntakeInv, discovery' = discovery, lock' = lock, mishaps \subseteq mishaps', Kept,
         posted' = posted \/ "other" \in mishaps',
         "outlasted" \in mishaps' \/ \A d \in Discoveries :
             discovery[d].at \in Creating /\ discovery[d].contract \in recent => discovery[d].contract \in recent',
         DOMAIN jobs' = DOMAIN jobs,
         \A i \in DOMAIN jobs :
            /\ jobs'[i] \in [contract : Contracts \cup {"none"}, open : BOOLEAN]
            /\ jobs'[i].contract = jobs[i].contract /\ (jobs'[i].open => jobs[i].open)
  PROVE  IntakeInv'
<1> Holding \subseteq Creating /\ "recording" \in Holding /\ "posting" \in Holding
  BY DEF Creating, Holding
<1>1. IntakeShape /\ \A e \in Discoveries : Right(e) /\ \A f \in Discoveries : Apart(e, f)
  BY DEF IntakeInv
<1>2. IntakeShape' BY <1>1 DEF IntakeShape, Kept
<1>3. ASSUME NEW d \in Discoveries
      PROVE  Right(d)'
  <2>1. Right(d) BY <1>1
  <2>2. \A i \in DOMAIN posted : i \in DOMAIN posted' /\ posted'[i] = posted[i] BY DEF Kept
  <2>3. discovery[d].at \in Creating =>
          /\ discovery[d].contract \in Contracts
          /\ \E k \in DOMAIN lock : lock[k] = d
          /\ "outlasted" \in mishaps' \/
               /\ discovery[d].contract \in recent'
               /\ \A i \in DOMAIN jobs' : jobs'[i].open => jobs'[i].contract # discovery[d].contract
    BY <2>1 DEF Right
  <2>4. discovery[d].at \in Holding => Head(lock) = d BY <2>1 DEF Right
  <2>5. discovery[d].at = "posting" => "other" \in mishaps' \/ discovery[d].expected = Len(posted') + 1
    BY <2>1 DEF Right
  <2>6. discovery[d].at = "recording" =>
          \/ {"unread receipt", "other"} \subseteq mishaps'
          \/ discovery[d].id \in DOMAIN posted' /\ posted'[discovery[d].id] = discovery[d].contract
    <3>1. discovery[d].at = "recording" =>
            \/ {"unread receipt", "other"} \subseteq mishaps
            \/ discovery[d].id \in DOMAIN posted /\ posted[discovery[d].id] = discovery[d].contract
      BY <2>1 DEF Right
    <3> QED BY <2>2, <3>1
  <2> QED BY ONLY discovery' = discovery, lock' = lock, <2>3, <2>4, <2>5, <2>6, Zenon DEF Right
<1>4. \A d, e \in Discoveries : Apart(d, e)' BY <1>1 DEF Apart
<1>5. Intake!RecordedAsPosted /\ Intake!OneOpenJob BY DEF IntakeInv, Intake!RecordsMatchChain
<1>6. Intake!RecordedAsPosted' BY <1>5 DEF Intake!RecordedAsPosted, Kept
<1>7. Intake!OneOpenJob' BY <1>5 DEF Intake!OneOpenJob
<1> QED BY <1>2, <1>3, <1>4, <1>6, <1>7 DEF IntakeInv, Intake!RecordsMatchChain

\* A mark that expires while its job is created is a mishap.
LEMMA ExpireKeeps ==
  ASSUME IntakeInv, NEW c \in Contracts, Intake!Expire(c)
  PROVE  IntakeInv'
<1>1. /\ discovery' = discovery /\ lock' = lock /\ posted' = posted /\ jobs' = jobs
      /\ recent' = recent \ {c} /\ mishaps \subseteq mishaps'
      /\ "outlasted" \in mishaps' \/
           ~ \E d \in Discoveries : discovery[d].contract = c /\ discovery[d].at \in Creating
  BY DEF Intake!Expire, Intake!Mishap, Intake!NoMishap, Intake!Contract, Creating
<1>2. IntakeShape BY DEF IntakeInv
<1>3. Kept BY <1>1, <1>2 DEF IntakeShape, Kept
<1>4. \A i \in DOMAIN jobs : jobs[i] \in [contract : Contracts \cup {"none"}, open : BOOLEAN]
  BY <1>2 DEF IntakeShape
<1>5. "outlasted" \in mishaps' \/ \A d \in Discoveries :
         discovery[d].at \in Creating /\ discovery[d].contract \in recent => discovery[d].contract \in recent'
  BY <1>1
<1> QED BY <1>1, <1>3, <1>4, <1>5, NobodyMoves

LEMMA PostedByOtherKeeps ==
  ASSUME IntakeInv, Intake!PostedByOther
  PROVE  IntakeInv'
<1>1. /\ discovery' = discovery /\ lock' = lock /\ jobs' = jobs /\ recent' = recent
      /\ mishaps \subseteq mishaps' /\ "other" \in mishaps'
  BY DEF Intake!PostedByOther, Intake!Mishap, Intake!memory
<1>2. PICK c \in Contracts : posted' = Append(posted, c) BY DEF Intake!PostedByOther
<1>3. IntakeShape BY DEF IntakeInv
<1>4. Kept BY <1>2, <1>3, PostedGrows DEF IntakeShape, Kept
<1>5. \A i \in DOMAIN jobs : jobs[i] \in [contract : Contracts \cup {"none"}, open : BOOLEAN]
  BY <1>3 DEF IntakeShape
<1> QED BY <1>1, <1>4, <1>5, NobodyMoves

LEMMA JobEndsKeeps ==
  ASSUME IntakeInv, NEW i \in DOMAIN jobs, Intake!JobEnds(i)
  PROVE  IntakeInv'
<1>1. /\ discovery' = discovery /\ lock' = lock /\ posted' = posted /\ recent' = recent
      /\ mishaps' = mishaps /\ jobs' = [jobs EXCEPT ![i].open = FALSE]
  BY DEF Intake!JobEnds, Intake!NoMishap
<1>2. IntakeShape BY DEF IntakeInv
<1>3. Kept BY <1>1, <1>2 DEF IntakeShape, Kept
<1>4. \A k \in DOMAIN jobs : jobs[k] \in [contract : Contracts \cup {"none"}, open : BOOLEAN]
  BY <1>2 DEF IntakeShape
<1>5. \A k \in DOMAIN jobs :
         /\ jobs'[k] \in [contract : Contracts \cup {"none"}, open : BOOLEAN]
         /\ jobs'[k].contract = jobs[k].contract /\ (jobs'[k].open => jobs[k].open)
  BY <1>1, <1>4
<1>6. DOMAIN jobs' = DOMAIN jobs BY <1>1
<1> QED BY <1>1, <1>3, <1>5, <1>6, NobodyMoves

\* A restart forgets the jobs and ends what was under way.
LEMMA RestartKeeps ==
  ASSUME IntakeInv, Intake!Restart
  PROVE  IntakeInv'
<1> "unheard" \notin Creating /\ "ended" \notin Creating BY DEF Creating
<1>1. IntakeShape BY DEF IntakeInv
<1>2. /\ jobs' = <<>> /\ lock' = <<>> /\ posted' = posted
      /\ discovery' = [d \in Discoveries |-> IF discovery[d].at = "unheard" THEN Intake!Unheard ELSE
                                             [discovery[d] EXCEPT !.at = "ended"]]
  BY DEF Intake!Restart, Intake!At
<1>3. ASSUME NEW d \in Discoveries
      PROVE  discovery'[d] \in DiscoveryShape /\ discovery'[d].at \in {"unheard", "ended"}
  <2>1. discovery[d] \in DiscoveryShape BY <1>1 DEF IntakeShape
  <2>2. [discovery[d] EXCEPT !.at = "ended"] \in DiscoveryShape
        /\ [discovery[d] EXCEPT !.at = "ended"].at = "ended"
    BY <2>1, DiscoverySet DEF DiscoveryShape
  <2>3. Intake!Unheard \in DiscoveryShape /\ Intake!Unheard.at = "unheard"
    BY DEF Intake!Unheard, DiscoveryShape
  <2> QED BY <1>2, <2>2, <2>3
<1>4. discovery' \in [Discoveries -> DiscoveryShape]
  <2>1. discovery' = [d \in Discoveries |-> discovery'[d]] BY <1>2
  <2> QED BY <1>3, <2>1
<1>5. \A d \in Discoveries : Right(d)' /\ \A e \in Discoveries : Apart(d, e)' BY <1>3, OutOfIt
<1>6. IntakeShape' BY <1>1, <1>2, <1>4 DEF IntakeShape
<1>7. Intake!RecordsMatchChain'
  BY <1>2 DEF Intake!RecordsMatchChain, Intake!RecordedAsPosted, Intake!OneOpenJob
<1> QED BY <1>5, <1>6, <1>7 DEF IntakeInv

LEMMA IntakeBegins == Intake!Init => IntakeInv
<1> SUFFICES ASSUME Intake!Init PROVE IntakeInv
  OBVIOUS
<1> "unheard" \notin Creating /\ Holding \subseteq Creating /\ "posting" \in Holding /\ "recording" \in Holding
  BY DEF Creating, Holding
<1>1. jobs = <<>> /\ lock = <<>> /\ posted = <<>> /\ discovery = [d \in Discoveries |-> Intake!Unheard]
  BY DEF Intake!Init
<1>2. Intake!Unheard \in DiscoveryShape /\ Intake!Unheard.at = "unheard"
  BY DEF Intake!Unheard, DiscoveryShape
<1>3. IntakeShape BY <1>1, <1>2 DEF IntakeShape
<1>4. \A d \in Discoveries : discovery[d].at \notin Creating BY <1>1, <1>2
<1>5. \A d \in Discoveries : Right(d) /\ \A e \in Discoveries : Apart(d, e)
  BY <1>4 DEF Right, Apart
<1>6. Intake!RecordsMatchChain
  BY <1>1 DEF Intake!RecordsMatchChain, Intake!RecordedAsPosted, Intake!OneOpenJob
<1> QED BY <1>3, <1>5, <1>6 DEF IntakeInv

LEMMA IntakeGoesOn ==
  ASSUME IntakeInv, [Intake!Next]_Intake!vars
  PROVE  IntakeInv'
<1>1. CASE UNCHANGED Intake!vars
  <2>1. /\ discovery' = discovery /\ lock' = lock /\ posted' = posted /\ recent' = recent
        /\ mishaps' = mishaps /\ jobs' = jobs
    BY <1>1 DEF Intake!vars, Intake!memory
  <2>2. Kept /\ \A i \in DOMAIN jobs : jobs[i] \in [contract : Contracts \cup {"none"}, open : BOOLEAN]
    BY <2>1 DEF IntakeInv, IntakeShape, Kept
  <2> QED BY <2>1, <2>2, NobodyMoves
<1>2. CASE Intake!Next
  <2>1. ASSUME NEW d \in Discoveries, Intake!Discover(d) \/ Intake!Handling(d)
        PROVE  IntakeInv'
    BY <2>1, DiscoverKeeps, ExpectKeeps, PostKeeps, PostFailsKeeps, RecordKeeps, InviteKeeps,
       ArmKeeps DEF Intake!Handling
  <2> QED BY <1>2, <2>1, ExpireKeeps, JobEndsKeeps, PostedByOtherKeeps, RestartKeeps DEF Intake!Next
<1> QED BY <1>1, <1>2

\* What the orchestrator remembers of its jobs is what it posted.
THEOREM RecordsMatchChainHolds == Intake!Spec => []RecordsMatchChain
<1>1. IntakeInv => RecordsMatchChain BY DEF IntakeInv, RecordsMatchChain
<1>2. Intake!Init => IntakeInv BY IntakeBegins
<1>3. IntakeInv /\ [Intake!Next]_Intake!vars => IntakeInv' BY IntakeGoesOn
<1> QED BY <1>1, <1>2, <1>3, PTL DEF Intake!Spec

-----------------------------------------------------------------------------
(***************************************************************************)
(* The scanner.                                                            *)
(***************************************************************************)

First(list) == Scan!Min(list)

CycleShape == [at : {"resting", "fetching", "listing", "describing", "publishing", "advancing"},
               list : SUBSET Nat, done : Nat]

\* A cycle works on contracts that there are, and of those before one of its
\* list none has been forgotten; the one it publishes is marked as seen.
Sound(r) ==
    /\ r.list \subseteq 1..created
    /\ \A m \in r.list : \A c \in 1..m : c \in r.list \/ c \in seen \cup missed
    /\ r.at \in {"describing", "publishing", "advancing"} => r.list # {}
    /\ r.at \in {"publishing", "advancing"} => First(r.list) \in seen
    /\ r.at = "publishing" => published[First(r.list)] = 0

\* No two cycles publish the same contract.
Alone(k, j) ==
    \/ k = j \/ cycle[k].at # "publishing" \/ cycle[j].at # "publishing"
    \/ First(cycle[k].list) # First(cycle[j].list)

\* A published contract is marked, and the cursor has left none behind.
NothingLost ==
    /\ cursor \in 0..created
    /\ \A c \in 1..cursor : c \in seen \cup missed
    /\ published \in [1..MaxContracts -> {0, 1}]
    /\ \A c \in 1..MaxContracts : published[c] # 0 => c \in seen

ScanInv ==
    /\ created \in 0..MaxContracts /\ cycle \in [Cycles -> CycleShape]
    /\ NothingLost
    /\ \A k \in Cycles : Sound(cycle[k]) /\ \A j \in Cycles : Alone(k, j)

LEMMA FirstIsLeast ==
  ASSUME NEW list \in SUBSET Nat, list # {}
  PROVE  First(list) \in list /\ \A c \in list : First(list) <= c
<1>1. \E m \in list : \A n \in list : m <= n BY LeastNatural
<1> QED BY <1>1 DEF First, Scan!Min

\* A step of one cycle.
LEMMA CycleSteps ==
  ASSUME ScanInv, NEW k \in Cycles, NEW r \in CycleShape, cycle' = [cycle EXCEPT ![k] = r],
         created' = created, seen \subseteq seen', missed \subseteq missed',
         NothingLost', Sound(r)',
         \A j \in Cycles \ {k} : cycle[j].at = "publishing" =>
            /\ published'[First(cycle[j].list)] = 0
            /\ r.at = "publishing" => First(r.list) # First(cycle[j].list)
  PROVE  ScanInv'
<1>1. /\ created \in 0..MaxContracts /\ cycle \in [Cycles -> CycleShape]
      /\ \A j \in Cycles : Sound(cycle[j]) /\ \A i \in Cycles : Alone(j, i)
  BY DEF ScanInv
<1>2. /\ cycle' \in [Cycles -> CycleShape] /\ cycle'[k] = r
      /\ \A j \in Cycles \ {k} : cycle'[j] = cycle[j]
  BY <1>1
<1>3. ASSUME NEW j \in Cycles \ {k}
      PROVE  Sound(cycle[j])'
  <2>1. Sound(cycle[j]) BY <1>1
  <2> DEFINE q == cycle[j]
  <2>2. q.at = "publishing" => published'[First(q.list)] = 0 OBVIOUS
  <2>3. cycle'[j] = q BY <1>2
  <2> HIDE DEF q
  <2> QED BY <2>1, <2>2, <2>3 DEF Sound, q
<1>4. Sound(cycle[k])' BY <1>2 DEF Sound
<1>5. \A i, j \in Cycles : Alone(i, j)' BY <1>1, <1>2 DEF Alone
<1> QED BY <1>1, <1>2, <1>3, <1>4, <1>5 DEF ScanInv

\* What is sound stays so when more is seen and nothing published.
LEMMA NothingMore ==
  ASSUME ScanInv, NEW k \in Cycles, NEW r \in CycleShape, cycle' = [cycle EXCEPT ![k] = r],
         created' = created, seen' = seen, missed' = missed, published' = published, cursor' = cursor,
         r.at # "publishing", Sound(r)
  PROVE  ScanInv'
<1>1. NothingLost /\ \A j \in Cycles : Sound(cycle[j]) BY DEF ScanInv
<1>2. NothingLost' BY <1>1 DEF NothingLost
<1>3. Sound(r)' BY DEF Sound
<1>4. \A j \in Cycles \ {k} : cycle[j].at = "publishing" => published'[First(cycle[j].list)] = 0
  BY <1>1 DEF Sound
<1> QED BY <1>2, <1>3, <1>4, CycleSteps

LEMMA RestingSound == Scan!Resting \in CycleShape /\ Scan!Resting.at = "resting" /\ Sound(Scan!Resting)
BY DEF Scan!Resting, CycleShape, Sound

\* A cycle that goes to a point, with the list it has or another.
GoesTo(q, at) == [q EXCEPT !.at = at]
GoesWith(q, at, list) == [q EXCEPT !.at = at, !.list = list]

LEMMA CycleSet ==
  ASSUME NEW q \in CycleShape, NEW list \in SUBSET Nat,
         NEW at \in {"resting", "fetching", "listing", "describing", "publishing", "advancing"}
  PROVE  /\ GoesTo(q, at) \in CycleShape /\ GoesTo(q, at).at = at /\ GoesTo(q, at).list = q.list
         /\ GoesWith(q, at, list) \in CycleShape
         /\ GoesWith(q, at, list).at = at /\ GoesWith(q, at, list).list = list
BY DEF CycleShape, GoesTo, GoesWith

LEMMA DeployKeeps ==
  ASSUME ScanInv, Scan!Deploy
  PROVE  ScanInv'
<1>1. created \in 0..MaxContracts /\ NothingLost /\ MaxContracts \in Nat
  BY ProcessAssumption DEF ScanInv, Scan!ConstantsOK
<1>2. created' = created + 1 /\ created < MaxContracts /\ seen' = seen /\ missed' = missed
      /\ published' = published /\ cursor' = cursor /\ cycle' = cycle
  BY DEF Scan!Deploy
<1>3. created' \in 0..MaxContracts BY <1>1, <1>2
<1>4. NothingLost' BY <1>1, <1>2 DEF NothingLost
<1>5. ASSUME NEW k \in Cycles PROVE Sound(cycle[k])'
  <2>1. Sound(cycle[k]) BY DEF ScanInv
  <2>2. 1..created \subseteq 1..created' BY <1>1, <1>2
  <2> QED BY <1>2, <2>1, <2>2 DEF Sound
<1>6. \A k, j \in Cycles : Alone(k, j)' BY <1>2 DEF ScanInv, Alone
<1> QED BY <1>2, <1>3, <1>4, <1>5, <1>6 DEF ScanInv

\* A page leaves out what it notes as missed, and what the cursor has passed.
LEMMA StartKeeps ==
  ASSUME ScanInv, NEW k \in Cycles, Scan!Start(k)
  PROVE  ScanInv'
<1> DEFINE r == [at |-> "fetching", list |-> Scan!Page, done |-> 0]
<1>1. /\ created \in 0..MaxContracts /\ NothingLost /\ MaxContracts \in Nat
      /\ \A j \in Cycles : Sound(cycle[j])
  BY ProcessAssumption DEF ScanInv, Scan!ConstantsOK
<1>2. /\ cycle' = [cycle EXCEPT ![k] = r] /\ missed' = missed \cup ((cursor + 1 .. created) \ Scan!Page)
      /\ created' = created /\ seen' = seen /\ published' = published /\ cursor' = cursor
  BY DEF Scan!Start, Scan!AllWell
<1>3. Scan!Page \subseteq cursor + 1 .. created BY DEF Scan!Page
<1>4. cursor \in 0..created /\ cursor + 1 .. created \subseteq 1..created /\ 1..created \subseteq Nat
  BY <1>1 DEF NothingLost
<1>5. Scan!Page \in SUBSET Nat BY <1>3, <1>4
<1>6. r \in CycleShape /\ r.at = "fetching" /\ r.list = Scan!Page BY <1>5 DEF CycleShape
<1> HIDE DEF r
<1>12. PICK q \in CycleShape : q = r BY <1>6
<1>7. NothingLost' BY <1>1, <1>2 DEF NothingLost
<1>8. ASSUME NEW m \in q.list, NEW c \in 1..m
      PROVE  c \in q.list \/ c \in seen' \cup missed'
  <2>1. m \in cursor + 1 .. created BY <1>3, <1>6, <1>8, <1>12
  <2>2. c \in 1..cursor \/ c \in cursor + 1 .. created BY <1>1, <1>4, <2>1
  <2> QED BY <1>1, <1>2, <1>6, <1>12, <2>2 DEF NothingLost
<1>9. Sound(q)'
  <2>1. q.list \subseteq 1..created' BY <1>2, <1>3, <1>4, <1>6, <1>12
  <2> QED BY <1>6, <1>8, <1>12, <2>1 DEF Sound
<1>10. \A j \in Cycles \ {k} : cycle[j].at = "publishing" => published'[First(cycle[j].list)] = 0
  BY <1>1, <1>2 DEF Sound
<1>11. seen \subseteq seen' /\ missed \subseteq missed' /\ q.at # "publishing" BY <1>2, <1>6, <1>12
<1> QED BY <1>2, <1>7, <1>9, <1>10, <1>11, <1>12, CycleSteps

LEMMA FetchedKeeps ==
  ASSUME ScanInv, NEW k \in Cycles, Scan!Fetched(k)
  PROVE  ScanInv'
<1> DEFINE list == {c \in cycle[k].list : c > cursor}
           r == GoesWith(cycle[k], "listing", list)
<1>1. /\ cycle[k] \in CycleShape /\ Sound(cycle[k]) /\ NothingLost
      /\ created \in Nat
  BY ProcessAssumption DEF ScanInv, Scan!ConstantsOK
<1>2. /\ cycle' = [cycle EXCEPT ![k] = r] /\ created' = created /\ seen' = seen /\ missed' = missed
      /\ published' = published /\ cursor' = cursor
  BY DEF Scan!Fetched, Scan!AllWell, GoesWith
<1>3. cycle[k].list \in SUBSET Nat /\ list \in SUBSET Nat BY <1>1 DEF CycleShape
<1>4. r \in CycleShape /\ r.at = "listing" /\ r.list = list BY <1>1, <1>3, CycleSet
<1>5. ASSUME NEW m \in list, NEW c \in 1..m
      PROVE  c \in list \/ c \in seen \cup missed
  <2>1. c \in cycle[k].list \/ c \in seen \cup missed BY <1>1, <1>5 DEF Sound
  <2>2. c > cursor \/ c \in 1..cursor BY <1>1, <1>3 DEF NothingLost
  <2> QED BY <1>1, <2>1, <2>2 DEF NothingLost
<1>6. list \subseteq 1..created BY <1>1 DEF Sound
<1> HIDE DEF list, r
<1>7. Sound(r) BY <1>4, <1>5, <1>6 DEF Sound
<1> QED BY <1>2, <1>4, <1>7, NothingMore

\* A contract that is done with has been seen.
LEMMA DoneSound ==
  ASSUME ScanInv, NEW k \in Cycles, cycle[k].list # {}, Scan!Current(k) \in seen
  PROVE  Scan!Done(k) \in CycleShape /\ Scan!Done(k).at = "listing" /\ Sound(Scan!Done(k))
<1> DEFINE list == cycle[k].list \ {Scan!Current(k)}
<1>1. cycle[k] \in CycleShape /\ Sound(cycle[k]) BY DEF ScanInv
<1>2. list \in SUBSET Nat BY <1>1 DEF CycleShape
<1>3. Scan!Done(k) = GoesWith(cycle[k], "listing", list) BY DEF Scan!Done, GoesWith
<1>4. Scan!Done(k) \in CycleShape /\ Scan!Done(k).at = "listing" /\ Scan!Done(k).list = list
  BY <1>1, <1>2, <1>3, CycleSet
<1>5. list \subseteq 1..created BY <1>1 DEF Sound
<1>6. \A m \in list : \A c \in 1..m : c \in list \/ c \in seen \cup missed
  BY <1>1 DEF Sound
<1> HIDE DEF list
<1> QED BY <1>4, <1>5, <1>6 DEF Sound

LEMMA EndKeeps ==
  ASSUME ScanInv, NEW k \in Cycles,
         cycle' = [cycle EXCEPT ![k] = Scan!Resting],
         UNCHANGED <<created, seen, cursor, published, missed>>
  PROVE  ScanInv'
BY RestingSound, NothingMore

LEMMA DescribeKeeps ==
  ASSUME ScanInv, NEW k \in Cycles, Scan!Describe(k)
  PROVE  ScanInv'
<1> DEFINE r == GoesTo(cycle[k], "describing")
<1>1. cycle[k] \in CycleShape /\ Sound(cycle[k]) BY DEF ScanInv
<1>2. /\ cycle' = [cycle EXCEPT ![k] = r] /\ created' = created /\ seen' = seen /\ missed' = missed
      /\ published' = published /\ cursor' = cursor /\ cycle[k].list # {}
  BY DEF Scan!Describe, Scan!AllWell, Scan!Goto, GoesTo
<1>3. r \in CycleShape /\ r.at = "describing" /\ r.list = cycle[k].list BY <1>1, CycleSet
<1> HIDE DEF r
<1>4. Sound(r) BY <1>1, <1>2, <1>3 DEF Sound
<1> QED BY <1>2, <1>3, <1>4, NothingMore

\* Who marks a contract first is alone in publishing it, and it is not published.
LEMMA LookKeeps ==
  ASSUME ScanInv, NEW k \in Cycles, Scan!Look(k)
  PROVE  ScanInv'
<1> DEFINE r == GoesTo(cycle[k], "publishing")
           c == Scan!Current(k)
<1>1. /\ cycle[k] \in CycleShape /\ NothingLost /\ \A j \in Cycles : Sound(cycle[j])
      /\ created \in 0..MaxContracts /\ MaxContracts \in Nat
  BY ProcessAssumption DEF ScanInv, Scan!ConstantsOK
<1>2. /\ cycle[k].at = "describing" /\ created' = created /\ missed' = missed
      /\ published' = published /\ cursor' = cursor
      /\ IF c \in seen THEN cycle' = [cycle EXCEPT ![k] = Scan!Done(k)] /\ UNCHANGED seen
         ELSE cycle' = [cycle EXCEPT ![k] = r] /\ seen' = seen \cup {c}
  BY DEF Scan!Look, Scan!AllWell, Scan!At, Scan!Goto, Scan!Seen, GoesTo
<1>3. cycle[k].list # {} /\ cycle[k].list \in SUBSET Nat BY <1>1, <1>2 DEF Sound, CycleShape
<1>4. c = First(cycle[k].list) BY DEF Scan!Current, First
<1>5. CASE c \in seen
  BY <1>2, <1>3, <1>5, DoneSound, NothingMore
<1>6. CASE c \notin seen
  <2>1. cycle' = [cycle EXCEPT ![k] = r] /\ seen' = seen \cup {c} BY <1>2, <1>6
  <2>2. r \in CycleShape /\ r.at = "publishing" /\ r.list = cycle[k].list BY <1>1, CycleSet
  <2>3. c \in cycle[k].list BY <1>3, <1>4, FirstIsLeast
  <2>4. c \in 1..MaxContracts
    <3>1. c \in 1..created BY <1>1, <2>3 DEF Sound
    <3> QED BY <1>1, <3>1
  <2>5. published[c] = 0 BY <1>1, <1>6, <2>4 DEF NothingLost
  <2> HIDE DEF r
  <2>10. PICK q \in CycleShape, n \in Nat : q = r /\ n = c
    <3>1. c \in Nat BY <1>3, <2>3
    <3> QED BY <2>2, <3>1
  <2> HIDE DEF c
  <2>6. NothingLost' BY <1>1, <1>2, <2>1 DEF NothingLost
  <2>7. Sound(q)'
    <3>1. Sound(cycle[k]) BY <1>1
    <3>2. q.list = cycle[k].list /\ q.at = "publishing" /\ n = First(q.list) BY <1>4, <2>2, <2>10
    <3>3. n \in seen' /\ published'[n] = 0 BY <1>2, <2>1, <2>5, <2>10
    <3>4. \A m \in q.list : \A i \in 1..m : i \in q.list \/ i \in seen' \cup missed'
      BY <1>2, <2>1, <3>1, <3>2 DEF Sound
    <3>5. q.list \subseteq 1..created' /\ q.list # {} BY <1>2, <1>3, <3>1, <3>2 DEF Sound
    <3> QED BY <3>2, <3>3, <3>4, <3>5 DEF Sound
  <2>8. \A j \in Cycles \ {k} : cycle[j].at = "publishing" =>
          /\ published'[First(cycle[j].list)] = 0
          /\ q.at = "publishing" => First(q.list) # First(cycle[j].list)
    BY <1>1, <1>2, <1>4, <1>6, <2>2, <2>10 DEF Sound
  <2>9. seen \subseteq seen' /\ missed \subseteq missed' BY <1>2, <2>1
  <2>11. cycle' = [cycle EXCEPT ![k] = q] BY <2>1, <2>10
  <2> QED BY ONLY ScanInv, k \in Cycles, q \in CycleShape, <1>2, <2>6, <2>7, <2>8, <2>9, <2>11, CycleSteps
<1> QED BY <1>5, <1>6

\* The publication counts once, and is nobody else's.
LEMMA PublishedOnce ==
  ASSUME ScanInv, NEW k \in Cycles, cycle[k].at = "publishing", NEW n \in {0, 1},
         published' = [published EXCEPT ![Scan!Current(k)] = @ + n],
         UNCHANGED <<created, seen, cursor, missed>>
  PROVE  /\ NothingLost'
         /\ cycle[k].list # {} /\ Scan!Current(k) \in seen
         /\ \A j \in Cycles \ {k} : cycle[j].at = "publishing" => published'[First(cycle[j].list)] = 0
<1> DEFINE c == Scan!Current(k)
<1>1. /\ cycle \in [Cycles -> CycleShape] /\ NothingLost
      /\ created \in 0..MaxContracts /\ MaxContracts \in Nat
      /\ \A j \in Cycles : Sound(cycle[j]) /\ \A i \in Cycles : Alone(j, i)
  BY ProcessAssumption DEF ScanInv, Scan!ConstantsOK
<1>2. c = First(cycle[k].list) BY DEF Scan!Current, First
<1>3. \A j \in Cycles : cycle[j].at = "publishing" =>
         cycle[j].list # {} /\ cycle[j].list \in SUBSET Nat /\ cycle[j].list \subseteq 1..created
  BY <1>1 DEF Sound, CycleShape
<1>4. \A j \in Cycles : cycle[j].at = "publishing" => First(cycle[j].list) \in 1..MaxContracts
  BY <1>1, <1>3, FirstIsLeast
<1>5. c \in seen /\ published[c] = 0 BY <1>1, <1>2 DEF Sound
<1>6. c \in 1..MaxContracts BY <1>2, <1>4
<1>7. published \in [1..MaxContracts -> {0, 1}] BY <1>1 DEF NothingLost
<1> HIDE DEF c
<1>8. published' = [published EXCEPT ![c] = published[c] + n] BY DEF c
<1>9. /\ published' \in [1..MaxContracts -> {0, 1}] /\ published'[c] = n
      /\ \A i \in 1..MaxContracts \ {c} : published'[i] = published[i]
  <2>1. n = 0 + n BY <1>5
  <2>2. published' = [published EXCEPT ![c] = n] BY <1>5, <1>8, <2>1
  <2> QED BY <1>6, <1>7, <2>2
<1>10. NothingLost'
  <2>1. \A i \in 1..MaxContracts : published'[i] # 0 => i \in seen BY <1>1, <1>5, <1>9 DEF NothingLost
  <2> QED BY <1>1, <1>9, <2>1 DEF NothingLost
<1>11. ASSUME NEW j \in Cycles \ {k}, cycle[j].at = "publishing"
       PROVE  published'[First(cycle[j].list)] = 0
  <2>1. Alone(k, j) /\ Sound(cycle[j]) BY <1>1
  <2>2. First(cycle[j].list) # c /\ published[First(cycle[j].list)] = 0
    BY <1>2, <1>11, <2>1 DEF Alone, Sound
  <2> QED BY <1>4, <1>9, <1>11, <2>2
<1> QED BY <1>3, <1>5, <1>10, <1>11 DEF c

LEMMA PublishKeeps ==
  ASSUME ScanInv, NEW k \in Cycles, Scan!Publish(k)
  PROVE  ScanInv'
<1> DEFINE r == [cycle[k] EXCEPT !.at = "advancing", !.done = @ + 1]
<1>1. /\ cycle[k] \in CycleShape /\ Sound(cycle[k]) BY DEF ScanInv
<1>2. /\ cycle[k].at = "publishing" /\ cycle' = [cycle EXCEPT ![k] = r]
      /\ published' = [published EXCEPT ![Scan!Current(k)] = @ + 1]
      /\ UNCHANGED <<created, seen, cursor, missed>>
  BY DEF Scan!Publish, Scan!At, Scan!AllWell
<1>3. r \in CycleShape /\ r.at = "advancing" /\ r.list = cycle[k].list
  <2>1. cycle[k].done + 1 \in Nat BY <1>1 DEF CycleShape
  <2>2. \A m \in Nat : LET s == [cycle[k] EXCEPT !.at = "advancing", !.done = m]
                      IN s \in CycleShape /\ s.at = "advancing" /\ s.list = cycle[k].list
    BY <1>1 DEF CycleShape
  <2> QED BY <2>1, <2>2
<1>4. PICK q \in CycleShape : q = r BY <1>3
<1> HIDE DEF r
<1>5. /\ NothingLost'
      /\ \A j \in Cycles \ {k} : cycle[j].at = "publishing" => published'[First(cycle[j].list)] = 0
  BY <1>2, PublishedOnce
<1>6. q.at = "advancing" /\ q.list = cycle[k].list BY <1>3, <1>4
<1>7. Sound(q)' BY <1>1, <1>2, <1>6 DEF Sound
<1>8. cycle' = [cycle EXCEPT ![k] = q] BY <1>2, <1>4
<1> QED BY <1>2, <1>5, <1>6, <1>7, <1>8, CycleSteps

LEMMA PublishFailsKeeps ==
  ASSUME ScanInv, NEW k \in Cycles, Scan!PublishFails(k)
  PROVE  ScanInv'
<1>1. PICK r \in {Scan!Done(k), Scan!Resting}, n \in {0, 1} :
        /\ cycle' = [cycle EXCEPT ![k] = r]
        /\ published' = [published EXCEPT ![Scan!Current(k)] = @ + n]
  BY DEF Scan!PublishFails
<1>2. cycle[k].at = "publishing" /\ UNCHANGED <<created, seen, cursor, missed>>
  BY DEF Scan!PublishFails, Scan!At
<1>3. /\ NothingLost' /\ cycle[k].list # {} /\ Scan!Current(k) \in seen
      /\ \A j \in Cycles \ {k} : cycle[j].at = "publishing" => published'[First(cycle[j].list)] = 0
  BY <1>1, <1>2, PublishedOnce
<1>4. r \in CycleShape /\ r.at \in {"listing", "resting"} /\ Sound(r)
  BY <1>1, <1>3, DoneSound, RestingSound
<1>5. Sound(r)' BY <1>2, <1>4 DEF Sound
<1> QED BY <1>1, <1>2, <1>3, <1>4, <1>5, CycleSteps

\* The cursor goes to the first of a list, before which nothing is forgotten.
LEMMA AdvanceKeeps ==
  ASSUME ScanInv, NEW k \in Cycles, Scan!Advance(k)
  PROVE  ScanInv'
<1>1. /\ cycle[k] \in CycleShape /\ NothingLost /\ \A j \in Cycles : Sound(cycle[j])
      /\ created \in 0..MaxContracts /\ MaxContracts \in Nat
  BY ProcessAssumption DEF ScanInv, Scan!ConstantsOK
<1>2. /\ cycle[k].at = "advancing" /\ cursor' = Scan!Current(k)
      /\ cycle' = [cycle EXCEPT ![k] = Scan!Done(k)]
      /\ UNCHANGED <<created, seen, published, missed>>
  BY DEF Scan!Advance, Scan!At, Scan!NewCursor, Scan!AllWell
<1>3. /\ cycle[k].list # {} /\ cycle[k].list \in SUBSET Nat /\ cycle[k].list \subseteq 1..created
      /\ First(cycle[k].list) \in seen
  BY <1>1, <1>2 DEF Sound, CycleShape
<1>4. Scan!Current(k) = First(cycle[k].list) BY DEF Scan!Current, First
<1>5. cursor' \in cycle[k].list /\ \A c \in cycle[k].list : cursor' <= c
  BY <1>2, <1>3, <1>4, FirstIsLeast
<1>6. cursor' \in 1..created BY <1>3, <1>5
<1>7. ASSUME NEW c \in 1..cursor'
      PROVE  c \in seen \cup missed
  <2>1. c \in cycle[k].list \/ c \in seen \cup missed BY <1>1, <1>5, <1>7 DEF Sound
  <2>2. c \in cycle[k].list => c = cursor' BY <1>5, <1>6, <1>7
  <2> QED BY <1>2, <1>3, <1>4, <2>1, <2>2
<1>8. NothingLost' BY <1>1, <1>2, <1>6, <1>7 DEF NothingLost
<1>9. Scan!Done(k) \in CycleShape /\ Scan!Done(k).at = "listing" /\ Sound(Scan!Done(k))
  BY <1>3, <1>4, DoneSound
<1>10. PICK q \in CycleShape : q = Scan!Done(k) BY <1>9
<1>11. q.at = "listing" /\ Sound(q) BY <1>9, <1>10
<1>12. Sound(q)' BY <1>2, <1>11 DEF Sound
<1>13. \A j \in Cycles \ {k} : cycle[j].at = "publishing" => published'[First(cycle[j].list)] = 0
  BY <1>1, <1>2 DEF Sound
<1>14. cycle' = [cycle EXCEPT ![k] = q] BY <1>2, <1>10
<1> QED BY <1>2, <1>8, <1>11, <1>12, <1>13, <1>14, CycleSteps

\* Everything that a cycle works on is forgotten, and what the cursor has passed
\* is noted as missed.
LEMMA RebootKeeps ==
  ASSUME ScanInv, Scan!Reboot
  PROVE  ScanInv'
<1>1. created \in 0..MaxContracts BY DEF ScanInv
<1>2. /\ cursor' \in 0..created /\ created' = created /\ missed' = missed \cup 1..cursor'
      /\ cycle' = [k \in Cycles |-> Scan!Resting]
      /\ published' = [c \in 1..MaxContracts |-> 0]
  BY DEF Scan!Reboot
<1>3. NothingLost' BY <1>2 DEF NothingLost
<1>4. Scan!Resting \in CycleShape /\ Scan!Resting.at = "resting" /\ Scan!Resting.list = {}
  BY DEF Scan!Resting, CycleShape
<1>5. \A k \in Cycles : cycle'[k] = Scan!Resting BY <1>2
<1>6. \A k \in Cycles : Sound(cycle[k])' BY <1>4, <1>5 DEF Sound
<1>7. \A k, j \in Cycles : Alone(k, j)' BY <1>4, <1>5 DEF Alone
<1>8. cycle' \in [Cycles -> CycleShape] BY <1>2, <1>4
<1> QED BY <1>1, <1>2, <1>3, <1>6, <1>7, <1>8 DEF ScanInv

LEMMA ScanBegins == Scan!Init => ScanInv
<1> SUFFICES ASSUME Scan!Init PROVE ScanInv
  OBVIOUS
<1>1. /\ created = 0 /\ cursor = 0 /\ cycle = [k \in Cycles |-> Scan!Resting]
      /\ published = [c \in 1..MaxContracts |-> 0] /\ MaxContracts \in Nat
  BY ProcessAssumption DEF Scan!Init, Scan!ConstantsOK
<1>2. Scan!Resting \in CycleShape /\ Scan!Resting.at = "resting" /\ Sound(Scan!Resting)
  BY RestingSound
<1>3. NothingLost BY <1>1 DEF NothingLost
<1>4. \A k, j \in Cycles : Alone(k, j) BY <1>1, <1>2 DEF Alone
<1> QED BY <1>1, <1>2, <1>3, <1>4 DEF ScanInv

LEMMA ScanGoesOn ==
  ASSUME ScanInv, [Scan!Next]_Scan!scannerVars
  PROVE  ScanInv'
<1>1. CASE UNCHANGED Scan!scannerVars
  <2>1. UNCHANGED <<created, seen, cursor, cycle, published, missed>> BY <1>1 DEF Scan!scannerVars
  <2>2. NothingLost' BY <2>1 DEF ScanInv, NothingLost
  <2>3. \A k \in Cycles : Sound(cycle[k])' BY <2>1 DEF ScanInv, Sound
  <2>4. \A k, j \in Cycles : Alone(k, j)' BY <2>1 DEF ScanInv, Alone
  <2> QED BY <2>1, <2>2, <2>3, <2>4 DEF ScanInv
<1>2. CASE Scan!Next
  <2>1. ASSUME NEW k \in Cycles, Scan!End(k) \/ Scan!CannotDescribe(k)
        PROVE  ScanInv'
    BY <2>1, EndKeeps DEF Scan!End, Scan!CannotDescribe
  <2>2. ASSUME NEW k \in Cycles, Scan!Cycling(k) \/ Scan!CannotDescribe(k) \/ Scan!PublishFails(k)
        PROVE  ScanInv'
    BY <2>1, <2>2, StartKeeps, FetchedKeeps, DescribeKeeps, LookKeeps, PublishKeeps, AdvanceKeeps,
       PublishFailsKeeps DEF Scan!Cycling
  <2> QED BY <1>2, <2>2, DeployKeeps, RebootKeeps DEF Scan!Next
<1> QED BY <1>1, <1>2

\* Cycles that overlap publish no contract twice, and the cursor passes none
\* that no cycle has looked at, but those noted as missed.
THEOREM ScannedOnceHolds == Scan!Spec => []ScannedOnce
<1>1. ScanInv => ScannedOnce
  <2> SUFFICES ASSUME ScanInv
               PROVE  /\ \A c \in DOMAIN published : published[c] <= 1
                      /\ \A c \in 1..cursor : c \in seen \cup missed
    BY DEF ScannedOnce, Scan!ScannedOnce
  <2> QED BY DEF ScanInv, NothingLost
<1>2. Scan!Init => ScanInv BY ScanBegins
<1>3. ScanInv /\ [Scan!Next]_Scan!scannerVars => ScanInv' BY ScanGoesOn
<1> QED BY <1>1, <1>2, <1>3, PTL DEF Scan!Spec

-----------------------------------------------------------------------------
(***************************************************************************)
(* The dashboard's event feed: what its store shows is what the blocks     *)
(* handled so far say.                                                     *)
(***************************************************************************)

\* The parts of a store.
Stored(s) ==
    /\ s = [job |-> s.job, bids |-> s.bids, winners |-> s.winners, subAgent |-> s.subAgent,
            settled |-> s.settled, slashes |-> s.slashes, revenue |-> s.revenue,
            flows |-> s.flows]
    /\ s.subAgent \in BOOLEAN

\* What the handling of each kind of event does to it.
LEMMA JobPostedShown ==
  ASSUME NEW s, Stored(s), NEW B, NEW r, r = Feed!OnJobPosted(s, B)
  PROVE  /\ Stored(r)
         /\ r.job = IF B = {} THEN s.job ELSE "open"
         /\ r.bids = s.bids /\ r.winners = s.winners /\ r.subAgent = s.subAgent /\ r.flows = s.flows
BY DEF Stored, Feed!OnJobPosted

LEMMA BidsShown ==
  ASSUME NEW s, Stored(s), NEW B, NEW r, r = Feed!OnBidSubmitted(s, B)
  PROVE  /\ Stored(r)
         /\ r.bids = s.bids + Feed!Cardinality(B) /\ r.flows = s.flows \cup B
         /\ r.job = s.job /\ r.winners = s.winners /\ r.subAgent = s.subAgent
BY DEF Stored, Feed!OnBidSubmitted, Feed!AddFlows

LEMMA WinnersShown ==
  ASSUME NEW s, Stored(s), NEW B, NEW r, r = Feed!OnWinnersSelected(s, B)
  PROVE  /\ Stored(r)
         /\ r.winners = (IF B = {} THEN s.winners ELSE "contract") /\ r.flows = s.flows \cup B
         /\ r.job = s.job /\ r.bids = s.bids /\ r.subAgent = s.subAgent
BY DEF Stored, Feed!OnWinnersSelected, Feed!AddFlows

LEMMA EndShown ==
  ASSUME NEW s, Stored(s), NEW B, NEW status, NEW r, r = Feed!OnJobEnded(s, B, status)
  PROVE  /\ Stored(r)
         /\ r.job = IF B = {} \/ s.job = "absent" THEN s.job ELSE status
         /\ r.bids = s.bids /\ r.winners = s.winners /\ r.subAgent = s.subAgent /\ r.flows = s.flows
BY DEF Stored, Feed!OnJobEnded

LEMMA CreatedShown ==
  ASSUME NEW s, Stored(s), NEW B, NEW r, r = Feed!OnSubAuctionCreated(s, B)
  PROVE  /\ Stored(r) /\ (B = {} => r.subAgent = s.subAgent)
         /\ r.job = s.job /\ r.bids = s.bids /\ r.winners = s.winners /\ r.flows = s.flows
BY DEF Stored, Feed!OnSubAuctionCreated

LEMMA SelectedShown ==
  ASSUME NEW s, Stored(s), NEW B, NEW r, r = Feed!OnSubContractorSelected(s, B)
  PROVE  /\ Stored(r) /\ (B = {} => r.subAgent = s.subAgent) /\ (B # {} => r.subAgent)
         /\ r.job = s.job /\ r.bids = s.bids /\ r.winners = s.winners /\ r.flows = s.flows
BY DEF Stored, Feed!OnSubContractorSelected

LEMMA AcceptedShown ==
  ASSUME NEW s, Stored(s), NEW B, NEW r, r = Feed!OnResultAccepted(s, B)
  PROVE  /\ Stored(r) /\ r.subAgent = s.subAgent
         /\ r.flows = s.flows \cup (IF s.subAgent THEN B ELSE {})
         /\ r.job = s.job /\ r.bids = s.bids /\ r.winners = s.winners
BY DEF Stored, Feed!OnResultAccepted, Feed!AddFlows

LEMMA PurchasedShown ==
  ASSUME NEW s, Stored(s), NEW B, NEW r, r = Feed!OnDataPurchased(s, B)
  PROVE  /\ Stored(r) /\ r.flows = s.flows \cup B
         /\ r.job = s.job /\ r.bids = s.bids /\ r.winners = s.winners /\ r.subAgent = s.subAgent
BY DEF Stored, Feed!OnDataPurchased, Feed!AddFlows

LEMMA SettledShown ==
  ASSUME NEW s, Stored(s), NEW B, NEW r, r = Feed!OnJobSettled(s, B)
  PROVE  /\ Stored(r) /\ r.flows = s.flows
         /\ r.job = s.job /\ r.bids = s.bids /\ r.winners = s.winners /\ r.subAgent = s.subAgent
BY DEF Stored, Feed!OnJobSettled

\* What a job's status becomes when a poll has found these blocks.
JobAfter(job, found) ==
    LET j == IF Feed!Of(found, "JobPosted") = {} THEN job ELSE "open"
        k == IF Feed!Of(found, "JobCancelled") = {} \/ j = "absent" THEN j ELSE "cancelled"
    IN  IF Feed!Of(found, "JobCompleted") = {} \/ k = "absent" THEN k ELSE "completed"

\* What the first part of a poll does to each field.
LEMMA BeforeAwaitShown ==
  ASSUME NEW s, Stored(s), NEW found, NEW r, r = Feed!BeforeAwait(s, found)
  PROVE  /\ Stored(r)
         /\ r.job = JobAfter(s.job, found)
         /\ r.bids = s.bids + Feed!Cardinality(Feed!Of(found, "BidSubmitted"))
         /\ r.winners = (IF Feed!Of(found, "WinnersSelected") = {} THEN s.winners ELSE "contract")
         /\ Feed!Of(found, "SubContractorSelected") # {} => r.subAgent
         /\ Feed!Of(found, "SubContractorSelected") = {} /\ Feed!Of(found, "SubAuctionCreated") = {}
               => r.subAgent = s.subAgent
         /\ r.flows = s.flows \cup Feed!Of(found, "BidSubmitted")
                              \cup Feed!Of(found, "WinnersSelected")
                              \cup (IF r.subAgent THEN Feed!Of(found, "ResultAccepted") ELSE {})
                              \cup Feed!Of(found, "DataPurchased")
<1> DEFINE s1 == Feed!OnJobPosted(s, Feed!Of(found, "JobPosted"))
           s2 == Feed!OnBidSubmitted(s1, Feed!Of(found, "BidSubmitted"))
           s3 == Feed!OnWinnersSelected(s2, Feed!Of(found, "WinnersSelected"))
           s4 == Feed!OnJobEnded(s3, Feed!Of(found, "JobCancelled"), "cancelled")
           s5 == Feed!OnJobEnded(s4, Feed!Of(found, "JobCompleted"), "completed")
           s6 == Feed!OnSubAuctionCreated(s5, Feed!Of(found, "SubAuctionCreated"))
           s7 == Feed!OnSubContractorSelected(s6, Feed!Of(found, "SubContractorSelected"))
           s8 == Feed!OnResultAccepted(s7, Feed!Of(found, "ResultAccepted"))
           s9 == Feed!OnDataPurchased(s8, Feed!Of(found, "DataPurchased"))
<1>1. r = Feed!OnJobSettled(s9, Feed!Of(found, "JobSettled"))
  BY DEF Feed!BeforeAwait
<1>2. /\ Stored(s1)
      /\ s1.job = IF Feed!Of(found, "JobPosted") = {} THEN s.job ELSE "open"
      /\ s1.bids = s.bids /\ s1.winners = s.winners /\ s1.subAgent = s.subAgent
      /\ s1.flows = s.flows
  BY JobPostedShown
<1> HIDE DEF s1
<1>3. /\ Stored(s2)
      /\ s2.bids = s1.bids + Feed!Cardinality(Feed!Of(found, "BidSubmitted"))
      /\ s2.flows = s1.flows \cup Feed!Of(found, "BidSubmitted")
      /\ s2.job = s1.job /\ s2.winners = s1.winners /\ s2.subAgent = s1.subAgent
  BY <1>2, BidsShown
<1> HIDE DEF s2
<1>4. /\ Stored(s3)
      /\ s3.winners = (IF Feed!Of(found, "WinnersSelected") = {} THEN s2.winners ELSE "contract")
      /\ s3.flows = s2.flows \cup Feed!Of(found, "WinnersSelected")
      /\ s3.job = s2.job /\ s3.bids = s2.bids /\ s3.subAgent = s2.subAgent
  BY <1>3, WinnersShown
<1> HIDE DEF s3
<1>5. /\ Stored(s4)
      /\ s4.job = IF Feed!Of(found, "JobCancelled") = {} \/ s3.job = "absent" THEN s3.job
                  ELSE "cancelled"
      /\ s4.bids = s3.bids /\ s4.winners = s3.winners /\ s4.subAgent = s3.subAgent
      /\ s4.flows = s3.flows
  BY <1>4, EndShown
<1> HIDE DEF s4
<1>6. /\ Stored(s5)
      /\ s5.job = IF Feed!Of(found, "JobCompleted") = {} \/ s4.job = "absent" THEN s4.job
                  ELSE "completed"
      /\ s5.bids = s4.bids /\ s5.winners = s4.winners /\ s5.subAgent = s4.subAgent
      /\ s5.flows = s4.flows
  BY <1>5, EndShown
<1> HIDE DEF s5
<1>7. /\ Stored(s6)
      /\ Feed!Of(found, "SubAuctionCreated") = {} => s6.subAgent = s5.subAgent
      /\ s6.job = s5.job /\ s6.bids = s5.bids /\ s6.winners = s5.winners
      /\ s6.flows = s5.flows
  BY <1>6, CreatedShown
<1> HIDE DEF s6
<1>8. /\ Stored(s7)
      /\ Feed!Of(found, "SubContractorSelected") = {} => s7.subAgent = s6.subAgent
      /\ Feed!Of(found, "SubContractorSelected") # {} => s7.subAgent
      /\ s7.job = s6.job /\ s7.bids = s6.bids /\ s7.winners = s6.winners
      /\ s7.flows = s6.flows
  BY <1>7, SelectedShown
<1> HIDE DEF s7
<1>9. /\ Stored(s8) /\ s8.subAgent = s7.subAgent
      /\ s8.flows = s7.flows \cup (IF s7.subAgent THEN Feed!Of(found, "ResultAccepted") ELSE {})
      /\ s8.job = s7.job /\ s8.bids = s7.bids /\ s8.winners = s7.winners
  BY <1>8, AcceptedShown
<1> HIDE DEF s8
<1>10. /\ Stored(s9) /\ s9.flows = s8.flows \cup Feed!Of(found, "DataPurchased")
       /\ s9.job = s8.job /\ s9.bids = s8.bids /\ s9.winners = s8.winners
       /\ s9.subAgent = s8.subAgent
  BY <1>9, PurchasedShown
<1> HIDE DEF s9
<1>11. /\ Stored(r) /\ r.flows = s9.flows
       /\ r.job = s9.job /\ r.bids = s9.bids /\ r.winners = s9.winners
       /\ r.subAgent = s9.subAgent
  BY <1>1, <1>10, SettledShown
<1>12. r.flows = s.flows \cup Feed!Of(found, "BidSubmitted")
                         \cup Feed!Of(found, "WinnersSelected")
                         \cup (IF r.subAgent THEN Feed!Of(found, "ResultAccepted") ELSE {})
                         \cup Feed!Of(found, "DataPurchased")
  BY ONLY <1>2, <1>3, <1>4, <1>5, <1>6, <1>7, <1>8, <1>9, <1>10, <1>11
<1>13. r.job = JobAfter(s.job, found)
  BY ONLY <1>2, <1>3, <1>4, <1>5, <1>6, <1>7, <1>8, <1>9, <1>10, <1>11 DEF JobAfter
<1>14. /\ r.bids = s.bids + Feed!Cardinality(Feed!Of(found, "BidSubmitted"))
       /\ r.winners = (IF Feed!Of(found, "WinnersSelected") = {} THEN s.winners ELSE "contract")
       /\ Feed!Of(found, "SubContractorSelected") # {} => r.subAgent
       /\ Feed!Of(found, "SubContractorSelected") = {} /\ Feed!Of(found, "SubAuctionCreated") = {}
             => r.subAgent = s.subAgent
  BY ONLY <1>2, <1>3, <1>4, <1>5, <1>6, <1>7, <1>8, <1>9, <1>10, <1>11
<1> QED BY ONLY <1>11, <1>12, <1>13, <1>14

\* What the second part does.
LEMMA AfterAwaitShown ==
  ASSUME NEW s, Stored(s), NEW found, NEW r, r = Feed!AfterAwait(s, found)
  PROVE  /\ Stored(r) /\ r.flows = s.flows \cup Feed!Of(found, "SlashInitiated")
         /\ r.job = s.job /\ r.bids = s.bids /\ r.winners = s.winners /\ r.subAgent = s.subAgent
BY DEF Stored, Feed!AfterAwait, Feed!OnFeeReceived, Feed!OnSlashInitiated,
   Feed!AddFlows

\* Messages leave alone what the contracts' events say, if only the chain counts.
LEMMA MessagesShown ==
  ASSUME NEW s, Stored(s), NEW new, NEW r, r = Feed!RouteMessages(s, new)
  PROVE  /\ Stored(r) /\ r.flows = s.flows /\ r.subAgent = s.subAgent
         /\ strict => r.job = s.job /\ r.bids = s.bids
         /\ r.winners = "contract" <=> s.winners = "contract"
<1>1. Stored(r) /\ r.flows = s.flows /\ r.subAgent = s.subAgent
  BY DEF Stored, Feed!RouteMessages
<1>2. strict => r.job = s.job /\ r.bids = s.bids
  BY DEF Stored, Feed!RouteMessages, Feed!JobAfterInvite
<1>3. r.winners = "contract" <=> s.winners = "contract"
  BY DEF Stored, Feed!RouteMessages, Feed!WinnersMayChange
<1> QED BY <1>1, <1>2, <1>3

-----------------------------------------------------------------------------
\* The state the feed may be in; stories are those the contracts allow.
PollShape == [pc : {"idle", "querying", "settling"}, of : 1..MaxServices, from : Nat, to : Nat,
              got : SUBSET Nat]

FeedTypes ==
    /\ story \in Seq(Feed!Kinds) /\ Feed!Legal(story)
    /\ height \in 0..Len(story) /\ strict \in BOOLEAN /\ stale \in BOOLEAN
    /\ service \in 1..MaxServices
    /\ lastProcessedBlock \in [1..MaxServices -> Nat \cup {-1}]
    /\ inFlight \in [1..MaxServices -> BOOLEAN]
    /\ poll \in [Polls -> [pc : {"idle", "querying", "settling"}, of : 1..MaxServices,
                           from : Nat, to : Nat, got : SUBSET Nat]]
    /\ covered \subseteq 1..height
    /\ Stored(shown)

Reach(p) == poll[p].from .. poll[p].to
Busy(p) == poll[p].pc # "idle"

\* A poll that is on its way is the only one of its service, and takes up where
\* the service has got to; no service has begun before its time.
PollsSound ==
    /\ \A p \in Polls : Busy(p) =>
         /\ inFlight[poll[p].of] /\ poll[p].of <= service
         /\ lastProcessedBlock[poll[p].of] # -1
         /\ poll[p].from = lastProcessedBlock[poll[p].of] + 1
         /\ poll[p].from <= poll[p].to /\ poll[p].to <= height
    /\ \A p, q \in Polls : Busy(p) /\ Busy(q) /\ poll[p].of = poll[q].of => p = q
    /\ \A p \in Polls : poll[p].pc = "settling" => poll[p].got \subseteq Reach(p)
    /\ \A i \in 1..MaxServices : i > service => lastProcessedBlock[i] = -1

\* What was handled is not ahead of the poll of the active service, unless a
\* stopped one has written.
NotAhead ==
    ~stale => \A p \in Polls : poll[p].pc = "querying" /\ poll[p].of = service =>
                \A b \in covered : b <= poll[p].to

\* The first service never handles a block twice.
NotTwice ==
    service = 1 => \A b \in covered :
      \/ b <= lastProcessedBlock[1]
      \/ \E p \in Polls : poll[p].pc = "settling" /\ b <= poll[p].to

\* The blocks that were handled with nothing withheld.
Known == covered \ lost

\* What the blocks say of the job.
JobOf(blocks) ==
    IF "JobPosted" \notin Feed!Events(blocks) THEN "absent"
    ELSE IF "JobCancelled" \in Feed!Events(blocks) THEN "cancelled"
    ELSE IF "JobCompleted" \in Feed!Events(blocks) THEN "completed" ELSE "open"

\* The job's status, winners and bids.
JobIsShown ==
    /\ strict /\ ~stale => shown.job = JobOf(covered)
    /\ shown.winners = "contract" <=> "WinnersSelected" \in Feed!Events(covered)
    /\ strict /\ service = 1 => shown.bids = Cardinality(Feed!Of(covered, "BidSubmitted"))

\* A payment that was handled is shown, or will be by the poll that found it.
PaidIsShown ==
    \A b \in Known :
      /\ story[b] \in {"BidSubmitted", "WinnersSelected", "DataPurchased"} => b \in shown.flows
      /\ story[b] \in {"JobSettled", "SlashInitiated"} =>
           \/ b \in shown.flows
           \/ \E p \in Polls : poll[p].pc = "settling" /\ b \in poll[p].got

\* Who has the sub-job is known as long as the event that says so is, and so
\* is what it was paid.
SubJobIsShown ==
    ~stale /\ "SubContractorSelected" \in Feed!Events(Known) =>
      /\ shown.subAgent
      /\ \A b \in Known : story[b] = "ResultAccepted" => b \in shown.flows

\* The store says what the chain does, or will when a poll that waits goes on.
StoreSound == JobIsShown /\ PaidIsShown /\ SubJobIsShown
\* Polls, services and handled blocks fit together.
PollingSound == FeedTypes /\ PollsSound /\ NotAhead /\ NotTwice

\* A step that handles no block leaves this as it is.
LEMMA StoreStays ==
  ASSUME StoreSound,
         story' = story /\ strict' = strict /\ covered' = covered /\ lost' = lost /\ stale' = stale,
         service' = 1 => service = 1,
         shown'.winners = "contract" <=> shown.winners = "contract",
         shown'.flows = shown.flows, shown'.subAgent = shown.subAgent,
         strict => shown'.job = shown.job /\ shown'.bids = shown.bids,
         \A p \in Polls : poll[p].pc = "settling" =>
                           poll'[p].pc = "settling" /\ poll'[p].got = poll[p].got
  PROVE  StoreSound'
<1>1. Feed!Events(covered)' = Feed!Events(covered) /\ Known' = Known
      /\ Feed!Of(covered, "BidSubmitted")' = Feed!Of(covered, "BidSubmitted")
      /\ Feed!Events(Known)' = Feed!Events(Known)
  BY DEF Feed!Events, Feed!Of, Known
<1>2. JobOf(covered)' = JobOf(covered)
  BY <1>1 DEF JobOf
<1>3. JobIsShown'
  BY <1>1, <1>2 DEF StoreSound, JobIsShown
<1>4. PaidIsShown'
  BY <1>1 DEF StoreSound, PaidIsShown
<1>5. SubJobIsShown'
  BY <1>1 DEF StoreSound, SubJobIsShown
<1> QED BY <1>3, <1>4, <1>5 DEF StoreSound

\* The same for what is known of the polls, if the services and the handled
\* blocks stay.
LEMMA QuietPolls ==
  ASSUME PollingSound, UNCHANGED <<story, height, strict, service, lastProcessedBlock, inFlight,
                                poll, covered, stale>>, Stored(shown')
  PROVE  PollingSound'
<1>1. FeedTypes'
  BY DEF PollingSound, FeedTypes, Stored
<1>2. PollsSound'
  BY DEF PollingSound, PollsSound, Busy, Reach
<1>3. NotAhead'
  BY DEF PollingSound, NotAhead
<1>4. NotTwice'
  BY DEF PollingSound, NotTwice
<1> QED BY <1>1, <1>2, <1>3, <1>4 DEF PollingSound

\* Messages of the events API.
LEMMA MessagesKeep ==
  ASSUME PollingSound, StoreSound, Feed!PollEventsAPI
  PROVE  PollingSound' /\ StoreSound'
<1>1. PICK new : shown' = Feed!RouteMessages(shown, new)
  BY DEF Feed!PollEventsAPI
<1>2. UNCHANGED <<story, height, strict, log, service, lastProcessedBlock, inFlight,
                  poll, covered, lost, stale>>
  BY DEF Feed!PollEventsAPI
<1>3. Stored(shown)
  BY DEF PollingSound, FeedTypes
<1>4. /\ Stored(shown') /\ shown'.flows = shown.flows /\ shown'.subAgent = shown.subAgent
      /\ strict => shown'.job = shown.job /\ shown'.bids = shown.bids
      /\ shown'.winners = "contract" <=> shown.winners = "contract"
  BY <1>1, <1>3, MessagesShown
<1>5. PollingSound'
  BY <1>2, <1>4, QuietPolls
<1>6. StoreSound'
  BY <1>2, <1>4, StoreStays
<1> QED BY <1>5, <1>6

\* A new service, a new block, a new message.
LEMMA OutsideKeeps ==
  ASSUME PollingSound, StoreSound, Feed!Reconnect \/ Feed!Mine \/ Feed!Say \/ UNCHANGED feedVars
  PROVE  PollingSound' /\ StoreSound'
<1>1. /\ UNCHANGED <<story, strict, lastProcessedBlock, inFlight, poll, shown, covered, lost, stale>>
      /\ \/ service' = service /\ height' = height
         \/ service' = service + 1 /\ service < MaxServices /\ height' = height
         \/ service' = service /\ height' = height + 1 /\ height < Len(story)
  BY DEF Feed!Reconnect, Feed!Mine, Feed!Say, Feed!AllWell, feedVars
<1>2. /\ height \in Nat /\ height' \in 0..Len(story) /\ height <= height'
      /\ service \in Nat /\ service' \in 1..MaxServices /\ service <= service' 
      /\ service' = 1 => service = 1
  <2>1. /\ story \in Seq(Feed!Kinds) /\ height \in 0..Len(story)
        /\ service \in 1..MaxServices /\ MaxServices \in Nat
    BY FeedAssumption DEF PollingSound, FeedTypes, Feed!ConstantsOK
  <2>2. Len(story) \in Nat /\ Len(story)' = Len(story)
    BY <1>1, <2>1
  <2>3. /\ height \in 0..Len(story) /\ service \in 1..MaxServices /\ MaxServices \in Nat
    BY <2>1
  <2> QED BY ONLY <1>1, <2>2, <2>3
<1>3. StoreSound'
  BY <1>1, <1>2, StoreStays
<1>4. FeedTypes'
  <2>1. covered' \subseteq 1..height'
    BY <1>1, <1>2 DEF PollingSound, FeedTypes
  <2>2. Stored(shown)'
    BY <1>1 DEF PollingSound, FeedTypes, Stored
  <2>3. Feed!Legal(story)'
    BY <1>1 DEF PollingSound, FeedTypes
  <2> QED BY <1>1, <1>2, <2>1, <2>2, <2>3 DEF PollingSound, FeedTypes
<1>5. PollsSound'
  <2>1. \A p \in Polls : /\ Busy(p)' = Busy(p) /\ Reach(p)' = Reach(p)
                         /\ poll[p].of \in Nat /\ poll[p].to \in Nat
    BY <1>1 DEF Busy, Reach, PollingSound, FeedTypes
  <2> QED BY <1>1, <1>2, <2>1 DEF PollingSound, PollsSound, FeedTypes
<1>6. NotAhead'
  <2>1. CASE service' = service
    BY <1>1, <2>1 DEF PollingSound, NotAhead
  <2>2. CASE service' = service + 1
    <3>1. \A p \in Polls : poll[p].pc = "querying" => poll[p].of <= service /\ poll[p].of \in Nat
      BY DEF PollingSound, PollsSound, FeedTypes, Busy
    <3> QED BY <1>1, <1>2, <2>2, <3>1 DEF NotAhead
  <2> QED BY <1>1, <2>1, <2>2
<1>7. NotTwice'
  BY <1>1, <1>2 DEF PollingSound, NotTwice
<1> QED BY <1>3, <1>4, <1>5, <1>6, <1>7 DEF PollingSound

\* The constants are numbers.
LEMMA FeedConstants == MaxServices \in Nat \ {0} /\ Backfill \in Nat
BY FeedAssumption DEF Feed!ConstantsOK

\* The numbers of a poll.
LEMMA PollTyped ==
  ASSUME PollingSound, NEW p \in Polls
  PROVE  /\ poll[p] \in PollShape /\ poll[p].of \in 1..MaxServices /\ poll[p].of \in Nat
         /\ poll[p].from \in Nat /\ poll[p].to \in Nat /\ poll[p].got \subseteq Nat
         /\ service \in 1..MaxServices /\ service \in Nat /\ height \in Nat
         /\ Busy(p) => /\ inFlight[poll[p].of] /\ poll[p].of <= service
                       /\ lastProcessedBlock[poll[p].of] = poll[p].from - 1
                       /\ poll[p].from >= 1 /\ poll[p].from <= poll[p].to /\ poll[p].to <= height
                       /\ Reach(p) \subseteq 1..height
<1>1. /\ poll[p] \in PollShape /\ poll[p].of \in 1..MaxServices
      /\ poll[p].from \in Nat /\ poll[p].to \in Nat /\ poll[p].got \subseteq Nat
  BY DEF PollingSound, FeedTypes, PollShape
<1>2. /\ service \in 1..MaxServices /\ height \in Nat /\ service \in Nat /\ poll[p].of \in Nat
  <2>1. height \in 0..Len(story) /\ service \in 1..MaxServices
    BY DEF PollingSound, FeedTypes
  <2> QED BY <1>1, <2>1, FeedConstants
<1>3. lastProcessedBlock[poll[p].of] \in Nat \cup {-1}
  BY <1>1 DEF PollingSound, FeedTypes
<1>4. Busy(p) => /\ inFlight[poll[p].of] /\ poll[p].of <= service
                 /\ lastProcessedBlock[poll[p].of] # -1
                 /\ poll[p].from = lastProcessedBlock[poll[p].of] + 1
                 /\ poll[p].from <= poll[p].to /\ poll[p].to <= height
  BY DEF PollingSound, PollsSound
<1> HIDE DEF Busy
<1>5. Busy(p) => /\ lastProcessedBlock[poll[p].of] = poll[p].from - 1
                 /\ poll[p].from >= 1
                 /\ Reach(p) \subseteq 1..height
  BY <1>1, <1>2, <1>3, <1>4 DEF Reach
<1> QED BY ONLY <1>1, <1>2, <1>4, <1>5

\* A poll begins.
LEMMA PollBegins ==
  ASSUME PollingSound, StoreSound, NEW p \in Polls, Feed!PollContractEvents(p)
  PROVE  PollingSound' /\ StoreSound'
<1> DEFINE first == Feed!First(service)
<1>1. /\ poll[p].pc = "idle" /\ ~inFlight[service]
      /\ lastProcessedBlock' = [lastProcessedBlock EXCEPT ![service] = first]
      /\ UNCHANGED <<story, height, strict, log, service, heard, shown, covered, lost, stale>>
      /\ \/ /\ height > first
            /\ inFlight' = [inFlight EXCEPT ![service] = TRUE]
            /\ poll' = [poll EXCEPT ![p] = [pc |-> "querying", of |-> service, from |-> first + 1,
                                            to |-> height, got |-> {}]]
         \/ UNCHANGED <<inFlight, poll>>
  BY DEF Feed!PollContractEvents, Feed!At, Feed!MayPoll, Feed!Idle
<1>2. /\ service \in 1..MaxServices /\ service \in Nat /\ height \in Nat
      /\ height \in 0..Len(story)
      /\ lastProcessedBlock \in [1..MaxServices -> Nat \cup {-1}]
      /\ inFlight \in [1..MaxServices -> BOOLEAN]
      /\ poll \in [Polls -> PollShape] /\ covered \subseteq 1..height
  <2>1. /\ service \in 1..MaxServices /\ height \in 0..Len(story)
        /\ poll \in [Polls -> PollShape]
    BY DEF PollingSound, FeedTypes, PollShape
  <2> QED BY <2>1, FeedConstants DEF PollingSound, FeedTypes
<1>3. first \in Nat /\ (lastProcessedBlock[service] # -1 => first = lastProcessedBlock[service])
  BY <1>2, FeedConstants DEF Feed!First, Feed!FirstBlock
<1> HIDE DEF first
<1>4. \A q \in Polls : q # p => poll'[q] = poll[q]
  BY <1>1, <1>2
<1>5. \A q \in Polls : Busy(q) => q # p /\ poll[q].of # service
  BY <1>1, <1>2 DEF Busy, PollingSound, PollsSound
<1>6. \/ poll' = poll
      \/ poll'[p] = [pc |-> "querying", of |-> service, from |-> first + 1,
                     to |-> height, got |-> {}]
         /\ height > first /\ inFlight'[service]
  BY <1>1, <1>2
<1>7. /\ \A i \in 1..MaxServices : i # service => /\ lastProcessedBlock'[i] = lastProcessedBlock[i]
                                                 /\ inFlight'[i] = inFlight[i]
      /\ lastProcessedBlock'[service] = first
  BY <1>1, <1>2
<1>8. StoreSound'
  <2>1. \A q \in Polls : poll[q].pc = "settling" =>
                           poll'[q].pc = "settling" /\ poll'[q].got = poll[q].got
    BY <1>4, <1>5 DEF Busy
  <2> QED BY <1>1, <2>1, StoreStays
<1>9. FeedTypes'
  <2>1. lastProcessedBlock' \in [1..MaxServices -> Nat \cup {-1}]
    BY <1>1, <1>2, <1>3
  <2>2. inFlight' \in [1..MaxServices -> BOOLEAN]
    BY <1>1, <1>2
  <2>3. poll' \in [Polls -> PollShape]
    <3>1. first + 1 \in Nat
      BY <1>3
    <3>2. [pc |-> "querying", of |-> service, from |-> first + 1,
           to |-> height, got |-> {}] \in PollShape
      BY <1>2, <3>1 DEF PollShape
    <3> QED BY <1>1, <1>2, <3>2
  <2>4. Stored(shown)' /\ Feed!Legal(story)'
    BY <1>1 DEF PollingSound, FeedTypes, Stored
  <2> QED BY <1>1, <2>1, <2>2, <2>3, <2>4 DEF PollingSound, FeedTypes, PollShape
<1>10. PollsSound'
  <2>1. ASSUME NEW q \in Polls, Busy(q)'
        PROVE  \/ q # p /\ Busy(q) /\ poll'[q] = poll[q] /\ poll[q].of # service
               \/ q = p /\ poll'[p] = [pc |-> "querying", of |-> service, from |-> first + 1,
                                       to |-> height, got |-> {}]
                  /\ height > first /\ inFlight'[service]
    BY <1>1, <1>4, <1>5, <1>6, <2>1 DEF Busy
  <2>2. ASSUME NEW q \in Polls, Busy(q)'
        PROVE  (/\ inFlight[poll[q].of] /\ poll[q].of <= service
                /\ lastProcessedBlock[poll[q].of] # -1
                /\ poll[q].from = lastProcessedBlock[poll[q].of] + 1
                /\ poll[q].from <= poll[q].to /\ poll[q].to <= height)'
    <3>1. CASE q # p /\ Busy(q) /\ poll'[q] = poll[q] /\ poll[q].of # service
      <4>1. poll[q].of \in 1..MaxServices
        BY PollTyped
      <4> QED BY <1>1, <1>7, <3>1, <4>1 DEF PollingSound, PollsSound
    <3>2. CASE q = p /\ poll'[p] = [pc |-> "querying", of |-> service, from |-> first + 1,
                                     to |-> height, got |-> {}]
                /\ height > first /\ inFlight'[service]
      BY <1>1, <1>2, <1>3, <1>7, <3>2
    <3> QED BY <2>1, <2>2, <3>1, <3>2
  <2>3. \A q, r \in Polls : (Busy(q) /\ Busy(r) /\ poll[q].of = poll[r].of)' => q = r
    <3> SUFFICES ASSUME NEW q \in Polls, NEW r \in Polls,
                        Busy(q)', Busy(r)', poll'[q].of = poll'[r].of
                 PROVE  q = r
      OBVIOUS
    <3> QED BY <2>1 DEF PollingSound, PollsSound
  <2>4. \A q \in Polls : (poll[q].pc = "settling" => poll[q].got \subseteq Reach(q))'
    BY <2>1 DEF PollingSound, PollsSound, Busy, Reach
  <2>5. \A i \in 1..MaxServices : i > service' => lastProcessedBlock'[i] = -1
    BY <1>1, <1>2, <1>7 DEF PollingSound, PollsSound
  <2> QED BY <2>2, <2>3, <2>4, <2>5 DEF PollsSound
<1>11. NotAhead'
  <2> SUFFICES ASSUME ~stale, NEW q \in Polls, poll'[q].pc = "querying", poll'[q].of = service,
                      NEW b \in covered
               PROVE  b <= poll'[q].to
    BY <1>1 DEF NotAhead
  <2>1. CASE q = p
    BY <1>1, <1>2, <1>6, <2>1 
  <2>2. CASE q # p
    BY <1>4, <2>2 DEF PollingSound, NotAhead
  <2> QED BY <2>1, <2>2
<1>12. NotTwice'
  <2> SUFFICES ASSUME service = 1, NEW b \in covered
               PROVE  \/ b <= lastProcessedBlock'[1]
                      \/ \E q \in Polls : poll'[q].pc = "settling" /\ b <= poll'[q].to
    BY <1>1 DEF NotTwice
  <2>1. b \in Nat /\ b >= 1
    BY <1>2
  <2>2. CASE b <= lastProcessedBlock[1]
    BY <1>2, <1>3, <1>7, <2>1, <2>2
  <2>3. CASE \E q \in Polls : poll[q].pc = "settling" /\ b <= poll[q].to
    BY <1>4, <1>5, <2>3 DEF Busy
  <2> QED BY <2>2, <2>3 DEF PollingSound, NotTwice
<1> QED BY <1>8, <1>9, <1>10, <1>11, <1>12 DEF PollingSound

\* A poll ends, having handled its blocks or not.
LEMMA PollEnds ==
  ASSUME PollingSound, NEW p \in Polls, Busy(p), Feed!Ends(p),
         UNCHANGED <<story, height, strict, service>>,
         \/ lastProcessedBlock' = lastProcessedBlock
         \/ lastProcessedBlock' = [lastProcessedBlock EXCEPT ![poll[p].of] = poll[p].to],
         Stored(shown'), covered' \subseteq 1..height, stale' \in BOOLEAN
  PROVE  /\ FeedTypes' /\ PollsSound' /\ poll'[p].pc = "idle"
         /\ \A q \in Polls : q # p => poll'[q] = poll[q]
<1>1. /\ poll' = [poll EXCEPT ![p] = Feed!Idle]
      /\ inFlight' = [inFlight EXCEPT ![poll[p].of] = FALSE]
  BY DEF Feed!Ends, Feed!Released
<1>2. /\ poll[p] \in PollShape /\ poll[p].of \in 1..MaxServices /\ poll[p].of \in Nat
      /\ poll[p].to \in Nat /\ service \in Nat /\ poll[p].of <= service
      /\ MaxServices \in Nat \ {0}
  BY PollTyped, FeedConstants
<1>3. /\ lastProcessedBlock \in [1..MaxServices -> Nat \cup {-1}]
      /\ inFlight \in [1..MaxServices -> BOOLEAN] /\ poll \in [Polls -> PollShape]
  BY DEF PollingSound, FeedTypes, PollShape
<1>4. /\ \A q \in Polls : q # p => poll'[q] = poll[q]
      /\ poll'[p] = Feed!Idle /\ poll'[p].pc = "idle"
  BY <1>1, <1>3 DEF Feed!Idle
<1>5. FeedTypes'
  <2>1. lastProcessedBlock' \in [1..MaxServices -> Nat \cup {-1}]
    BY <1>2, <1>3
  <2>2. inFlight' \in [1..MaxServices -> BOOLEAN]
    BY <1>1, <1>2, <1>3
  <2>3. Feed!Idle \in PollShape
    BY <1>2 DEF Feed!Idle, PollShape
  <2>4. poll' \in [Polls -> PollShape]
    BY <1>1, <1>3, <2>3
  <2>5. Feed!Legal(story)'
    BY DEF PollingSound, FeedTypes
  <2> QED BY <2>1, <2>2, <2>4, <2>5 DEF PollingSound, FeedTypes, PollShape
<1>6. PollsSound'
  <2>1. \A q \in Polls : Busy(q)' => /\ q # p /\ Busy(q) /\ poll'[q] = poll[q]
                                   /\ poll[q].of # poll[p].of /\ poll[q].of \in 1..MaxServices
    BY <1>4, PollTyped DEF Busy, PollingSound, PollsSound
  <2>2. \A i \in 1..MaxServices : i # poll[p].of =>
           lastProcessedBlock'[i] = lastProcessedBlock[i] /\ inFlight'[i] = inFlight[i]
    BY <1>1, <1>2, <1>3
  <2>3. ASSUME NEW q \in Polls, Busy(q)'
        PROVE  (/\ inFlight[poll[q].of] /\ poll[q].of <= service
                /\ lastProcessedBlock[poll[q].of] # -1
                /\ poll[q].from = lastProcessedBlock[poll[q].of] + 1
                /\ poll[q].from <= poll[q].to /\ poll[q].to <= height)'
    BY <2>1, <2>2, <2>3 DEF PollingSound, PollsSound
  <2>4. \A q, r \in Polls : (Busy(q) /\ Busy(r) /\ poll[q].of = poll[r].of)' => q = r
    <3> SUFFICES ASSUME NEW q \in Polls, NEW r \in Polls,
                        Busy(q)', Busy(r)', poll'[q].of = poll'[r].of
                 PROVE  q = r
      OBVIOUS
    <3> QED BY <2>1 DEF PollingSound, PollsSound
  <2>5. \A q \in Polls : (poll[q].pc = "settling" => poll[q].got \subseteq Reach(q))'
    BY <2>1 DEF PollingSound, PollsSound, Busy, Reach
  <2>6. \A i \in 1..MaxServices : i > service' => lastProcessedBlock'[i] = -1
    BY <1>2, <2>2 DEF PollingSound, PollsSound
  <2> QED BY <2>3, <2>4, <2>5, <2>6 DEF PollsSound
<1> QED BY <1>4, <1>5, <1>6

\* A poll that fails leaves everything to the next one.
LEMMA FailureKeeps ==
  ASSUME PollingSound, StoreSound, NEW p \in Polls, Feed!PollFails(p)
  PROVE  PollingSound' /\ StoreSound'
<1>1. /\ poll[p].pc = "querying" /\ Feed!Ends(p)
      /\ UNCHANGED <<story, height, strict, service, lastProcessedBlock, shown, covered, lost, stale>>
  BY DEF Feed!PollFails, Feed!At
<1>2. Stored(shown') /\ covered' \subseteq 1..height /\ stale' \in BOOLEAN
  BY <1>1 DEF PollingSound, FeedTypes, Stored
<1>3. /\ FeedTypes' /\ PollsSound' /\ poll'[p].pc = "idle"
      /\ \A q \in Polls : q # p => poll'[q] = poll[q]
  BY <1>1, <1>2, PollEnds DEF Busy
<1>4. StoreSound'
  BY <1>1, <1>3, StoreStays
<1>5. NotAhead'
  BY <1>1, <1>3 DEF PollingSound, NotAhead
<1>6. NotTwice'
  BY <1>1, <1>3 DEF PollingSound, NotTwice
<1> QED BY <1>3, <1>4, <1>5, <1>6 DEF PollingSound

\* A poll that has handled its blocks is the last of its service to have done so.
LEMMA FinishKeeps ==
  ASSUME PollingSound, NEW p \in Polls, Busy(p), NEW s, NEW got, Stored(s), Feed!Finished(p, s, got),
         UNCHANGED <<story, height, strict, service>>,
         covered' \subseteq covered \cup Reach(p), stale' = (stale \/ poll[p].of # service)
  PROVE  PollingSound'
<1>1. /\ Feed!Ends(p) /\ shown' = Feed!AfterAwait(s, got)
      /\ lastProcessedBlock' = [lastProcessedBlock EXCEPT ![poll[p].of] = poll[p].to]
  BY DEF Feed!Finished
<1>2. /\ poll[p].of \in 1..MaxServices /\ poll[p].of \in Nat
      /\ poll[p].from \in Nat /\ poll[p].to \in Nat
      /\ service \in Nat /\ poll[p].of <= service /\ Reach(p) \subseteq 1..height
      /\ lastProcessedBlock[poll[p].of] = poll[p].from - 1 /\ poll[p].from <= poll[p].to
      /\ height \in Nat
  BY PollTyped
<1>3. /\ covered \subseteq 1..height /\ stale \in BOOLEAN
      /\ lastProcessedBlock \in [1..MaxServices -> Nat \cup {-1}]
  BY DEF PollingSound, FeedTypes
<1>4. Stored(shown')
  BY <1>1, AfterAwaitShown
<1>5. covered' \subseteq 1..height /\ stale' \in BOOLEAN
  BY <1>2, <1>3
<1>6. /\ FeedTypes' /\ PollsSound' /\ poll'[p].pc = "idle"
      /\ \A q \in Polls : q # p => poll'[q] = poll[q]
  BY <1>1, <1>4, <1>5, PollEnds
<1>7. NotAhead'
  <2> SUFFICES ASSUME ~stale', NEW q \in Polls, poll'[q].pc = "querying", poll'[q].of = service
               PROVE  FALSE
    BY DEF NotAhead
  <2>1. q # p /\ poll'[q] = poll[q] /\ Busy(q)
    BY <1>6 DEF Busy
  <2> QED BY <2>1 DEF PollingSound, PollsSound
<1>8. NotTwice'
  <2> SUFFICES ASSUME service = 1, NEW b \in covered'
               PROVE  b <= lastProcessedBlock'[1]
    BY DEF NotTwice
  <2>1. poll[p].of = 1 /\ lastProcessedBlock'[1] = poll[p].to /\ b \in Nat
    BY <1>1, <1>2, <1>3, <1>5
  <2>2. CASE b \in Reach(p)
    BY <1>2, <2>1, <2>2 DEF Reach
  <2>3. CASE b \in covered
    <3>1. ASSUME NEW q \in Polls, poll[q].pc = "settling" PROVE q = p
      <4>1. Busy(q) /\ poll[q].of <= 1 /\ poll[q].of \in 1..MaxServices
        BY <3>1, PollTyped DEF Busy
      <4>2. poll[q].of = poll[p].of
        BY <2>1, <4>1
      <4> QED BY <4>1, <4>2 DEF PollingSound, PollsSound
    <3>2. b <= poll[p].from - 1 \/ b <= poll[p].to
      BY <1>2, <2>1, <2>3, <3>1 DEF PollingSound, NotTwice
    <3> QED BY <1>2, <2>1, <3>2
  <2> QED BY <2>2, <2>3
<1> QED BY <1>6, <1>7, <1>8 DEF PollingSound

\* A poll that has handled the first part waits for the details of a settlement.
LEMMA WaitingKeeps ==
  ASSUME PollingSound, NEW p \in Polls, poll[p].pc = "querying", NEW got \in SUBSET Reach(p),
         Stored(shown'), poll' = [poll EXCEPT ![p].pc = "settling", ![p].got = got],
         UNCHANGED <<story, height, strict, service, lastProcessedBlock, inFlight>>,
         covered' = covered \cup Reach(p), stale' = (stale \/ poll[p].of # service)
  PROVE  PollingSound'
<1>1. Busy(p)
  BY DEF Busy
<1>2. /\ poll[p] \in PollShape /\ poll[p].of \in 1..MaxServices /\ poll[p].of \in Nat
      /\ poll[p].from \in Nat /\ poll[p].to \in Nat
      /\ service \in Nat /\ poll[p].of <= service /\ Reach(p) \subseteq 1..height
      /\ lastProcessedBlock[poll[p].of] = poll[p].from - 1 /\ poll[p].from <= poll[p].to
      /\ height \in Nat
  BY <1>1, PollTyped
<1>3. /\ covered \subseteq 1..height /\ stale \in BOOLEAN /\ poll \in [Polls -> PollShape]
  BY DEF PollingSound, FeedTypes, PollShape
<1>4. /\ \A q \in Polls : q # p => poll'[q] = poll[q]
      /\ poll'[p] = [pc |-> "settling", of |-> poll[p].of, from |-> poll[p].from,
                     to |-> poll[p].to, got |-> got]
      /\ poll' \in [Polls -> [pc : {"idle", "querying", "settling"}, of : 1..MaxServices,
                              from : Nat, to : Nat, got : SUBSET Nat]]
  <2>1. got \subseteq Nat
    BY <1>2 DEF Reach
  <2>2. poll'[p] = [pc |-> "settling", of |-> poll[p].of, from |-> poll[p].from,
                    to |-> poll[p].to, got |-> got]
    BY <1>2, <1>3 DEF PollShape
  <2>3. \A q \in Polls : q # p => poll'[q] = poll[q]
    BY <1>3
  <2>4. DOMAIN poll' = Polls /\ poll' = [q \in Polls |-> poll'[q]]
    BY <1>3
  <2>5. \A q \in Polls : poll'[q] \in PollShape
    <3>1. poll[p].of \in 1..MaxServices /\ poll[p].from \in Nat /\ poll[p].to \in Nat
      BY <1>2
    <3>2. poll'[p] \in PollShape
      BY ONLY <2>1, <2>2, <3>1 DEF PollShape
    <3>3. \A q \in Polls : poll[q] \in PollShape
      BY ONLY <1>3
    <3> QED BY ONLY <2>3, <3>2, <3>3
  <2> QED BY ONLY <2>2, <2>3, <2>4, <2>5 DEF PollShape
<1>5. FeedTypes'
  <2>1. Feed!Legal(story)' /\ covered' \subseteq 1..height' /\ stale' \in BOOLEAN
    BY <1>2, <1>3 DEF PollingSound, FeedTypes
  <2> QED BY <1>4, <2>1 DEF PollingSound, FeedTypes
<1>6. \A q \in Polls : Busy(q)' = Busy(q) /\ Reach(q)' = Reach(q) /\ poll'[q].of = poll[q].of
                     /\ poll'[q].from = poll[q].from /\ poll'[q].to = poll[q].to
  BY ONLY <1>1, <1>4, p \in Polls DEF Busy, Reach
<1>7. PollsSound'
  <2>1. \A q \in Polls : poll'[q].pc = "settling" => poll'[q].got \subseteq Reach(q)'
    <3>1. \A q \in Polls : poll[q].pc = "settling" => poll[q].got \subseteq Reach(q)
      BY DEF PollingSound, PollsSound
    <3> QED BY ONLY <1>4, <1>6, <3>1, got \in SUBSET Reach(p)
  <2>2. PollsSound
    BY DEF PollingSound
  <2> QED BY ONLY <1>6, <2>1, <2>2, UNCHANGED <<height, service, lastProcessedBlock, inFlight>>
          DEF PollsSound
<1>8. NotAhead'
  <2> SUFFICES ASSUME ~stale', NEW q \in Polls, poll'[q].pc = "querying", poll'[q].of = service
               PROVE  FALSE
    BY DEF NotAhead
  <2>1. q # p /\ poll'[q] = poll[q] /\ Busy(q)
    BY ONLY <1>4, q \in Polls, poll'[q].pc = "querying" DEF Busy
  <2> QED BY <1>1, <2>1 DEF PollingSound, PollsSound
<1>9. NotTwice'
  <2> SUFFICES ASSUME service = 1, NEW b \in covered'
               PROVE  b <= poll'[p].to
    <3>1. poll'[p].pc = "settling"
      BY ONLY <1>4
    <3> QED BY ONLY <3>1, p \in Polls, service' = service,
                    service = 1 => \A b \in covered' : b <= poll'[p].to DEF NotTwice
  <2>1. poll[p].of = 1 /\ b \in Nat /\ poll'[p].to = poll[p].to
    BY <1>2, <1>3, <1>4
  <2>2. CASE b \in Reach(p)
    BY <1>2, <2>1, <2>2 DEF Reach
  <2>3. CASE b \in covered
    <3>1. ASSUME NEW q \in Polls, poll[q].pc = "settling" PROVE q = p
      <4>1. Busy(q) /\ poll[q].of <= 1 /\ poll[q].of \in 1..MaxServices
        BY <3>1, PollTyped DEF Busy
      <4>2. poll[q].of = poll[p].of
        BY <2>1, <4>1
      <4> QED BY <1>1, <4>1, <4>2 DEF PollingSound, PollsSound
    <3>2. b <= poll[p].from - 1 \/ b <= poll[p].to
      BY <1>2, <2>1, <2>3, <3>1 DEF PollingSound, NotTwice
    <3> QED BY <1>2, <2>1, <3>2
  <2> QED BY <2>2, <2>3
<1> QED BY <1>5, <1>7, <1>8, <1>9 DEF PollingSound

\* The queries of a poll are answered: it finds the critical events, and those of
\* the other kinds but one.
LEMMA AnsweredSteps ==
  ASSUME NEW p \in Polls, Feed!Answered(p)
  PROVE  /\ poll[p].pc = "querying"
         /\ UNCHANGED <<story, height, strict, service>>
         /\ covered' = covered \cup Reach(p) /\ stale' = (stale \/ poll[p].of # service)
         /\ \E got \in SUBSET Reach(p) :
              /\ \A b \in Reach(p) : story[b] \in Feed!Critical => b \in got
              /\ lost' = lost \cup (Reach(p) \ got)
              /\ \/ /\ Feed!Of(got, "JobSettled") = {}
                    /\ Feed!Finished(p, Feed!BeforeAwait(shown, got), got)
                 \/ /\ shown' = Feed!BeforeAwait(shown, got)
                    /\ poll' = [poll EXCEPT ![p].pc = "settling", ![p].got = got]
                    /\ UNCHANGED <<lastProcessedBlock, inFlight>>
<1>1. /\ poll[p].pc = "querying"
      /\ UNCHANGED <<story, height, strict, service>>
      /\ covered' = covered \cup Reach(p) /\ stale' = (stale \/ poll[p].of # service)
  BY DEF Feed!Answered, Feed!At, Reach
<1>2. PICK failed \in SUBSET ({story[b] : b \in Reach(p)} \ Feed!Critical) :
        LET got == {b \in Reach(p) : story[b] \notin failed}
        IN  /\ lost' = lost \cup (Reach(p) \ got)
            /\ IF Feed!Of(got, "JobSettled") = {}
               THEN Feed!Finished(p, Feed!BeforeAwait(shown, got), got)
               ELSE /\ shown' = Feed!BeforeAwait(shown, got)
                    /\ poll' = [poll EXCEPT ![p].pc = "settling", ![p].got = got]
                    /\ UNCHANGED <<lastProcessedBlock, inFlight>>
  BY DEF Feed!Answered, Feed!SettlementsIn, Reach
<1> DEFINE got == {b \in Reach(p) : story[b] \notin failed}
<1>3. got \in SUBSET Reach(p) /\ \A b \in Reach(p) : story[b] \in Feed!Critical => b \in got
  OBVIOUS
<1>4. /\ lost' = lost \cup (Reach(p) \ got)
      /\ IF Feed!Of(got, "JobSettled") = {}
         THEN Feed!Finished(p, Feed!BeforeAwait(shown, got), got)
         ELSE /\ shown' = Feed!BeforeAwait(shown, got)
              /\ poll' = [poll EXCEPT ![p].pc = "settling", ![p].got = got]
              /\ UNCHANGED <<lastProcessedBlock, inFlight>>
  BY <1>2
<1> HIDE DEF got
<1> QED BY <1>1, <1>3, <1>4

\* A story's events come in the order the contracts allow.
LEMMA Told ==
  ASSUME PollingSound
  PROVE  /\ \A b \in 1..height : b \in DOMAIN story /\ b \in Nat
         /\ \A i, j \in 1..height :
              /\ story[i] = "JobPosted" /\ story[j] \in {"JobCancelled", "JobCompleted"} => i < j
              /\ ~(story[i] = "JobCancelled" /\ story[j] = "JobCompleted")
              /\ story[i] = "SubAuctionCreated" /\ story[j] = "SubContractorSelected" => i < j
              /\ story[i] = "SubContractorSelected" /\ story[j] = "ResultAccepted" => i < j
<1>1. story \in Seq(Feed!Kinds) /\ height \in 0..Len(story) /\ Feed!Legal(story)
  BY DEF PollingSound, FeedTypes
<1>2. Len(story) \in Nat /\ DOMAIN story = 1..Len(story)
  BY <1>1
<1>3. \A b \in 1..height : b \in DOMAIN story /\ b \in Nat
  BY <1>1, <1>2
<1> QED BY <1>1, <1>3 DEF Feed!Legal, Feed!Precedes

\* What a job comes to if a poll of the active service handles all it has found.
LEMMA JobKept ==
  ASSUME PollingSound, NEW p \in Polls, Busy(p), \A b \in covered : b <= poll[p].to,
         NEW got \in SUBSET Reach(p),
         \A b \in Reach(p) : story[b] \in Feed!Critical => b \in got
  PROVE  JobAfter(JobOf(covered), got) = JobOf(covered \cup Reach(p))
<1> DEFINE Has(kind) == \E b \in Reach(p) : story[b] = kind
           Had(kind) == \E b \in covered : story[b] = kind
<1>1. Reach(p) \subseteq 1..height /\ covered \subseteq 1..height
      /\ poll[p].from \in Nat /\ poll[p].to \in Nat
  BY PollTyped DEF PollingSound, FeedTypes
<1>2. \A kind \in Feed!Critical : Feed!Of(got, kind) = {} <=> ~Has(kind)
  BY DEF Feed!Of
<1>3. \A kind : /\ kind \in Feed!Events(covered) <=> Had(kind)
                /\ kind \in Feed!Events(covered \cup Reach(p)) <=> Had(kind) \/ Has(kind)
  BY DEF Feed!Events
<1>4. {"JobPosted", "JobCancelled", "JobCompleted"} \subseteq Feed!Critical
  BY DEF Feed!Critical
<1>5. ~((Had("JobCancelled") \/ Has("JobCancelled")) /\ (Had("JobCompleted") \/ Has("JobCompleted")))
  BY <1>1, Told
<1>6. \A b \in covered : b \in Reach(p) \/ b < poll[p].from
  <2> SUFFICES ASSUME NEW b \in covered PROVE b \in Reach(p) \/ b < poll[p].from
    OBVIOUS
  <2>1. b \in Nat /\ b <= poll[p].to
    BY <1>1
  <2> QED BY ONLY <1>1, <2>1 DEF Reach
<1>7. \A b \in Reach(p) : b >= poll[p].from /\ b \in Nat
  BY <1>1 DEF Reach
<1>8. Has("JobPosted") => /\ Had("JobCancelled") => Has("JobCancelled")
                          /\ Had("JobCompleted") => Has("JobCompleted")
  <2>1. ASSUME NEW b \in Reach(p), story[b] = "JobPosted", NEW c \in covered,
               story[c] \in {"JobCancelled", "JobCompleted"}
        PROVE  c \in Reach(p)
    <3>1. b < c
      BY <1>1, <2>1, Told
    <3> QED BY <1>1, <1>6, <1>7, <3>1
  <2> QED BY <2>1
<1> HIDE DEF Has, Had
<1>9. /\ Feed!Of(got, "JobPosted") = {} <=> ~Has("JobPosted")
      /\ Feed!Of(got, "JobCancelled") = {} <=> ~Has("JobCancelled")
      /\ Feed!Of(got, "JobCompleted") = {} <=> ~Has("JobCompleted")
  BY <1>2, <1>4
<1>10. /\ JobOf(covered) = IF ~Had("JobPosted") THEN "absent"
                           ELSE IF Had("JobCancelled") THEN "cancelled"
                           ELSE IF Had("JobCompleted") THEN "completed" ELSE "open"
       /\ JobOf(covered \cup Reach(p)) =
            IF ~(Had("JobPosted") \/ Has("JobPosted")) THEN "absent"
            ELSE IF Had("JobCancelled") \/ Has("JobCancelled") THEN "cancelled"
            ELSE IF Had("JobCompleted") \/ Has("JobCompleted") THEN "completed" ELSE "open"
  BY <1>3 DEF JobOf
<1> DEFINE job == JobOf(covered)
           afterPost == IF Feed!Of(got, "JobPosted") = {} THEN job ELSE "open"
           afterCancel == IF Feed!Of(got, "JobCancelled") = {} \/ afterPost = "absent" THEN afterPost
                    ELSE "cancelled"
<1>11. JobAfter(job, got) = IF Feed!Of(got, "JobCompleted") = {} \/ afterCancel = "absent" THEN afterCancel
                            ELSE "completed"
  BY DEF JobAfter
<1> HIDE DEF JobOf
<1>12. /\ afterPost = "absent" <=> ~(Had("JobPosted") \/ Has("JobPosted"))
       /\ Has("JobPosted") => afterPost = "open"
       /\ ~Has("JobPosted") => afterPost = job
  BY ONLY <1>9, <1>10
<1> HIDE DEF afterPost
<1>13. /\ afterCancel = "absent" <=> afterPost = "absent"
       /\ afterPost # "absent" /\ Has("JobCancelled") => afterCancel = "cancelled"
       /\ ~Has("JobCancelled") => afterCancel = afterPost
  BY ONLY <1>9
<1> HIDE DEF afterCancel, job
<1>14. CASE ~(Had("JobPosted") \/ Has("JobPosted"))
  BY ONLY <1>10, <1>11, <1>12, <1>13, <1>14 DEF job
<1>15. CASE (Had("JobPosted") \/ Has("JobPosted")) /\ Has("JobCompleted")
  BY ONLY <1>5, <1>9, <1>10, <1>11, <1>12, <1>13, <1>15 DEF job
<1>16. CASE (Had("JobPosted") \/ Has("JobPosted")) /\ ~Has("JobCompleted") /\ Has("JobCancelled")
  BY ONLY <1>9, <1>10, <1>11, <1>12, <1>13, <1>16 DEF job
<1>17. CASE /\ Had("JobPosted") \/ Has("JobPosted")
            /\ ~Has("JobCompleted") /\ ~Has("JobCancelled")
  <2>1. CASE Has("JobPosted")
    BY ONLY <1>8, <1>9, <1>10, <1>11, <1>12, <1>13, <1>17, <2>1 DEF job
  <2>2. CASE ~Has("JobPosted")
    BY ONLY <1>9, <1>10, <1>11, <1>12, <1>13, <1>17, <2>2 DEF job
  <2> QED BY <2>1, <2>2
<1> QED BY ONLY <1>14, <1>15, <1>16, <1>17 DEF job

\* A service that never handles a block twice counts its bids once.
LEMMA BidsCounted ==
  ASSUME NEW A, NEW B, NEW n \in Nat, A \subseteq 1..n, B \subseteq 1..n, A \cap B = {}
  PROVE  Cardinality(Feed!Of(A \cup B, "BidSubmitted")) =
           Cardinality(Feed!Of(A, "BidSubmitted")) + Cardinality(Feed!Of(B, "BidSubmitted"))
<1> DEFINE bids(S) == Feed!Of(S, "BidSubmitted")
<1>1. bids(A \cup B) = bids(A) \cup bids(B) /\ bids(A) \cap bids(B) = {}
      /\ bids(A) \subseteq 1..n /\ bids(B) \subseteq 1..n
  BY DEF Feed!Of
<1> HIDE DEF bids
<1>2. IsFiniteSet(1..n)
  BY FS_Interval
<1>3. IsFiniteSet(bids(A)) /\ IsFiniteSet(bids(B))
  BY <1>1, <1>2, FS_Subset
<1>4. Cardinality(bids(A) \cup bids(B)) = Cardinality(bids(A)) + Cardinality(bids(B))
                                          - Cardinality(bids(A) \cap bids(B))
  BY <1>3, FS_Union
<1>5. Cardinality(bids(A) \cap bids(B)) = 0
  BY <1>1, FS_EmptySet
<1>6. Cardinality(bids(A)) \in Nat /\ Cardinality(bids(B)) \in Nat
  BY <1>3, FS_CardinalityType
<1>7. Cardinality(bids(A \cup B)) = Cardinality(bids(A)) + Cardinality(bids(B))
  <2>1. bids(A \cup B) = bids(A) \cup bids(B)
    BY <1>1
  <2>2. Cardinality(bids(A \cup B)) = Cardinality(bids(A) \cup bids(B))
    BY ONLY <2>1
  <2> QED BY ONLY <1>4, <1>5, <1>6, <2>2
<1> QED BY <1>7 DEF bids

\* The feed's own instance of the operator counts the same.
LEMMA FeedCardinality == \A S : Feed!Cardinality(S) = Cardinality(S)
BY DEF Feed!Cardinality, Cardinality

\* A poll that has handled its blocks up to the settlements leaves the store
\* as the chain has it.
LEMMA JobKeeps ==
  ASSUME PollingSound, JobIsShown, NEW p \in Polls, poll[p].pc = "querying",
         NEW got \in SUBSET Reach(p),
         \A b \in Reach(p) : story[b] \in Feed!Critical => b \in got,
         shown'.job = JobAfter(shown.job, got),
         shown'.bids = shown.bids + Feed!Cardinality(Feed!Of(got, "BidSubmitted")),
         shown'.winners = (IF Feed!Of(got, "WinnersSelected") = {} THEN shown.winners
                           ELSE "contract"),
         UNCHANGED <<story, height, strict, service>>,
         covered' = covered \cup Reach(p), stale' = (stale \/ poll[p].of # service)
  PROVE  JobIsShown'
<1>1. /\ Reach(p) \subseteq 1..height /\ height \in Nat /\ poll[p].from \in Nat
      /\ poll[p].to \in Nat /\ service \in Nat /\ poll[p].of <= service /\ Busy(p)
      /\ poll[p].of \in 1..MaxServices /\ lastProcessedBlock[poll[p].of] = poll[p].from - 1
  BY PollTyped DEF Busy
<1>2. covered \subseteq 1..height
  BY DEF PollingSound, FeedTypes
<1>3. strict' /\ ~stale' => shown'.job = JobOf(covered)'
  <2> SUFFICES ASSUME strict, ~stale, poll[p].of = service
               PROVE  shown'.job = JobOf(covered)'
    OBVIOUS
  <2>1. \A b \in covered : b <= poll[p].to
    BY DEF PollingSound, NotAhead
  <2>2. shown.job = JobOf(covered)
    BY DEF JobIsShown
  <2>3. JobAfter(JobOf(covered), got) = JobOf(covered \cup Reach(p))
    BY <1>1, <2>1, JobKept
  <2>4. JobOf(covered)' = JobOf(covered \cup Reach(p))
    BY DEF JobOf, Feed!Events
  <2> QED BY <2>2, <2>3, <2>4
<1>4. (shown.winners = "contract" <=> "WinnersSelected" \in Feed!Events(covered))'
  <2>1. "WinnersSelected" \in Feed!Critical
    BY DEF Feed!Critical
  <2>2. Feed!Of(got, "WinnersSelected") = {} <=> "WinnersSelected" \notin Feed!Events(Reach(p))
    BY <2>1 DEF Feed!Of, Feed!Events
  <2>3. "WinnersSelected" \in Feed!Events(covered)' <=>
          "WinnersSelected" \in Feed!Events(covered) \/ "WinnersSelected" \in Feed!Events(Reach(p))
    BY DEF Feed!Events
  <2>4. shown.winners = "contract" <=> "WinnersSelected" \in Feed!Events(covered)
    BY DEF JobIsShown
  <2> QED BY <2>2, <2>3, <2>4
<1>5. (strict /\ service = 1 => shown.bids = Cardinality(Feed!Of(covered, "BidSubmitted")))'
  <2> SUFFICES ASSUME strict, service = 1
               PROVE  shown'.bids = Cardinality(Feed!Of(covered, "BidSubmitted"))'
    OBVIOUS
  <2>1. shown.bids = Cardinality(Feed!Of(covered, "BidSubmitted"))
    BY DEF JobIsShown
  <2>2. poll[p].of = 1
    BY <1>1
  <2>3. ASSUME NEW q \in Polls, poll[q].pc = "settling" PROVE FALSE
    <3>1. Busy(q) /\ poll[q].of <= 1 /\ poll[q].of \in 1..MaxServices /\ poll[q].of \in Nat
      BY <2>3, PollTyped DEF Busy
    <3>2. poll[q].of = poll[p].of
      BY <2>2, <3>1
    <3>3. q = p
      BY <1>1, <3>1, <3>2 DEF PollingSound, PollsSound
    <3> QED BY <2>3, <3>3
  <2>4. \A b \in covered : b <= poll[p].from - 1
    BY <1>1, <2>2, <2>3 DEF PollingSound, NotTwice
  <2>5. covered \cap Reach(p) = {}
    BY <1>1, <1>2, <2>4 DEF Reach
  <2>6. Cardinality(Feed!Of(covered \cup Reach(p), "BidSubmitted")) =
          Cardinality(Feed!Of(covered, "BidSubmitted"))
            + Cardinality(Feed!Of(Reach(p), "BidSubmitted"))
    BY <1>1, <1>2, <2>5, BidsCounted
  <2>7. Feed!Of(Reach(p), "BidSubmitted") = Feed!Of(got, "BidSubmitted")
    BY DEF Feed!Of, Feed!Critical
  <2>8. Feed!Of(covered, "BidSubmitted")' = Feed!Of(covered \cup Reach(p), "BidSubmitted")
    BY DEF Feed!Of
  <2>9. Feed!Cardinality(Feed!Of(got, "BidSubmitted")) = Cardinality(Feed!Of(Reach(p), "BidSubmitted"))
    BY <2>7, FeedCardinality
  <2> QED BY <2>1, <2>6, <2>8, <2>9
<1> QED BY <1>3, <1>4, <1>5 DEF JobIsShown

\* What is known after it.
LEMMA KnownGrows ==
  ASSUME NEW p \in Polls, NEW got \in SUBSET Reach(p),
         covered' = covered \cup Reach(p), lost' = lost \cup (Reach(p) \ got)
  PROVE  /\ \A b \in Known' : b \in Known \/ b \in got
         /\ \A b \in Known' : b \in Reach(p) => b \in got
BY DEF Known

\* What was paid is shown after it, or awaited.
LEMMA PaidKeeps ==
  ASSUME PollingSound, PaidIsShown, NEW p \in Polls, poll[p].pc = "querying",
         NEW got \in SUBSET Reach(p),
         shown.flows \subseteq shown'.flows,
         \A kind \in {"BidSubmitted", "WinnersSelected", "DataPurchased"} :
           Feed!Of(got, kind) \subseteq shown'.flows,
         \/ poll'[p].pc = "settling" /\ poll'[p].got = got
         \/ /\ Feed!Of(got, "JobSettled") = {}
            /\ Feed!Of(got, "SlashInitiated") \subseteq shown'.flows,
         \A q \in Polls : q # p => poll'[q] = poll[q],
         story' = story, covered' = covered \cup Reach(p), lost' = lost \cup (Reach(p) \ got)
  PROVE  PaidIsShown'
<1> SUFFICES ASSUME NEW b \in Known'
             PROVE  /\ story[b] \in {"BidSubmitted", "WinnersSelected", "DataPurchased"}
                         => b \in shown'.flows
                    /\ story[b] \in {"JobSettled", "SlashInitiated"} =>
                         \/ b \in shown'.flows
                         \/ \E q \in Polls : poll'[q].pc = "settling" /\ b \in poll'[q].got
  BY DEF PaidIsShown
<1>1. CASE b \in got
  BY <1>1 DEF Feed!Of
<1>2. CASE b \in Known
  <2>1. /\ story[b] \in {"BidSubmitted", "WinnersSelected", "DataPurchased"} => b \in shown.flows
        /\ story[b] \in {"JobSettled", "SlashInitiated"} =>
             \/ b \in shown.flows
             \/ \E q \in Polls : poll[q].pc = "settling" /\ b \in poll[q].got
    BY <1>2 DEF PaidIsShown
  <2>2. \A q \in Polls : poll[q].pc = "settling" => poll'[q] = poll[q]
    OBVIOUS
  <2> QED BY <2>1, <2>2
<1> QED BY <1>1, <1>2, KnownGrows

\* What a sub-job paid is shown after it: the blocks of its events are found in
\* their order, so that nothing it was paid is found before who has it.
LEMMA SubJobKeeps ==
  ASSUME PollingSound, SubJobIsShown, NEW p \in Polls, poll[p].pc = "querying",
         NEW got \in SUBSET Reach(p),
         shown.flows \subseteq shown'.flows,
         Feed!Of(got, "SubContractorSelected") # {} => shown'.subAgent,
         Feed!Of(got, "SubContractorSelected") = {} /\ Feed!Of(got, "SubAuctionCreated") = {}
           => shown'.subAgent = shown.subAgent,
         shown'.subAgent => Feed!Of(got, "ResultAccepted") \subseteq shown'.flows,
         UNCHANGED <<story, height, service>>,
         covered' = covered \cup Reach(p), lost' = lost \cup (Reach(p) \ got),
         stale' = (stale \/ poll[p].of # service)
  PROVE  SubJobIsShown'
<1> SUFFICES ASSUME ~stale, poll[p].of = service, NEW c \in Known', story[c] = "SubContractorSelected"
             PROVE  /\ shown'.subAgent
                    /\ \A b \in Known' : story[b] = "ResultAccepted" => b \in shown'.flows
  BY DEF SubJobIsShown, Feed!Events
<1>1. /\ Reach(p) \subseteq 1..height /\ height \in Nat /\ poll[p].from \in Nat
      /\ poll[p].to \in Nat
  BY PollTyped DEF Busy
<1>2. covered \subseteq 1..height /\ Known \subseteq covered
  BY DEF PollingSound, FeedTypes, Known
<1>3. \A b \in covered : b <= poll[p].to
  BY DEF PollingSound, NotAhead
<1>4. \A b \in Known' : b \in 1..height /\ (b \in got \/ (b \in Known /\ b < poll[p].from))
  <2> SUFFICES ASSUME NEW b \in Known', b \notin got
               PROVE  b \in 1..height /\ b \in Known /\ b < poll[p].from
    BY <1>1
  <2>1. b \in Known /\ b \notin Reach(p)
    BY KnownGrows
  <2>2. b \in 1..height /\ b <= poll[p].to
    BY <1>2, <1>3, <2>1
  <2> QED BY <1>1, <2>1, <2>2 DEF Reach
<1>5. \A b \in got : b \in 1..height /\ b >= poll[p].from
  BY <1>1 DEF Reach
<1>6. CASE Feed!Of(got, "SubContractorSelected") # {}
  <2>1. PICK d \in got : story[d] = "SubContractorSelected"
    BY <1>6 DEF Feed!Of
  <2>2. ASSUME NEW b \in Known', story[b] = "ResultAccepted" PROVE b \in got
    <3>1. d < b
      BY <1>4, <1>5, <2>1, <2>2, Told
    <3> QED BY <1>1, <1>4, <1>5, <3>1
  <2>3. shown'.subAgent /\ Feed!Of(got, "ResultAccepted") \subseteq shown'.flows
    BY <1>6
  <2> QED BY <2>2, <2>3 DEF Feed!Of
<1>7. CASE Feed!Of(got, "SubContractorSelected") = {}
  <2>1. c \notin got
    BY <1>7 DEF Feed!Of
  <2>2. c \in Known /\ c < poll[p].from /\ c \in 1..height
    BY <1>4, <2>1
  <2>3. /\ shown.subAgent
        /\ \A b \in Known : story[b] = "ResultAccepted" => b \in shown.flows
    BY <2>2 DEF SubJobIsShown, Feed!Events
  <2>4. Feed!Of(got, "SubAuctionCreated") = {}
    <3> SUFFICES ASSUME NEW e \in got, story[e] = "SubAuctionCreated" PROVE FALSE
      BY DEF Feed!Of
    <3>1. e < c
      BY <1>5, <2>2, Told
    <3> QED BY <1>1, <1>5, <2>2, <3>1
  <2>5. shown'.subAgent /\ Feed!Of(got, "ResultAccepted") \subseteq shown'.flows
    BY <1>7, <2>3, <2>4
  <2> QED BY <1>4, <2>3, <2>5 DEF Feed!Of
<1> QED BY <1>6, <1>7

\* All of it together.
LEMMA AnsweredKeeps ==
  ASSUME PollingSound, StoreSound, NEW p \in Polls, Feed!Answered(p)
  PROVE  PollingSound' /\ StoreSound'
<1>1. /\ poll[p].pc = "querying" /\ Busy(p)
      /\ UNCHANGED <<story, height, strict, service>>
      /\ covered' = covered \cup Reach(p) /\ stale' = (stale \/ poll[p].of # service)
  BY AnsweredSteps DEF Busy
<1>2. PICK got \in SUBSET Reach(p) :
        /\ \A b \in Reach(p) : story[b] \in Feed!Critical => b \in got
        /\ lost' = lost \cup (Reach(p) \ got)
        /\ \/ /\ Feed!Of(got, "JobSettled") = {}
              /\ Feed!Finished(p, Feed!BeforeAwait(shown, got), got)
           \/ /\ shown' = Feed!BeforeAwait(shown, got)
              /\ poll' = [poll EXCEPT ![p].pc = "settling", ![p].got = got]
              /\ UNCHANGED <<lastProcessedBlock, inFlight>>
  BY AnsweredSteps
<1>3. PICK s : s = Feed!BeforeAwait(shown, got)
  OBVIOUS
<1>4. Stored(shown)
  BY DEF PollingSound, FeedTypes
<1>5. /\ Stored(s) /\ s.job = JobAfter(shown.job, got)
      /\ s.bids = shown.bids + Feed!Cardinality(Feed!Of(got, "BidSubmitted"))
      /\ s.winners = (IF Feed!Of(got, "WinnersSelected") = {} THEN shown.winners ELSE "contract")
      /\ Feed!Of(got, "SubContractorSelected") # {} => s.subAgent
      /\ Feed!Of(got, "SubContractorSelected") = {} /\ Feed!Of(got, "SubAuctionCreated") = {}
            => s.subAgent = shown.subAgent
      /\ s.flows = shown.flows \cup Feed!Of(got, "BidSubmitted")
                               \cup Feed!Of(got, "WinnersSelected")
                               \cup (IF s.subAgent THEN Feed!Of(got, "ResultAccepted") ELSE {})
                               \cup Feed!Of(got, "DataPurchased")
  BY <1>3, <1>4, BeforeAwaitShown
<1>6. /\ shown.flows \subseteq s.flows
      /\ \A kind \in {"BidSubmitted", "WinnersSelected", "DataPurchased"} :
           Feed!Of(got, kind) \subseteq s.flows
      /\ s.subAgent => Feed!Of(got, "ResultAccepted") \subseteq s.flows
  BY ONLY <1>5
<1>7. /\ PollingSound'
      /\ shown'.job = s.job /\ shown'.bids = s.bids /\ shown'.winners = s.winners
      /\ shown'.subAgent = s.subAgent /\ s.flows \subseteq shown'.flows
      /\ \A q \in Polls : q # p => poll'[q] = poll[q]
      /\ \/ poll'[p].pc = "settling" /\ poll'[p].got = got
         \/ /\ Feed!Of(got, "JobSettled") = {}
            /\ Feed!Of(got, "SlashInitiated") \subseteq shown'.flows
  <2>1. CASE Feed!Of(got, "JobSettled") = {} /\ Feed!Finished(p, Feed!BeforeAwait(shown, got), got)
    <3>1. Feed!Finished(p, s, got) /\ shown' = Feed!AfterAwait(s, got)
      BY <1>3, <2>1 DEF Feed!Finished
    <3>2. /\ Stored(shown') /\ shown'.flows = s.flows \cup Feed!Of(got, "SlashInitiated")
          /\ shown'.job = s.job /\ shown'.bids = s.bids /\ shown'.winners = s.winners
          /\ shown'.subAgent = s.subAgent
      BY <1>5, <3>1, AfterAwaitShown
    <3>3. PollingSound'
      <4>1. covered' \subseteq covered \cup Reach(p)
        BY <1>1
      <4> QED BY ONLY <1>1, <1>5, <3>1, <4>1, PollingSound, p \in Polls, FinishKeeps
    <3>4. \A q \in Polls : q # p => poll'[q] = poll[q]
      BY <3>1 DEF Feed!Finished, Feed!Ends, PollingSound, FeedTypes
    <3> QED BY <2>1, <3>2, <3>3, <3>4
  <2>2. CASE /\ shown' = Feed!BeforeAwait(shown, got)
             /\ poll' = [poll EXCEPT ![p].pc = "settling", ![p].got = got]
             /\ UNCHANGED <<lastProcessedBlock, inFlight>>
    <3>1. shown' = s
      BY <1>3, <2>2
    <3>2. PollingSound'
      BY <1>1, <1>5, <2>2, <3>1, WaitingKeeps
    <3>3. poll'[p].pc = "settling" /\ poll'[p].got = got
      BY <2>2, PollTyped DEF PollingSound, FeedTypes, PollShape
    <3>4. \A q \in Polls : q # p => poll'[q] = poll[q]
      BY <2>2 DEF PollingSound, FeedTypes
    <3> QED BY <3>1, <3>2, <3>3, <3>4
  <2> QED BY <1>2, <2>1, <2>2
<1>8. JobIsShown'
  BY <1>1, <1>2, <1>5, <1>7, JobKeeps DEF StoreSound
<1>9. PaidIsShown'
  <2>1. /\ shown.flows \subseteq shown'.flows
        /\ \A kind \in {"BidSubmitted", "WinnersSelected", "DataPurchased"} :
             Feed!Of(got, kind) \subseteq shown'.flows
    BY <1>6, <1>7
  <2> QED BY <1>1, <1>2, <1>7, <2>1, PaidKeeps DEF StoreSound
<1>10. SubJobIsShown'
  <2>1. /\ shown.flows \subseteq shown'.flows
        /\ shown'.subAgent => Feed!Of(got, "ResultAccepted") \subseteq shown'.flows
    BY <1>6, <1>7
  <2> QED BY <1>1, <1>2, <1>5, <1>7, <2>1, SubJobKeeps DEF StoreSound
<1> QED BY <1>7, <1>8, <1>9, <1>10 DEF StoreSound

\* The details of a settlement are there, or not to be had.
LEMMA BreakdownKeeps ==
  ASSUME PollingSound, StoreSound, NEW p \in Polls, Feed!Breakdown(p)
  PROVE  PollingSound' /\ StoreSound'
<1> DEFINE got == poll[p].got
           paidOut == Feed!Of(got, "JobSettled")
<1>1. /\ poll[p].pc = "settling" /\ Busy(p)
      /\ UNCHANGED <<story, height, strict, service, covered>>
      /\ stale' = (stale \/ poll[p].of # service)
  BY DEF Feed!Breakdown, Feed!At, Busy
<1>2. PICK s : /\ s = shown \/ s = [shown EXCEPT !.flows = @ \cup paidOut]
               /\ Feed!Finished(p, s, got)
               /\ \/ lost' = lost /\ s = [shown EXCEPT !.flows = @ \cup paidOut]
                  \/ lost' = lost \cup paidOut
  BY DEF Feed!Breakdown, Feed!SettlementsIn, Feed!AddFlows
<1>3. Stored(shown)
  BY DEF PollingSound, FeedTypes
<1>4. /\ Stored(s) /\ s.job = shown.job /\ s.bids = shown.bids /\ s.winners = shown.winners
      /\ s.subAgent = shown.subAgent /\ shown.flows \subseteq s.flows
      /\ lost' = lost \cup paidOut \/ (lost' = lost /\ paidOut \subseteq s.flows)
  BY <1>2, <1>3 DEF Stored
<1>5. shown' = Feed!AfterAwait(s, got)
  BY <1>2 DEF Feed!Finished
<1>6. /\ shown'.flows = s.flows \cup Feed!Of(got, "SlashInitiated")
      /\ shown'.job = s.job /\ shown'.bids = s.bids /\ shown'.winners = s.winners
      /\ shown'.subAgent = s.subAgent
  BY <1>4, <1>5, AfterAwaitShown
<1>7. PollingSound'
  <2>1. covered' \subseteq covered \cup Reach(p)
    BY <1>1
  <2> QED BY ONLY <1>1, <1>2, <1>4, <2>1, PollingSound, p \in Polls, FinishKeeps
<1>8. \A q \in Polls : q # p => poll'[q] = poll[q]
  BY <1>2 DEF Feed!Finished, Feed!Ends, PollingSound, FeedTypes
<1>9. /\ Known' \subseteq Known
      /\ \A b \in Known' : b \in paidOut => b \in s.flows
  BY <1>1, <1>4 DEF Known
<1>10. JobIsShown'
  <2>1. /\ Feed!Events(covered)' = Feed!Events(covered)
        /\ Feed!Of(covered, "BidSubmitted")' = Feed!Of(covered, "BidSubmitted")
    BY <1>1 DEF Feed!Events, Feed!Of
  <2>2. JobOf(covered)' = JobOf(covered)
    BY <2>1 DEF JobOf
  <2> QED BY <1>1, <1>4, <1>6, <2>1, <2>2 DEF StoreSound, JobIsShown
<1>11. PaidIsShown'
  <2> SUFFICES ASSUME NEW b \in Known'
               PROVE  /\ story[b] \in {"BidSubmitted", "WinnersSelected", "DataPurchased"}
                           => b \in shown'.flows
                      /\ story[b] \in {"JobSettled", "SlashInitiated"} =>
                           \/ b \in shown'.flows
                           \/ \E q \in Polls : poll'[q].pc = "settling" /\ b \in poll'[q].got
    BY <1>1 DEF PaidIsShown
  <2>1. /\ story[b] \in {"BidSubmitted", "WinnersSelected", "DataPurchased"} => b \in shown.flows
        /\ story[b] \in {"JobSettled", "SlashInitiated"} =>
             \/ b \in shown.flows
             \/ \E q \in Polls : poll[q].pc = "settling" /\ b \in poll[q].got
    BY <1>9 DEF StoreSound, PaidIsShown
  <2>2. ASSUME story[b] \in {"JobSettled", "SlashInitiated"}, b \in got
        PROVE  b \in shown'.flows
    BY <1>6, <1>9, <2>2 DEF Feed!Of
  <2>3. shown.flows \subseteq shown'.flows
    BY <1>4, <1>6
  <2> QED BY <1>8, <2>1, <2>2, <2>3
<1>12. SubJobIsShown'
  <2>1. "SubContractorSelected" \in Feed!Events(Known)' => "SubContractorSelected" \in Feed!Events(Known)
    BY <1>1, <1>9 DEF Feed!Events
  <2> QED BY <1>1, <1>4, <1>6, <1>9, <2>1 DEF StoreSound, SubJobIsShown
<1> QED BY <1>7, <1>10, <1>11, <1>12 DEF StoreSound

\* A store that shows nothing yet says nothing wrong.
LEMMA FeedInit ==
  ASSUME Feed!Init
  PROVE  PollingSound /\ StoreSound
<1>1. /\ story \in Histories /\ height = 0 /\ strict \in BOOLEAN /\ service = 1
      /\ lastProcessedBlock = [i \in 1..MaxServices |-> -1]
      /\ inFlight = [i \in 1..MaxServices |-> FALSE]
      /\ poll = [p \in Polls |-> Feed!Idle]
      /\ shown = Feed!Blank /\ covered = {} /\ lost = {} /\ stale = FALSE
  BY DEF Feed!Init, Feed!Services
<1>2. story \in Seq(Feed!Kinds) /\ Feed!Legal(story) /\ MaxServices \in Nat \ {0}
  BY <1>1, FeedAssumption DEF Feed!ConstantsOK
<1>3. Len(story) \in Nat
  BY <1>2
<1>4. FeedTypes
  <2>1. Feed!Idle \in PollShape
    BY <1>2 DEF Feed!Idle, PollShape
  <2>2. poll \in [Polls -> PollShape]
    BY <1>1, <2>1
  <2>3. Stored(shown)
    BY <1>1 DEF Stored, Feed!Blank
  <2>4. service \in 1..MaxServices /\ height \in 0..Len(story)
    BY <1>1, <1>2, <1>3
  <2> QED BY <1>1, <1>2, <2>2, <2>3, <2>4 DEF FeedTypes, PollShape
<1>5. \A p \in Polls : poll[p].pc = "idle"
  BY <1>1 DEF Feed!Idle
<1>6. PollsSound
  BY <1>1, <1>5 DEF PollsSound, Busy
<1>7. NotAhead /\ NotTwice
  BY <1>1 DEF NotAhead, NotTwice
<1>8. JobIsShown
  <2>1. Feed!Events(covered) = {} /\ Feed!Of(covered, "BidSubmitted") = {}
    BY <1>1 DEF Feed!Events, Feed!Of
  <2>2. Cardinality(Feed!Of(covered, "BidSubmitted")) = 0
    BY <2>1, FS_EmptySet
  <2> QED BY <1>1, <2>1, <2>2 DEF JobIsShown, JobOf, Feed!Blank
<1>9. PaidIsShown /\ SubJobIsShown
  BY <1>1 DEF PaidIsShown, SubJobIsShown, Known, Feed!Events
<1> QED BY <1>4, <1>6, <1>7, <1>8, <1>9 DEF PollingSound, StoreSound

\* The parts of the invariant make up the property.
LEMMA FeedShows ==
  ASSUME PollingSound, StoreSound
  PROVE  ShowsChain
<1>1. Feed!JobShown
  BY FeedCardinality DEF StoreSound, JobIsShown, JobOf, Feed!JobShown, Feed!Of
<1>2. Feed!PaymentsShown
  <2>1. Feed!Later = {"SlashInitiated", "FeeReceived"}
    BY DEF Feed!Later
  <2> QED BY <2>1 DEF Feed!PaymentsShown, StoreSound, PaidIsShown, SubJobIsShown, Known, Feed!At
<1> QED BY <1>1, <1>2 DEF ShowsChain, Feed!ShowsChain

\* What the store shows of a job and its payments is what the chain says of
\* them, for any number of services, polls on their way and failed calls, and
\* for every story the contracts can tell.
THEOREM ShowsChainHolds == Feed!Spec => []ShowsChain
<1> DEFINE Inv == PollingSound /\ StoreSound
<1>1. Feed!Init => Inv
  BY FeedInit
<1>2. Inv /\ [Feed!Next]_(Feed!feedVars) => Inv'
  <2> SUFFICES ASSUME PollingSound, StoreSound, [Feed!Next]_(Feed!feedVars)
               PROVE  PollingSound' /\ StoreSound'
    OBVIOUS
  <2>1. ASSUME NEW p \in Polls, Feed!Polling(p) \/ Feed!PollFails(p)
        PROVE  PollingSound' /\ StoreSound'
    BY <2>1, PollBegins, AnsweredKeeps, BreakdownKeeps, FailureKeeps DEF Feed!Polling
  <2>2. CASE Feed!PollEventsAPI
    BY <2>2, MessagesKeep
  <2>3. CASE Feed!Reconnect \/ Feed!Mine \/ Feed!Say \/ UNCHANGED Feed!feedVars
    BY <2>3, OutsideKeeps DEF feedVars, Feed!feedVars
  <2> QED BY <2>1, <2>2, <2>3 DEF Feed!Next
<1>3. Inv => ShowsChain
  BY FeedShows
<1> QED BY <1>1, <1>2, <1>3, PTL DEF Feed!Spec
=============================================================================
