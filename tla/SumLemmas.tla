------------------------------ MODULE SumLemmas ------------------------------
(***************************************************************************)
(* Sums of a function over a finite set, for the equations between an      *)
(* account and what it owes to everybody.  The sum is defined by recursion *)
(* over the set; an induction is carried out over a set of subsets, through *)
(* a counterexample of least cardinality.                                  *)
(***************************************************************************)
EXTENDS Integers, FiniteSets, Functions, FiniteSetTheorems, WellFoundedInduction, TLAPS

\* The element the recursion takes first, and the function it defines.
Chosen(s) == CHOOSE x \in s : TRUE
Body(f, g, s) == IF s = {} THEN 0 ELSE f[Chosen(s)] + g[s \ {Chosen(s)}]
Partial(f, P) == CHOOSE g : g = [s \in P |-> Body(f, g, s)]

LEMMA SumUnfolds ==
  ASSUME NEW f, NEW D
  PROVE  SumFunctionOnSet(f, D) = Partial(f, SUBSET D)[D]
BY DEF SumFunctionOnSet, FoldFunctionOnSet, MapThenFoldSet, Body, Chosen, Partial

LEMMA ChosenMember ==
  ASSUME NEW s, s # {}
  PROVE  Chosen(s) \in s
BY DEF Chosen

-----------------------------------------------------------------------------

LEMMA LeastNatural ==
  ASSUME NEW T, T \subseteq Nat, T # {}
  PROVE  \E m \in T : \A n \in T : m <= n
<1> DEFINE Less == OpToRel(<, Nat)
<1>1. IsWellFoundedOn(Less, Nat)
  BY NatLessThanWellFounded
<1>2. \A m, n \in Nat : m < n => <<m, n>> \in Less
  BY DEF OpToRel
<1> HIDE DEF Less
<1>3. PICK m \in T : \A n \in T : <<n, m>> \notin Less
  BY <1>1, WFMin
<1>4. \A n \in T : ~(n < m)
  BY <1>2, <1>3
<1> QED BY <1>3, <1>4

\* A set of subsets that is closed under adding one element has all of them.
LEMMA SubsetsByElement ==
  ASSUME NEW D, IsFiniteSet(D), NEW G, {} \in G,
         \A s \in SUBSET D : s # {} /\ s \ {Chosen(s)} \in G => s \in G
  PROVE  SUBSET D \subseteq G
<1> DEFINE T == {Cardinality(s) : s \in (SUBSET D) \ G}
<1> SUFFICES ASSUME (SUBSET D) \ G # {}
             PROVE  FALSE
  OBVIOUS
<1>1. \A s \in SUBSET D : IsFiniteSet(s) /\ Cardinality(s) \in Nat
  BY FS_Subset, FS_CardinalityType
<1>2. T \subseteq Nat /\ T # {}
  BY <1>1
<1>3. PICK m \in T : \A n \in T : m <= n
  BY <1>2, LeastNatural
<1>4. PICK s \in (SUBSET D) \ G : m = Cardinality(s)
  BY <1>3
<1>5. s # {} /\ Chosen(s) \in s
  BY <1>4, ChosenMember
<1>6. Cardinality(s \ {Chosen(s)}) = Cardinality(s) - 1
  BY <1>1, <1>4, <1>5, FS_RemoveElement
<1>7. s \ {Chosen(s)} \in (SUBSET D) \ G
  BY <1>4, <1>5
<1>8. Cardinality(s \ {Chosen(s)}) \in T
  BY <1>7
<1> HIDE DEF T
<1> QED BY <1>1, <1>3, <1>4, <1>6, <1>8

\* A set of naturals that is closed under the successor has all of them.
LEMMA NaturalsByOne ==
  ASSUME NEW G, 0 \in G, \A n \in Nat : n \in G => n + 1 \in G
  PROVE  Nat \subseteq G
<1> SUFFICES ASSUME Nat \ G # {}
             PROVE  FALSE
  OBVIOUS
<1>1. PICK m \in Nat \ G : \A n \in Nat \ G : m <= n
  BY LeastNatural
<1>2. m # 0 /\ m - 1 \in Nat
  BY <1>1
<1>3. m - 1 \in G
  BY <1>1, <1>2
<1> QED BY <1>1, <1>2, <1>3

-----------------------------------------------------------------------------
(***************************************************************************)
(* The recursion has a solution.                                           *)
(***************************************************************************)

LEMMA PartialExists ==
  ASSUME NEW D, IsFiniteSet(D), NEW f
  PROVE  \E g : g = [s \in SUBSET D |-> Body(f, g, s)]
<1> DEFINE UpTo(n) == {s \in SUBSET D : Cardinality(s) <= n}
           G == {n \in Nat : \E g : g = [s \in UpTo(n) |-> Body(f, g, s)]}
<1>1. \A s \in SUBSET D : IsFiniteSet(s) /\ Cardinality(s) \in Nat
                          /\ Cardinality(s) <= Cardinality(D) /\ Cardinality(D) \in Nat
  BY FS_Subset, FS_CardinalityType
<1>2. 0 \in G
  <2>1. UpTo(0) = {{}}
    BY <1>1, FS_EmptySet
  <2> DEFINE g == [s \in UpTo(0) |-> 0]
  <2>2. \A s \in UpTo(0) : Body(f, g, s) = 0
    BY <2>1 DEF Body
  <2> HIDE DEF UpTo
  <2>3. g = [s \in UpTo(0) |-> Body(f, g, s)]
    BY <2>2
  <2> HIDE DEF g
  <2> QED BY <2>3
<1>3. ASSUME NEW n \in Nat, n \in G
      PROVE  n + 1 \in G
  <2>1. PICK g : g = [s \in UpTo(n) |-> Body(f, g, s)]
    BY <1>3
  <2> DEFINE h == [s \in UpTo(n + 1) |-> Body(f, g, s)]
  <2>2. \A s \in UpTo(n) : s \in UpTo(n + 1) /\ g[s] = Body(f, g, s)
    BY <1>1, <2>1
  <2>3. \A s \in UpTo(n) : h[s] = g[s]
    BY <2>2
  <2>4. \A s \in UpTo(n + 1) : s # {} => s \ {Chosen(s)} \in UpTo(n)
    <3> SUFFICES ASSUME NEW s \in UpTo(n + 1), s # {}
                 PROVE  s \ {Chosen(s)} \in UpTo(n)
      OBVIOUS
    <3>1. Cardinality(s \ {Chosen(s)}) = Cardinality(s) - 1
      BY <1>1, ChosenMember, FS_RemoveElement
    <3> QED BY <1>1, <3>1
  <2> HIDE DEF UpTo, h
  <2>5. \A s \in UpTo(n + 1) : Body(f, g, s) = Body(f, h, s)
    BY <2>3, <2>4 DEF Body
  <2>6. h = [s \in UpTo(n + 1) |-> Body(f, h, s)]
    BY <2>5 DEF h
  <2> QED BY <2>6
<1>4. Cardinality(D) \in G
  <2> HIDE DEF G
  <2>1. Nat \subseteq G
    BY <1>2, <1>3, NaturalsByOne
  <2> QED BY <1>1, <2>1
<1>5. UpTo(Cardinality(D)) = SUBSET D
  BY <1>1
<1> HIDE DEF UpTo
<1> QED BY <1>4, <1>5

LEMMA PartialSolves ==
  ASSUME NEW D, IsFiniteSet(D), NEW f, NEW s \in SUBSET D
  PROVE  Partial(f, SUBSET D)[s] = Body(f, Partial(f, SUBSET D), s)
<1>1. Partial(f, SUBSET D) = [t \in SUBSET D |-> Body(f, Partial(f, SUBSET D), t)]
  BY PartialExists DEF Partial
<1> QED BY <1>1

\* The recursion over a subset is that over the whole.
LEMMA PartialAgrees ==
  ASSUME NEW D, IsFiniteSet(D), NEW f, NEW S \in SUBSET D, NEW s \in SUBSET S
  PROVE  Partial(f, SUBSET S)[s] = Partial(f, SUBSET D)[s]
<1> DEFINE G == {t \in SUBSET S : Partial(f, SUBSET S)[t] = Partial(f, SUBSET D)[t]}
<1>1. IsFiniteSet(S)
  BY FS_Subset
<1>2. {} \in G
  BY <1>1, PartialSolves DEF Body
<1>3. ASSUME NEW t \in SUBSET S, t # {}, t \ {Chosen(t)} \in G
      PROVE  t \in G
  <2>1. Partial(f, SUBSET S)[t] = f[Chosen(t)] + Partial(f, SUBSET S)[t \ {Chosen(t)}]
    BY <1>1, <1>3, PartialSolves DEF Body
  <2>2. Partial(f, SUBSET D)[t] = f[Chosen(t)] + Partial(f, SUBSET D)[t \ {Chosen(t)}]
    BY <1>3, PartialSolves DEF Body
  <2> QED BY <1>3, <2>1, <2>2
<1> HIDE DEF G
<1>4. SUBSET S \subseteq G
  BY <1>1, <1>2, <1>3, SubsetsByElement
<1> QED BY <1>4 DEF G

-----------------------------------------------------------------------------
(***************************************************************************)
(* What the other lemmas use: the sum of nothing, and one element more.    *)
(***************************************************************************)

LEMMA SumOfNothing == \A f : SumFunctionOnSet(f, {}) = 0
<1>1. IsFiniteSet({})
  BY FS_EmptySet
<1> QED BY <1>1, SumUnfolds, PartialSolves DEF Body

LEMMA SumTakesOne ==
  ASSUME NEW D, IsFiniteSet(D), D # {}, NEW f
  PROVE  SumFunctionOnSet(f, D) = f[Chosen(D)] + SumFunctionOnSet(f, D \ {Chosen(D)})
<1> DEFINE E == D \ {Chosen(D)}
<1>1. SumFunctionOnSet(f, D) = Partial(f, SUBSET D)[D]
  BY SumUnfolds
<1>2. Partial(f, SUBSET D)[D] = f[Chosen(D)] + Partial(f, SUBSET D)[E]
  BY PartialSolves DEF Body
<1>3. Partial(f, SUBSET E)[E] = Partial(f, SUBSET D)[E]
  <2>1. E \in SUBSET D /\ E \in SUBSET E
    OBVIOUS
  <2> HIDE DEF E
  <2> QED BY ONLY <2>1, IsFiniteSet(D), PartialAgrees, ZenonT(60)
<1>4. SumFunctionOnSet(f, E) = Partial(f, SUBSET E)[E]
  BY SumUnfolds
<1> QED BY <1>1, <1>2, <1>3, <1>4

-----------------------------------------------------------------------------
(***************************************************************************)
(* Sums of integers.                                                       *)
(***************************************************************************)

LEMMA SumInteger ==
  ASSUME NEW D, IsFiniteSet(D), NEW f, \A x \in D : f[x] \in Int
  PROVE  SumFunctionOnSet(f, D) \in Int
<1> DEFINE G == {s \in SUBSET D : SumFunctionOnSet(f, s) \in Int}
<1>1. {} \in G
  BY SumOfNothing
<1>2. ASSUME NEW s \in SUBSET D, s # {}, s \ {Chosen(s)} \in G
      PROVE  s \in G
  <2>1. SumFunctionOnSet(f, s) = f[Chosen(s)] + SumFunctionOnSet(f, s \ {Chosen(s)})
    BY <1>2, FS_Subset, SumTakesOne
  <2>2. f[Chosen(s)] \in Int
    BY <1>2, ChosenMember
  <2> QED BY <1>2, <2>1, <2>2
<1> HIDE DEF G
<1>3. SUBSET D \subseteq G
  BY <1>1, <1>2, SubsetsByElement
<1> QED BY <1>3 DEF G

LEMMA SumSame ==
  ASSUME NEW D, IsFiniteSet(D), NEW f, NEW g, \A x \in D : f[x] = g[x]
  PROVE  SumFunctionOnSet(f, D) = SumFunctionOnSet(g, D)
<1> DEFINE G == {s \in SUBSET D : SumFunctionOnSet(f, s) = SumFunctionOnSet(g, s)}
<1>1. {} \in G
  BY SumOfNothing
<1>2. ASSUME NEW s \in SUBSET D, s # {}, s \ {Chosen(s)} \in G
      PROVE  s \in G
  <2>1. /\ SumFunctionOnSet(f, s) = f[Chosen(s)] + SumFunctionOnSet(f, s \ {Chosen(s)})
        /\ SumFunctionOnSet(g, s) = g[Chosen(s)] + SumFunctionOnSet(g, s \ {Chosen(s)})
    BY <1>2, FS_Subset, SumTakesOne
  <2>2. f[Chosen(s)] = g[Chosen(s)]
    BY <1>2, ChosenMember
  <2> QED BY <1>2, <2>1, <2>2
<1> HIDE DEF G
<1>3. SUBSET D \subseteq G
  BY <1>1, <1>2, SubsetsByElement
<1> QED BY <1>3 DEF G

\* Two functions that differ at one element.
LEMMA SumOneChanged ==
  ASSUME NEW D, IsFiniteSet(D), NEW f, NEW g, NEW x \in D,
         \A y \in D : f[y] \in Int /\ g[y] \in Int,
         \A y \in D \ {x} : f[y] = g[y]
  PROVE  SumFunctionOnSet(g, D) = SumFunctionOnSet(f, D) + g[x] - f[x]
<1> DEFINE Shown(s) == SumFunctionOnSet(g, s) =
                         IF x \in s THEN SumFunctionOnSet(f, s) + g[x] - f[x]
                         ELSE SumFunctionOnSet(f, s)
           G == {s \in SUBSET D : Shown(s)}
<1>1. {} \in G
  BY SumOfNothing
<1>2. ASSUME NEW s \in SUBSET D, s # {}, s \ {Chosen(s)} \in G
      PROVE  s \in G
  <2> DEFINE e == Chosen(s)
             r == s \ {e}
  <2>1. /\ SumFunctionOnSet(f, s) = f[e] + SumFunctionOnSet(f, r)
        /\ SumFunctionOnSet(g, s) = g[e] + SumFunctionOnSet(g, r)
    BY <1>2, FS_Subset, SumTakesOne
  <2>2. e \in s
    BY <1>2, ChosenMember
  <2>3. /\ f[e] \in Int /\ g[e] \in Int /\ f[x] \in Int /\ g[x] \in Int
        /\ e # x => f[e] = g[e]
    BY <1>2, <2>2
  <2>4. SumFunctionOnSet(f, r) \in Int /\ SumFunctionOnSet(g, r) \in Int
    <3>1. IsFiniteSet(r) /\ \A y \in r : f[y] \in Int /\ g[y] \in Int
      BY <1>2, FS_Subset
    <3> QED BY <3>1, SumInteger
  <2>5. Shown(r)
    BY <1>2
  <2>6. x \in r <=> x \in s /\ x # e
    OBVIOUS
  <2> HIDE DEF e, r
  <2>7. Shown(s)
    <3>1. CASE x = e
      BY <2>1, <2>2, <2>3, <2>4, <2>5, <2>6, <3>1
    <3>2. CASE x # e
      BY <2>1, <2>2, <2>3, <2>4, <2>5, <2>6, <3>2
    <3> QED BY <3>1, <3>2
  <2> QED BY <2>7
<1> HIDE DEF G
<1>3. SUBSET D \subseteq G
  BY <1>1, <1>2, SubsetsByElement
<1> QED BY <1>3 DEF G

LEMMA SumZero ==
  ASSUME NEW D, IsFiniteSet(D), NEW f, \A x \in D : f[x] = 0
  PROVE  SumFunctionOnSet(f, D) = 0
<1> DEFINE G == {s \in SUBSET D : SumFunctionOnSet(f, s) = 0}
<1>1. {} \in G
  BY SumOfNothing
<1>2. ASSUME NEW s \in SUBSET D, s # {}, s \ {Chosen(s)} \in G
      PROVE  s \in G
  <2>1. SumFunctionOnSet(f, s) = f[Chosen(s)] + SumFunctionOnSet(f, s \ {Chosen(s)})
    BY <1>2, FS_Subset, SumTakesOne
  <2>2. f[Chosen(s)] = 0
    BY <1>2, ChosenMember
  <2> QED BY <1>2, <2>1, <2>2
<1> HIDE DEF G
<1>3. SUBSET D \subseteq G
  BY <1>1, <1>2, SubsetsByElement
<1> QED BY <1>3 DEF G

\* A function cut down to a part of its domain; a part that grows by one element.
Cut(f, D, s) == [x \in D |-> IF x \in s THEN f[x] ELSE 0]

LEMMA CutGrows ==
  ASSUME NEW D, IsFiniteSet(D), NEW f, \A x \in D : f[x] \in Int, NEW r, NEW e \in D \ r
  PROVE  SumFunctionOnSet(Cut(f, D, r \cup {e}), D) = SumFunctionOnSet(Cut(f, D, r), D) + f[e]
<1>1. PICK part, whole : part = Cut(f, D, r) /\ whole = Cut(f, D, r \cup {e})
  OBVIOUS
<1>2. /\ \A y \in D : part[y] \in Int /\ whole[y] \in Int
      /\ \A y \in D \ {e} : part[y] = whole[y]
      /\ part[e] = 0 /\ whole[e] = f[e] /\ f[e] \in Int
  BY <1>1 DEF Cut
<1>3. SumFunctionOnSet(whole, D) = SumFunctionOnSet(part, D) + whole[e] - part[e]
  BY <1>2, SumOneChanged
<1>4. SumFunctionOnSet(part, D) \in Int
  BY <1>2, SumInteger
<1> QED BY <1>1, <1>2, <1>3, <1>4

\* The sum over a part is the sum over the whole of what is zero elsewhere.
LEMMA SumOfPart ==
  ASSUME NEW D, IsFiniteSet(D), NEW f, \A x \in D : f[x] \in Int, NEW S \in SUBSET D
  PROVE  SumFunctionOnSet(f, S) = SumFunctionOnSet([x \in D |-> IF x \in S THEN f[x] ELSE 0], D)
<1> DEFINE G == {s \in SUBSET D : SumFunctionOnSet(f, s) = SumFunctionOnSet(Cut(f, D, s), D)}
<1>1. {} \in G
  <2>1. \A x \in D : Cut(f, D, {})[x] = 0
    BY DEF Cut
  <2>2. SumFunctionOnSet(Cut(f, D, {}), D) = 0
    BY <2>1, SumZero
  <2> QED BY <2>2, SumOfNothing
<1>2. ASSUME NEW s \in SUBSET D, s # {}, s \ {Chosen(s)} \in G
      PROVE  s \in G
  <2>1. PICK e \in s : e = Chosen(s)
    BY <1>2, ChosenMember
  <2>2. PICK r : r = s \ {e}
    OBVIOUS
  <2>3. r \in SUBSET D /\ s = r \cup {e} /\ e \in D \ r
    BY <2>2
  <2>4. SumFunctionOnSet(f, s) = f[e] + SumFunctionOnSet(f, r)
    <3>1. IsFiniteSet(s)
      BY FS_Subset
    <3> QED BY <1>2, <2>1, <2>2, <3>1, SumTakesOne
  <2>5. SumFunctionOnSet(Cut(f, D, s), D) = SumFunctionOnSet(Cut(f, D, r), D) + f[e]
    BY <2>3, CutGrows
  <2>6. SumFunctionOnSet(f, r) = SumFunctionOnSet(Cut(f, D, r), D)
    BY <1>2, <2>1, <2>2
  <2>7. f[e] \in Int /\ SumFunctionOnSet(f, r) \in Int
    <3>1. IsFiniteSet(r) /\ \A y \in r : f[y] \in Int
      BY <2>3, FS_Subset
    <3> QED BY <2>3, <3>1, SumInteger
  <2>8. SumFunctionOnSet(f, s) = SumFunctionOnSet(Cut(f, D, s), D)
    BY <2>4, <2>5, <2>6, <2>7
  <2> QED BY <2>8
<1> HIDE DEF G
<1>3. SUBSET D \subseteq G
  BY <1>1, <1>2, SubsetsByElement
<1>4. SumFunctionOnSet(f, S) = SumFunctionOnSet(Cut(f, D, S), D)
  BY <1>3 DEF G
<1> QED BY <1>4 DEF Cut

\* No part of a sum of naturals is more than the sum.
LEMMA SumAtLeast ==
  ASSUME NEW D, IsFiniteSet(D), NEW f, \A x \in D : f[x] \in Nat
  PROVE  SumFunctionOnSet(f, D) \in Nat /\ \A x \in D : f[x] <= SumFunctionOnSet(f, D)
<1> DEFINE G == {s \in SUBSET D : /\ SumFunctionOnSet(f, s) \in Nat
                                   /\ \A x \in s : f[x] <= SumFunctionOnSet(f, s)}
<1>1. {} \in G
  BY SumOfNothing
<1>2. ASSUME NEW s \in SUBSET D, s # {}, s \ {Chosen(s)} \in G
      PROVE  s \in G
  <2>1. SumFunctionOnSet(f, s) = f[Chosen(s)] + SumFunctionOnSet(f, s \ {Chosen(s)})
    BY <1>2, FS_Subset, SumTakesOne
  <2>2. Chosen(s) \in s /\ \A x \in s : f[x] \in Nat
    BY <1>2, ChosenMember
  <2>3. /\ SumFunctionOnSet(f, s \ {Chosen(s)}) \in Nat
        /\ \A x \in s \ {Chosen(s)} : f[x] <= SumFunctionOnSet(f, s \ {Chosen(s)})
    BY <1>2
  <2>4. SumFunctionOnSet(f, s) \in Nat
    BY <2>1, <2>2, <2>3
  <2>5. ASSUME NEW x \in s
        PROVE  f[x] <= SumFunctionOnSet(f, s)
    <3>1. CASE x = Chosen(s)
      BY <2>1, <2>2, <2>3, <3>1
    <3>2. CASE x # Chosen(s)
      <4>1. x \in s \ {Chosen(s)}
        BY <3>2
      <4>2. f[x] <= SumFunctionOnSet(f, s \ {Chosen(s)}) /\ f[x] \in Nat
        BY <2>2, <2>3, <4>1
      <4> QED BY <2>1, <2>2, <2>3, <4>2
    <3> QED BY <3>1, <3>2
  <2> QED BY <2>4, <2>5
<1> HIDE DEF G
<1>3. SUBSET D \subseteq G
  BY <1>1, <1>2, SubsetsByElement
<1> QED BY <1>3 DEF G

\* The sum of two functions, added up.
LEMMA SumAdds ==
  ASSUME NEW D, IsFiniteSet(D), NEW f, NEW g, NEW h,
         \A x \in D : f[x] \in Int /\ g[x] \in Int /\ h[x] = f[x] + g[x]
  PROVE  SumFunctionOnSet(h, D) = SumFunctionOnSet(f, D) + SumFunctionOnSet(g, D)
<1> DEFINE G == {s \in SUBSET D :
                   SumFunctionOnSet(h, s) = SumFunctionOnSet(f, s) + SumFunctionOnSet(g, s)}
<1>1. {} \in G
  BY SumOfNothing
<1>2. ASSUME NEW s \in SUBSET D, s # {}, s \ {Chosen(s)} \in G
      PROVE  s \in G
  <2> DEFINE e == Chosen(s)
             r == s \ {e}
  <2>1. /\ SumFunctionOnSet(f, s) = f[e] + SumFunctionOnSet(f, r)
        /\ SumFunctionOnSet(g, s) = g[e] + SumFunctionOnSet(g, r)
        /\ SumFunctionOnSet(h, s) = h[e] + SumFunctionOnSet(h, r)
    BY <1>2, FS_Subset, SumTakesOne
  <2>2. f[e] \in Int /\ g[e] \in Int /\ h[e] = f[e] + g[e]
    BY <1>2, ChosenMember
  <2>3. SumFunctionOnSet(f, r) \in Int /\ SumFunctionOnSet(g, r) \in Int
    <3>1. IsFiniteSet(r) /\ \A y \in r : f[y] \in Int /\ g[y] \in Int
      BY <1>2, FS_Subset
    <3> QED BY <3>1, SumInteger
  <2>4. SumFunctionOnSet(h, r) = SumFunctionOnSet(f, r) + SumFunctionOnSet(g, r)
    BY <1>2
  <2> HIDE DEF e, r
  <2>5. SumFunctionOnSet(h, s) = SumFunctionOnSet(f, s) + SumFunctionOnSet(g, s)
    BY <2>1, <2>2, <2>3, <2>4
  <2> QED BY <2>5
<1> HIDE DEF G
<1>3. SUBSET D \subseteq G
  BY <1>1, <1>2, SubsetsByElement
<1> QED BY <1>3 DEF G

\* A common factor.
LEMMA SumScaled ==
  ASSUME NEW D, IsFiniteSet(D), NEW k \in Int, NEW f, NEW g,
         \A x \in D : f[x] \in Int /\ g[x] = k * f[x]
  PROVE  SumFunctionOnSet(g, D) = k * SumFunctionOnSet(f, D)
<1> DEFINE G == {s \in SUBSET D : SumFunctionOnSet(g, s) = k * SumFunctionOnSet(f, s)}
<1>1. {} \in G
  BY SumOfNothing
<1>2. ASSUME NEW s \in SUBSET D, s # {}, s \ {Chosen(s)} \in G
      PROVE  s \in G
  <2> DEFINE e == Chosen(s)
             r == s \ {e}
  <2>1. /\ SumFunctionOnSet(f, s) = f[e] + SumFunctionOnSet(f, r)
        /\ SumFunctionOnSet(g, s) = g[e] + SumFunctionOnSet(g, r)
    BY <1>2, FS_Subset, SumTakesOne
  <2>2. f[e] \in Int /\ g[e] = k * f[e]
    BY <1>2, ChosenMember
  <2>3. SumFunctionOnSet(f, r) \in Int
    <3>1. IsFiniteSet(r) /\ \A y \in r : f[y] \in Int
      BY <1>2, FS_Subset
    <3> QED BY <3>1, SumInteger
  <2>4. SumFunctionOnSet(g, r) = k * SumFunctionOnSet(f, r)
    BY <1>2
  <2> HIDE DEF e, r
  <2>5. \A x, y \in Int : k * x + k * y = k * (x + y)
    OBVIOUS
  <2>6. SumFunctionOnSet(g, s) = k * SumFunctionOnSet(f, s)
    BY <2>1, <2>2, <2>3, <2>4, <2>5
  <2> QED BY <2>6
<1> HIDE DEF G
<1>3. SUBSET D \subseteq G
  BY <1>1, <1>2, SubsetsByElement
<1> QED BY <1>3 DEF G

\* Term by term at most, at most in all.
LEMMA SumAtMost ==
  ASSUME NEW D, IsFiniteSet(D), NEW f, NEW g,
         \A x \in D : f[x] \in Int /\ g[x] \in Int /\ f[x] <= g[x]
  PROVE  SumFunctionOnSet(f, D) <= SumFunctionOnSet(g, D)
<1> DEFINE rest == [x \in D |-> g[x] - f[x]]
<1>1. \A x \in D : /\ rest[x] \in Nat /\ f[x] \in Int /\ g[x] = f[x] + rest[x]
                   /\ rest[x] \in Int
  OBVIOUS
<1> HIDE DEF rest
<1>2. SumFunctionOnSet(g, D) = SumFunctionOnSet(f, D) + SumFunctionOnSet(rest, D)
  BY <1>1, SumAdds
<1>3. SumFunctionOnSet(rest, D) \in Nat /\ SumFunctionOnSet(f, D) \in Int
  BY <1>1, SumAtLeast, SumInteger
<1> QED BY <1>2, <1>3
=============================================================================
