--------------------------- MODULE CountingProofs ---------------------------
(***************************************************************************)
(* What moving an element does to the counts of Counting.                  *)
(***************************************************************************)
EXTENDS Counting, Integers, FiniteSetTheorems, WellFoundedInduction, FunctionTheorems, SequenceTheorems,
        TLAPS

\* The positions of x in s are finitely many.
LEMMA PositionsFinite ==
  ASSUME NEW V, NEW s \in Seq(V), NEW x
  PROVE  IsFiniteSet({i \in 1..Len(s) : s[i] = x})
<1>1. Len(s) \in Nat
  OBVIOUS
<1>2. IsFiniteSet(1..Len(s))
  BY <1>1, FS_Interval
<1>3. {i \in 1..Len(s) : s[i] = x} \in SUBSET (1..Len(s))
  OBVIOUS
<1>4. QED
  BY <1>2, <1>3, FS_Subset

\* A count of positions is a natural number.
LEMMA OccursNat ==
  ASSUME NEW V, NEW s \in Seq(V), NEW x
  PROVE  Occurs(s, x) \in Nat
BY PositionsFinite, FS_CardinalityType DEF Occurs

\* Nothing is in an empty sequence.
LEMMA OccursEmpty ==
  ASSUME NEW x
  PROVE  Occurs(<<>>, x) = 0
<1>1. {i \in 1..Len(<<>>) : <<>>[i] = x} = {}
  OBVIOUS
<1>2. QED
  BY <1>1, FS_EmptySet DEF Occurs

\* What is at some position counts.
LEMMA OccursSome ==
  ASSUME NEW V, NEW s \in Seq(V), NEW x
  PROVE  Occurs(s, x) > 0 <=> \E i \in 1..Len(s) : s[i] = x
<1> DEFINE P == {i \in 1..Len(s) : s[i] = x}
<1>1. IsFiniteSet(P)
  BY PositionsFinite
<1>2. Cardinality(P) = 0 <=> P = {}
  BY <1>1, FS_EmptySet
<1>3. Cardinality(P) \in Nat
  BY <1>1, FS_CardinalityType
<1>4. QED
  BY <1>2, <1>3 DEF Occurs

\* An element sent to a queue.
LEMMA OccursAppend ==
  ASSUME NEW V, NEW s \in Seq(V), NEW y \in V, NEW x
  PROVE  Occurs(Append(s, y), x) = Occurs(s, x) + IF y = x THEN 1 ELSE 0
<1> DEFINE P == {i \in 1..Len(s) : s[i] = x}
           Q == {i \in 1..Len(Append(s, y)) : Append(s, y)[i] = x}
           n == Len(s) + 1
<1>0. Occurs(s, x) = Cardinality(P) /\ Occurs(Append(s, y), x) = Cardinality(Q)
  BY DEF Occurs
<1>1. IsFiniteSet(P) /\ n \notin P
  <2>1. IsFiniteSet(P)
    BY PositionsFinite
  <2>2. n \notin P
    OBVIOUS
  <2>3. QED
    BY <2>1, <2>2
<1>2. CASE y = x
  <2>1. Q = P \cup {n}
    BY <1>2
  <2> HIDE DEF P, Q, n
  <2>2. Cardinality(P \cup {n}) = Cardinality(P) + 1
    BY <1>1, FS_AddElement
  <2>3. QED
    BY <1>0, <1>2, <2>1, <2>2
<1>3. CASE y # x
  <2>1. Q = P
    BY <1>3
  <2> HIDE DEF P, Q, n
  <2>2. Cardinality(P) \in Nat
    BY <1>1, FS_CardinalityType
  <2>3. QED
    BY <1>0, <1>3, <2>1, <2>2
<1>4. QED
  BY <1>2, <1>3

\* A queue without its first element.
LEMMA OccursTail ==
  ASSUME NEW V, NEW s \in Seq(V), s # <<>>, NEW x
  PROVE  Occurs(Tail(s), x) = Occurs(s, x) - IF Head(s) = x THEN 1 ELSE 0
<1> DEFINE P == {i \in 1..Len(s) : s[i] = x}
           Q == {i \in 1..Len(Tail(s)) : Tail(s)[i] = x}
           R == P \ {1}
           f == [i \in Q |-> i + 1]
<1>1. IsFiniteSet(P) /\ IsFiniteSet(R) /\ Len(s) \in Nat \ {0}
  <2>1. IsFiniteSet(P)
    BY PositionsFinite
  <2>2. IsFiniteSet(R)
    BY <2>1, FS_RemoveElement
  <2>3. Len(s) \in Nat \ {0}
    OBVIOUS
  <2>4. QED
    BY <2>1, <2>2, <2>3
<1>2. Tail(s) \in Seq(V) /\ IsFiniteSet(Q)
  <2>1. Tail(s) \in Seq(V)
    OBVIOUS
  <2>2. QED
    BY <2>1, PositionsFinite
<1>3. Cardinality(Q) = Cardinality(R)
  <2>1. f \in [Q -> R]
    BY <1>1
  <2>2. \A i, j \in Q : f[i] = f[j] => i = j
    OBVIOUS
  <2>3. \A r \in R : \E i \in Q : f[i] = r
    <3>1. TAKE r \in R
    <3>2. r - 1 \in Q /\ f[r - 1] = r
      BY <1>1
    <3>3. QED
      BY <3>2
  <2>4. f \in Bijection(Q, R)
    BY <2>1, <2>2, <2>3, Fun_IsBij
  <2>5. ExistsBijection(Q, R)
    BY <2>4 DEF ExistsBijection
  <2> HIDE DEF Q, R
  <2>6. QED
    BY <1>2, <2>5, FS_Bijection
<1>4. Cardinality(R) = IF 1 \in P THEN Cardinality(P) - 1 ELSE Cardinality(P)
  BY <1>1, FS_RemoveElement
<1>5. 1 \in P <=> Head(s) = x
  BY <1>1
<1>6. Cardinality(P) \in Nat
  BY <1>1, FS_CardinalityType
<1>7. Occurs(s, x) = Cardinality(P) /\ Occurs(Tail(s), x) = Cardinality(Q)
  BY DEF Occurs
<1> HIDE DEF P, Q, R
<1>8. QED
  BY <1>3, <1>4, <1>5, <1>6, <1>7

-----------------------------------------------------------------------------
\* A count of threads is a natural number, and is positive if there is one.
LEMMA HoldersNat ==
  ASSUME NEW f, IsFiniteSet(DOMAIN f), NEW x
  PROVE  /\ Holders(f, x) \in Nat
         /\ Holders(f, x) > 0 <=> \E w \in DOMAIN f : f[w] = x
<1> DEFINE H == {w \in DOMAIN f : f[w] = x}
<1>1. H \in SUBSET (DOMAIN f)
  OBVIOUS
<1>2. IsFiniteSet(H)
  BY <1>1, FS_Subset
<1>3. Cardinality(H) \in Nat /\ (Cardinality(H) = 0 <=> H = {})
  BY <1>2, FS_CardinalityType, FS_EmptySet
<1>4. QED
  BY <1>3 DEF Holders

\* One thread drops what it has and takes v.
LEMMA HoldersExcept ==
  ASSUME NEW f, IsFiniteSet(DOMAIN f), NEW w \in DOMAIN f, NEW v, NEW x,
         NEW g, DOMAIN g = DOMAIN f, g[w] = v, \A u \in DOMAIN f : u # w => g[u] = f[u]
  PROVE  Holders(g, x) =
            Holders(f, x) - (IF f[w] = x THEN 1 ELSE 0) + (IF v = x THEN 1 ELSE 0)
<1> DEFINE H == {u \in DOMAIN f : f[u] = x}
           G == {u \in DOMAIN g : g[u] = x}
           R == H \ {w}
<1>1. H \in SUBSET (DOMAIN f)
  OBVIOUS
<1>2. IsFiniteSet(H) /\ IsFiniteSet(R) /\ Cardinality(H) \in Nat
  BY <1>1, FS_Subset, FS_RemoveElement, FS_CardinalityType
<1>3. Cardinality(R) = IF f[w] = x THEN Cardinality(H) - 1 ELSE Cardinality(H)
  BY <1>2, FS_RemoveElement
<1>4. Cardinality(G) = IF v = x THEN Cardinality(R) + 1 ELSE Cardinality(R)
  <2>1. CASE v = x
    <3>1. G = R \cup {w} /\ w \notin R
      BY <2>1
    <3>2. QED
      BY <1>2, <2>1, <3>1, FS_AddElement
  <2>2. CASE v # x
    <3>1. G = R
      BY <2>2
    <3>2. QED
      BY <2>2, <3>1
  <2>3. QED
    BY <2>1, <2>2
<1>5. QED
  BY <1>2, <1>3, <1>4 DEF Holders

\* With nobody else to hold it, at most one thread does.
LEMMA HoldersOne ==
  ASSUME NEW f, IsFiniteSet(DOMAIN f), NEW x, Holders(f, x) <= 1,
         NEW u \in DOMAIN f, NEW w \in DOMAIN f, f[u] = x, f[w] = x
  PROVE  u = w
<1> DEFINE H == {a \in DOMAIN f : f[a] = x}
<1>1. H \in SUBSET (DOMAIN f) /\ u \in H /\ w \in H
  OBVIOUS
<1>2. IsFiniteSet(H)
  BY <1>1, FS_Subset
<1>3. Cardinality(H) \in Nat /\ Cardinality(H) # 0
  BY <1>1, <1>2, FS_CardinalityType, FS_EmptySet
<1>4. Cardinality(H) = 1
  BY <1>3 DEF Holders
<1>5. PICK y : H = {y}
  BY <1>2, <1>4, FS_Singleton
<1>6. QED
  BY <1>1, <1>5

-----------------------------------------------------------------------------
\* The spots of x in the sequence of one thread, and how many they are.
LEMMA SpotsOfOne ==
  ASSUME NEW V, NEW s \in Seq(V), NEW w, NEW x
  PROVE  IsFiniteSet(SpotsIn(w, s, x)) /\ Cardinality(SpotsIn(w, s, x)) = Occurs(s, x)
<1> DEFINE P == {i \in 1..Len(s) : s[i] = x}
           S == {w} \X P
           f == [i \in P |-> <<w, i>>]
<1>1. IsFiniteSet(P)
  BY PositionsFinite
<1>2. f \in Bijection(P, S)
  <2>1. f \in [P -> S]
    OBVIOUS
  <2>2. \A i, j \in P : f[i] = f[j] => i = j
    OBVIOUS
  <2>3. \A p \in S : \E i \in P : f[i] = p
    OBVIOUS
  <2>4. QED
    BY <2>1, <2>2, <2>3, Fun_IsBij
<1>3. ExistsBijection(P, S)
  BY <1>2 DEF ExistsBijection
<1> HIDE DEF P, S, f
<1>4. IsFiniteSet(S) /\ Cardinality(S) = Cardinality(P)
  BY <1>1, <1>3, FS_Bijection
<1>5. QED
  BY <1>4 DEF P, S, Occurs, SpotsIn

\* The spots of x are finitely many.
LEMMA SpotsFinite ==
  ASSUME NEW V, NEW f, IsFiniteSet(DOMAIN f), \A w \in DOMAIN f : f[w] \in Seq(V), NEW x
  PROVE  IsFiniteSet(Spots(f, x))
<1> DEFINE At(w) == SpotsIn(w, f[w], x)
           All == {At(w) : w \in DOMAIN f}
           h == [w \in DOMAIN f |-> At(w)]
<1>1. \A w \in DOMAIN f : IsFiniteSet(At(w))
  BY SpotsOfOne
<1> HIDE DEF At
<1>2. h \in Surjection(DOMAIN f, All)
  <2>1. h \in [DOMAIN f -> All]
    OBVIOUS
  <2>2. \A S \in All : \E w \in DOMAIN f : h[w] = S
    OBVIOUS
  <2>3. QED
    BY <2>1, <2>2, Fun_IsSurj
<1>3. \A S \in All : IsFiniteSet(S)
  BY <1>1
<1> HIDE DEF All, h
<1>4. IsFiniteSet(All)
  BY <1>2, FS_Surjection
<1>5. IsFiniteSet(UNION All)
  BY <1>3, <1>4, FS_UNION
<1>6. QED
  BY <1>5 DEF All, At, Spots

\* One thread exchanges its sequence.
LEMMA EntriesExcept ==
  ASSUME NEW V, NEW f, IsFiniteSet(DOMAIN f), \A u \in DOMAIN f : f[u] \in Seq(V),
         NEW w \in DOMAIN f, NEW s \in Seq(V), NEW x,
         NEW g, DOMAIN g = DOMAIN f, g[w] = s, \A u \in DOMAIN f : u # w => g[u] = f[u]
  PROVE  /\ Entries(g, x) = Entries(f, x) - Occurs(f[w], x) + Occurs(s, x)
         /\ Entries(f, x) \in Nat
<1> DEFINE At(t) == SpotsIn(w, t, x)
           A == Spots(f, x)
           B == Spots(g, x)
           C == A \ At(f[w])
<1>1. IsFiniteSet(A) /\ f[w] \in Seq(V)
  BY SpotsFinite
<1>2. /\ IsFiniteSet(At(f[w])) /\ Cardinality(At(f[w])) = Occurs(f[w], x)
      /\ IsFiniteSet(At(s)) /\ Cardinality(At(s)) = Occurs(s, x)
  <2>1. \A t \in Seq(V) : IsFiniteSet(At(t)) /\ Cardinality(At(t)) = Occurs(t, x)
    BY SpotsOfOne
  <2> HIDE DEF At
  <2>2. QED
    BY <1>1, <2>1
<1>3. At(f[w]) \subseteq A
  BY DEF Spots
<1>4. B = C \cup At(s)
  <2>1. ASSUME NEW p \in B PROVE p \in C \cup At(s)
    <3>1. PICK u \in DOMAIN f : p \in SpotsIn(u, g[u], x)
      BY <2>1 DEF Spots
    <3>2. CASE u = w
      BY <3>1, <3>2
    <3>3. CASE u # w
      <4>1. p \in SpotsIn(u, f[u], x)
        BY <3>1, <3>3
      <4>2. p \in A /\ p \notin At(f[w])
        BY <3>3, <4>1 DEF Spots, SpotsIn
      <4>3. QED
        BY <4>2
    <3>4. QED
      BY <3>2, <3>3
  <2>2. ASSUME NEW p \in C PROVE p \in B
    <3>1. PICK u \in DOMAIN f : p \in SpotsIn(u, f[u], x)
      BY <2>2 DEF Spots
    <3>2. u # w
      BY <2>2, <3>1
    <3>3. p \in SpotsIn(u, g[u], x)
      BY <3>1, <3>2
    <3>4. QED
      BY <3>3 DEF Spots
  <2>3. ASSUME NEW p \in At(s) PROVE p \in B
    BY <2>3 DEF Spots
  <2>4. QED
    BY <2>1, <2>2, <2>3
<1>5. C \cap At(s) = {}
  <2>1. ASSUME NEW p \in C, p \in At(s) PROVE FALSE
    <3>1. PICK u \in DOMAIN f : p \in SpotsIn(u, f[u], x)
      BY <2>1 DEF Spots
    <3>2. u = w
      BY <2>1, <3>1 DEF SpotsIn
    <3>3. QED
      BY <2>1, <3>1, <3>2
  <2>2. QED
    BY <2>1
<1> HIDE DEF A, B, C, At
<1>6. IsFiniteSet(C) /\ Cardinality(C) = Cardinality(A) - Cardinality(A \cap At(f[w]))
  BY <1>1, FS_Difference DEF C
<1>7. A \cap At(f[w]) = At(f[w])
  BY <1>3
<1>8. Cardinality(B) = Cardinality(C) + Cardinality(At(s)) - Cardinality({})
  BY <1>2, <1>4, <1>5, <1>6, FS_Union
<1>9. Cardinality({}) = 0 /\ Cardinality(A) \in Nat /\ Cardinality(At(s)) \in Nat
         /\ Cardinality(At(f[w])) \in Nat
  BY <1>1, <1>2, FS_EmptySet, FS_CardinalityType
<1>10. Entries(g, x) = Cardinality(B) /\ Entries(f, x) = Cardinality(A)
  BY DEF Entries, A, B
<1>11. Cardinality(C) = Cardinality(A) - Occurs(f[w], x)
  BY <1>2, <1>6, <1>7
<1>12. Cardinality(B) = Cardinality(C) + Occurs(s, x)
  <2>1. Cardinality(C) \in Nat
    BY <1>6, FS_CardinalityType
  <2>2. QED
    BY <1>2, <1>8, <1>9, <2>1
<1>13. QED
  BY <1>9, <1>10, <1>11, <1>12

\* With every sequence empty there is nothing.
LEMMA EntriesEmpty ==
  ASSUME NEW f, \A w \in DOMAIN f : f[w] = <<>>, NEW x
  PROVE  Entries(f, x) = 0
<1>1. Spots(f, x) = {}
  BY DEF Spots, SpotsIn
<1>2. QED
  BY <1>1, FS_EmptySet DEF Entries

\* A run of consecutive numbers has each of them once.
LEMMA OccursRun ==
  ASSUME NEW V, NEW s \in Seq(V), NEW a \in Int, \A i \in 1..Len(s) : s[i] = a + i - 1,
         NEW x \in Int
  PROVE  Occurs(s, x) = IF a <= x /\ x < a + Len(s) THEN 1 ELSE 0
<1> DEFINE P == {i \in 1..Len(s) : s[i] = x}
<1>0. Len(s) \in Nat
  OBVIOUS
<1>1. CASE a <= x /\ x < a + Len(s)
  <2>1. P = {x - a + 1}
    BY <1>0, <1>1
  <2>2. QED
    BY <1>1, <2>1, FS_Singleton DEF Occurs
<1>2. CASE ~(a <= x /\ x < a + Len(s))
  <2>1. P = {}
    BY <1>0, <1>2
  <2>2. QED
    BY <1>2, <2>1, FS_EmptySet DEF Occurs
<1>3. QED
  BY <1>1, <1>2

-----------------------------------------------------------------------------
\* If there are more things than threads and places in a queue, one is with none.
LEMMA SomeFree ==
  ASSUME NEW T, IsFiniteSet(T), NEW V, NEW s \in Seq(V),
         NEW f, IsFiniteSet(DOMAIN f),
         Cardinality(T) > Len(s) + Cardinality(DOMAIN f)
  PROVE  \E t \in T : (\A i \in 1..Len(s) : s[i] # t) /\ (\A w \in DOMAIN f : f[w] # t)
<1> DEFINE A == {s[i] : i \in 1..Len(s)}
           B == {f[w] : w \in DOMAIN f}
           ga == [i \in 1..Len(s) |-> s[i]]
           gb == [w \in DOMAIN f |-> f[w]]
<1>1. /\ IsFiniteSet(1..Len(s)) /\ Cardinality(1..Len(s)) = Len(s) /\ Len(s) \in Nat
  <2>1. Len(s) \in Nat
    OBVIOUS
  <2>2. \A n \in Nat : IsFiniteSet(1..n) /\ Cardinality(1..n) = n
    BY FS_Interval
  <2>3. QED
    BY <2>1, <2>2
<1>2. IsFiniteSet(A) /\ Cardinality(A) <= Len(s)
  <2>1. ga \in Surjection(1..Len(s), A)
    BY Fun_IsSurj
  <2> HIDE DEF A, ga
  <2>2. QED
    BY <1>1, <2>1, FS_Surjection
<1>3. IsFiniteSet(B) /\ Cardinality(B) <= Cardinality(DOMAIN f)
  <2>1. gb \in Surjection(DOMAIN f, B)
    BY Fun_IsSurj
  <2> HIDE DEF B, gb
  <2>2. QED
    BY <2>1, FS_Surjection
<1> HIDE DEF A, B
<1>4. IsFiniteSet(A \cup B)
         /\ Cardinality(A \cup B) = Cardinality(A) + Cardinality(B) - Cardinality(A \cap B)
  BY <1>2, <1>3, FS_Union
<1>5. Cardinality(A) \in Nat /\ Cardinality(B) \in Nat /\ Cardinality(A \cap B) \in Nat
         /\ Cardinality(T) \in Nat /\ Cardinality(DOMAIN f) \in Nat
  BY <1>2, <1>3, FS_CardinalityType, FS_Intersection
<1>6. Cardinality(A \cup B) < Cardinality(T)
  BY <1>1, <1>2, <1>3, <1>4, <1>5
<1>7. ~(T \subseteq A \cup B)
  <2>1. ASSUME T \subseteq A \cup B PROVE FALSE
    <3>1. T \in SUBSET (A \cup B)
      BY <2>1
    <3>2. Cardinality(T) <= Cardinality(A \cup B)
      BY <1>4, <3>1, FS_Subset
    <3>3. Cardinality(A \cup B) \in Nat
      BY <1>4, FS_CardinalityType
    <3>4. QED
      BY <1>5, <1>6, <3>2, <3>3
  <2>2. QED
    BY <2>1
<1>8. QED
  BY <1>7 DEF A, B
\* A set of natural numbers has a least element.
LEMMA LeastNatural ==
  ASSUME NEW T, T \subseteq Nat, T # {}
  PROVE  \E m \in T : \A k \in T : m <= k
<1> DEFINE U == {0..t : t \in T}
<1>1. U \subseteq FiniteSubsetsOf(Nat) /\ U # {}
  <2>1. ASSUME NEW t \in T PROVE IsFiniteSet(0..t) /\ 0..t \in SUBSET Nat
    <3>1. t \in Int /\ 0 \in Int
      OBVIOUS
    <3>2. IsFiniteSet(0..t)
      BY <3>1, FS_Interval
    <3>3. QED
      BY <3>1, <3>2
  <2>2. QED
    BY <2>1 DEF FiniteSubsetsOf
<1>2. IsWellFoundedOn(StrictSubsetOrdering(Nat), FiniteSubsetsOf(Nat))
  BY FS_StrictSubsetOrderingWellFounded
<1>3. PICK u \in U : \A v \in U : <<v, u>> \notin StrictSubsetOrdering(Nat)
  <2> HIDE DEF U
  <2>1. QED
    BY <1>1, <1>2, WFMin
<1>4. PICK m \in T : u = 0..m
  OBVIOUS
<1>5. ASSUME NEW k \in T PROVE m <= k
  <2>1. <<0..k, 0..m>> \notin StrictSubsetOrdering(Nat)
    BY <1>3, <1>4
  <2>2. 0..k \in SUBSET Nat /\ 0..m \in SUBSET Nat /\ m \in Nat /\ k \in Nat
    OBVIOUS
  <2>3. 0..k \subseteq 0..m => 0..k = 0..m
    BY <2>1, <2>2 DEF StrictSubsetOrdering
  <2>4. QED
    BY <2>2, <2>3
<1>6. QED
  BY <1>5

\* Induction, for what can be said with a set.
LEMMA InductionOnNat ==
  ASSUME NEW S, 0 \in S, \A n \in Nat : n \in S => n + 1 \in S
  PROVE  Nat \subseteq S
<1> SUFFICES ASSUME Nat \ S # {} PROVE FALSE
  OBVIOUS
<1>1. PICK m \in Nat \ S : \A k \in Nat \ S : m <= k
  BY LeastNatural
<1>2. m # 0 /\ m - 1 \in Nat /\ (m - 1) + 1 = m /\ ~(m <= m - 1)
  OBVIOUS
<1>3. m - 1 \in S
  BY <1>1, <1>2
<1>4. QED
  BY <1>2, <1>3

\* A recursion over the natural numbers that looks one step back has a solution.
\* (The theorems of NaturalsInduction say so for an operator; this is for a function.)
LEMMA Recursion ==
  ASSUME NEW a \in Nat, NEW step \in [Nat -> Nat]
  PROVE  \E f \in [Nat -> Nat] : f[0] = a /\ \A n \in Nat : f[n + 1] = step[f[n]]
<1> DEFINE G(n) == {g \in [0..n -> Nat] : g[0] = a /\ \A i \in 0..n : i # 0 => g[i] = step[g[i - 1]]}
           S == {n \in Nat : G(n) # {}}
           f == [n \in Nat |-> (CHOOSE g \in G(n) : TRUE)[n]]
<1>1. 0 \in S
  <2>1. [i \in 0..0 |-> a] \in G(0)
    OBVIOUS
  <2>2. QED
    BY <2>1
<1>2. ASSUME NEW n \in Nat, n \in S PROVE n + 1 \in S
  <2>1. PICK g \in G(n) : TRUE
    BY <1>2
  <2>2. /\ g \in [0..n -> Nat] /\ g[0] = a
        /\ \A i \in 0..n : i # 0 => g[i] = step[g[i - 1]]
    BY <2>1
  <2> DEFINE h == [i \in 0..(n + 1) |-> IF i <= n THEN g[i] ELSE step[g[n]]]
  <2>3. \A i \in 0..(n + 1) : h[i] = IF i <= n THEN g[i] ELSE step[g[n]]
    OBVIOUS
  <2>4. h \in [0..(n + 1) -> Nat]
    <3>1. ASSUME NEW i \in 0..(n + 1) PROVE (IF i <= n THEN g[i] ELSE step[g[n]]) \in Nat
      <4>1. n \in 0..n /\ (i <= n => i \in 0..n)
        OBVIOUS
      <4>2. QED
        BY <4>1, <2>2
    <3>2. QED
      BY <3>1
  <2> HIDE DEF h
  <2>5. h[0] = a
    BY <2>2, <2>3, SMTT(30)
  <2>6. ASSUME NEW i \in 0..(n + 1), i # 0 PROVE h[i] = step[h[i - 1]]
    <3>1. i - 1 \in 0..(n + 1) /\ i - 1 <= n
      BY <2>6
    <3>2. h[i - 1] = g[i - 1]
      BY <3>1, <2>3
    <3>3. CASE i <= n
      <4>1. i \in 0..n
        BY <3>3
      <4>2. g[i] = step[g[i - 1]]
        BY <4>1, <2>2, <2>6
      <4>3. QED
        BY <4>2, <3>2, <3>3, <2>3
    <3>4. CASE ~(i <= n)
      <4>1. i - 1 = n
        BY <3>4
      <4>2. QED
        BY <4>1, <3>2, <3>4, <2>3
    <3>5. QED
      BY <3>3, <3>4
  <2>7. h \in G(n + 1)
    BY <2>4, <2>5, <2>6
  <2>8. n + 1 \in Nat /\ G(n + 1) # {}
    <3> HIDE DEF G
    <3>1. QED
      BY <2>7
  <2>9. QED
    BY <2>8
<1>3. Nat \subseteq S
  <2> HIDE DEF S
  <2>1. QED
    BY <1>1, <1>2, InductionOnNat
<1>4. ASSUME NEW n \in Nat PROVE \E g \in G(n) : TRUE
  BY <1>3
<1>5. ASSUME NEW n \in Nat, NEW m \in Nat, n <= m, NEW g \in G(n), NEW h \in G(m)
      PROVE  g[n] = h[n]
  <2> DEFINE T == {i \in Nat : i <= n => g[i] = h[i]}
  <2>1. /\ g[0] = a /\ \A i \in 0..n : i # 0 => g[i] = step[g[i - 1]]
        /\ h[0] = a /\ \A i \in 0..m : i # 0 => h[i] = step[h[i - 1]]
    OBVIOUS
  <2>2. 0 \in T
    BY <2>1
  <2>3. ASSUME NEW i \in Nat, i \in T PROVE i + 1 \in T
    <3>1. SUFFICES ASSUME i + 1 <= n PROVE g[i + 1] = h[i + 1]
      OBVIOUS
    <3>2. i + 1 \in 0..n /\ i + 1 \in 0..m /\ i + 1 # 0 /\ (i + 1) - 1 = i /\ i <= n
      BY <3>1, <1>5
    <3>3. g[i + 1] = step[g[i]] /\ h[i + 1] = step[h[i]]
      BY <3>2, <2>1
    <3>4. g[i] = h[i]
      BY <3>2, <2>3
    <3>5. QED
      BY <3>3, <3>4
  <2>4. Nat \subseteq T
    <3> HIDE DEF T
    <3>1. QED
      BY <2>2, <2>3, InductionOnNat
  <2>5. n \in T /\ n <= n
    <3> HIDE DEF T
    <3>1. QED
      BY <2>4
  <2>6. QED
    BY <2>5
<1> DEFINE c(n) == CHOOSE g \in G(n) : TRUE
<1>6. \A n \in Nat : c(n) \in G(n)
  BY <1>4
<1>7. \A n \in Nat : f[n] = c(n)[n]
  OBVIOUS
<1>8. \A n \in Nat : c(n)[n] \in Nat
  <2>1. ASSUME NEW n \in Nat PROVE c(n)[n] \in Nat
    <3>1. c(n) \in G(n)
      BY <1>6
    <3>2. n \in 0..n
      OBVIOUS
    <3> HIDE DEF c
    <3>3. c(n) \in [0..n -> Nat]
      BY <3>1
    <3>4. QED
      BY <3>2, <3>3
  <2>2. QED
    BY <2>1
<1>9. f \in [Nat -> Nat]
  BY <1>8
<1>10. f[0] = a
  <2>1. c(0)[0] = a
    BY <1>6
  <2>2. QED
    BY <2>1, <1>7
<1>11. ASSUME NEW n \in Nat PROVE f[n + 1] = step[f[n]]
  <2>1. n + 1 \in Nat /\ n + 1 \in 0..(n + 1) /\ n + 1 # 0 /\ (n + 1) - 1 = n /\ n <= n + 1
    OBVIOUS
  <2>2. c(n + 1) \in G(n + 1) /\ c(n) \in G(n)
    BY <1>6, <2>1
  <2>3. c(n + 1)[n + 1] = step[c(n + 1)[n]]
    <3>1. \A i \in 0..(n + 1) : i # 0 => c(n + 1)[i] = step[c(n + 1)[i - 1]]
      BY <2>2
    <3> HIDE DEF c
    <3>2. QED
      BY <3>1, <2>1
  <2>4. c(n)[n] = c(n + 1)[n]
    <3> HIDE DEF c, G
    <3>1. QED
      BY <2>1, <2>2, <1>5
  <2>5. f[n + 1] = c(n + 1)[n + 1] /\ f[n] = c(n)[n]
    BY <1>7, <2>1
  <2> HIDE DEF f, c
  <2>6. QED
    BY <2>3, <2>4, <2>5
<1> HIDE DEF f
<1>12. QED
  BY <1>9, <1>10, <1>11

\* A sequence without the element at a place.
Cut(L, c) == SubSeq(L, 1, c - 1) \o SubSeq(L, c + 1, Len(L))

LEMMA CutOut ==
  ASSUME NEW E, NEW L \in Seq(E), NEW c \in 1..Len(L)
  PROVE  /\ Cut(L, c) \in Seq(E)
         /\ Len(Cut(L, c)) = Len(L) - 1
         /\ \A m \in 1..(Len(L) - 1) :
                Cut(L, c)[m] = IF m < c THEN L[m] ELSE L[m + 1]
<1> DEFINE A == SubSeq(L, 1, c - 1)
           B == SubSeq(L, c + 1, Len(L))
<1>1. Len(L) \in Nat /\ c \in Nat /\ 1 <= c /\ c <= Len(L)
  OBVIOUS
<1>2. /\ A \in Seq(E) /\ Len(A) = c - 1
      /\ \A m \in 1..(c - 1) : A[m] = L[m]
  <2>1. 1 \in 1..(Len(L) + 1) /\ c - 1 \in (1 - 1)..Len(L)
    BY ONLY <1>1
  <2>2. QED
    BY <2>1, <1>1, SubSeqProperties
<1>3. /\ B \in Seq(E) /\ Len(B) = Len(L) - c
      /\ \A m \in 1..(Len(L) - c) : B[m] = L[c + m]
  <2>1. c + 1 \in 1..(Len(L) + 1) /\ Len(L) \in ((c + 1) - 1)..Len(L)
    BY ONLY <1>1
  <2>2. /\ B \in Seq(E)
        /\ Len(B) = IF c + 1 <= Len(L) THEN Len(L) - (c + 1) + 1 ELSE 0
        /\ \A m \in 1..(Len(L) - (c + 1) + 1) : B[m] = L[(c + 1) + m - 1]
    BY <2>1, <1>1, SubSeqProperties
  <2>3. Len(L) - (c + 1) + 1 = Len(L) - c /\ (~(c + 1 <= Len(L)) => Len(L) - c = 0)
    <3>1. \A a, b \in Nat : a - (b + 1) + 1 = a - b /\ (b <= a /\ ~(b + 1 <= a) => a - b = 0)
      OBVIOUS
    <3>2. QED
      BY <3>1, <1>1
  <2>4. \A m \in 1..(Len(L) - c) : (c + 1) + m - 1 = c + m
    BY ONLY <1>1
  <2> HIDE DEF B
  <2>5. Len(B) = Len(L) - c
    BY ONLY <2>2, <2>3
  <2>6. ASSUME NEW m \in 1..(Len(L) - c) PROVE B[m] = L[c + m]
    <3>1. m \in 1..(Len(L) - (c + 1) + 1)
      BY <2>3
    <3>2. B[m] = L[(c + 1) + m - 1]
      BY ONLY <2>2, <3>1
    <3>3. QED
      BY <3>2, <2>4
  <2>7. QED
    BY <2>2, <2>5, <2>6
<1>4. Cut(L, c) = A \o B
  BY DEF Cut
<1> HIDE DEF A, B
<1>5. /\ A \o B \in Seq(E) /\ Len(A \o B) = Len(A) + Len(B)
      /\ \A m \in 1..(Len(A) + Len(B)) :
            (A \o B)[m] = IF m <= Len(A) THEN A[m] ELSE B[m - Len(A)]
  BY <1>2, <1>3, ConcatProperties
<1>6. Len(A) + Len(B) = Len(L) - 1
  BY <1>1, <1>2, <1>3
<1>7. ASSUME NEW m \in 1..(Len(L) - 1)
      PROVE  (A \o B)[m] = IF m < c THEN L[m] ELSE L[m + 1]
  <2>1. m \in Nat /\ m \in 1..(Len(A) + Len(B))
    BY <1>1, <1>6
  <2>2. CASE m < c
    <3>1. m <= Len(A) /\ m \in 1..(c - 1)
      BY <2>2, <1>1, <1>2
    <3>2. QED
      BY <3>1, <2>1, <2>2, <1>2, <1>5
  <2>3. CASE ~(m < c)
    <3>1. ~(m <= Len(A)) /\ m - Len(A) = m - c + 1
      BY <2>3, <2>1, <1>1, <1>2
    <3>2. m - c + 1 \in 1..(Len(L) - c) /\ c + (m - c + 1) = m + 1
      BY <2>3, <2>1, <1>1
    <3>3. B[m - c + 1] = L[m + 1]
      BY <3>2, <1>3
    <3>4. QED
      BY <3>1, <3>3, <2>1, <2>3, <1>5
  <2>4. QED
    BY <2>2, <2>3
<1>8. QED
  BY <1>4, <1>5, <1>6, <1>7

\* The ids up to a gap, in order, when one more id lets the gap move on: what the
\* proofs about a component that keeps an ordered buffer need to see a call of
\* Insert as an Offer of InOrderDelivery.
Upto(a) == [i \in 1..a-1 |-> i]
OwnPairs(a, D) == {<<k, k>> : k \in (1..a-1) \cup D}
MovesOn(a, D, b, E, id) ==
    /\ \A k \in Int : (k < b \/ k \in E) <=> (k < a \/ k \in D \/ k = id)
    /\ \A k \in E : k > b

LEMMA UptoIs ==
  ASSUME NEW N \in Nat, NEW a \in 1..N+1
  PROVE  /\ Upto(a) \in Seq(1..N) /\ Len(Upto(a)) = a - 1
         /\ \A i \in 1..a-1 : Upto(a)[i] = i
<1>1. a - 1 \in Nat /\ \A i \in 1..a-1 : i \in 1..N
  OBVIOUS
<1>2. Upto(a) \in [1..a-1 -> 1..N]
  BY <1>1 DEF Upto
<1>3. \A i \in 1..a-1 : Upto(a)[i] = i
  BY DEF Upto
<1> DEFINE r == Upto(a)
<1>4. r \in [1..a-1 -> 1..N]
  BY <1>2
<1> HIDE DEF r
<1>5. r \in Seq(1..N) /\ Len(r) = a - 1
  BY <1>1, <1>4
<1>6. QED
  BY <1>3, <1>5 DEF r

LEMMA UptoGrows ==
  ASSUME NEW N \in Nat, NEW a \in 1..N+1, NEW b \in a..N+1,
         NEW D \in SUBSET (1..N), NEW E \in SUBSET (1..N), NEW id \in 1..N,
         MovesOn(a, D, b, E, id)
  PROVE  /\ OwnPairs(b, E) = OwnPairs(a, D) \cup {<<id, id>>}
         /\ Upto(b) \in Seq(1..N)
         /\ Len(Upto(a)) <= Len(Upto(b))
         /\ \A n \in 1..Len(Upto(a)) : Upto(b)[n] = Upto(a)[n]
         /\ \A n \in 1..Len(Upto(b)) : <<1 + n - 1, Upto(b)[n]>> \in OwnPairs(b, E)
         /\ \A v \in 1..N : <<1 + Len(Upto(b)), v>> \notin OwnPairs(b, E)
<1>0. /\ \A k \in Int : (k < b \/ k \in E) <=> (k < a \/ k \in D \/ k = id)
      /\ \A k \in E : k > b
  BY DEF MovesOn
<1>1. a \in Int /\ b \in Int /\ 1 <= a /\ a <= b /\ b \in 1..N+1
  OBVIOUS
<1>2. /\ Upto(a) \in Seq(1..N) /\ Len(Upto(a)) = a - 1 /\ \A i \in 1..a-1 : Upto(a)[i] = i
      /\ Upto(b) \in Seq(1..N) /\ Len(Upto(b)) = b - 1 /\ \A i \in 1..b-1 : Upto(b)[i] = i
  BY <1>1, UptoIs
<1>3. \A k \in 1..N : (k \in 1..a-1 <=> k < a) /\ (k \in 1..b-1 <=> k < b)
  BY ONLY <1>1
<1>4. \A k \in (1..a-1) \cup (1..b-1) : k \in 1..N
  BY ONLY <1>1
<1>5. (1..b-1) \cup E = (1..a-1) \cup D \cup {id}
  <2>1. \A k \in 1..N : k \in Int
    OBVIOUS
  <2>2. \A k \in 1..N : k \in (1..b-1) \cup E <=> k \in (1..a-1) \cup D \cup {id}
    BY <1>0, <1>3, <2>1
  <2>3. QED
    BY <1>4, <2>2
<1>6. OwnPairs(b, E) = OwnPairs(a, D) \cup {<<id, id>>}
  BY <1>5 DEF OwnPairs
<1>7. Len(Upto(a)) <= Len(Upto(b)) /\ \A n \in 1..Len(Upto(a)) : Upto(b)[n] = Upto(a)[n]
  <2>1. \A n \in 1..a-1 : n \in 1..b-1
    BY ONLY <1>1
  <2>2. a - 1 <= b - 1
    BY ONLY <1>1
  <2>3. QED
    BY <1>2, <2>1, <2>2
<1>8. ASSUME NEW n \in 1..Len(Upto(b)) PROVE <<1 + n - 1, Upto(b)[n]>> \in OwnPairs(b, E)
  <2>1. n \in 1..b-1 /\ Upto(b)[n] = n
    BY <1>2
  <2>2. 1 + n - 1 = n
    BY <2>1, <1>1
  <2>3. QED
    BY <2>1, <2>2 DEF OwnPairs
<1>9. ASSUME NEW v \in 1..N, <<1 + Len(Upto(b)), v>> \in OwnPairs(b, E) PROVE FALSE
  <2>1. 1 + (b - 1) = b /\ b \notin 1..b-1
    BY ONLY <1>1
  <2>2. b \notin E
    <3>1. ~(b > b)
      BY <1>1
    <3>2. QED
      BY <1>0, <3>1
  <2>3. QED
    BY <1>2, <1>9, <2>1, <2>2 DEF OwnPairs
<1>10. QED
  BY <1>2, <1>6, <1>7, <1>8, <1>9
=============================================================================
