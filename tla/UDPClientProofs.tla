--------------------------- MODULE UDPClientProofs ---------------------------
(***************************************************************************)
(* Proofs about the LayerCache and the UDP client that runs over it, for   *)
(* every number of layers, generators, packets and ACKs and every backoff. *)
(*                                                                         *)
(* First the LayerCache alone: every layer is ordered by deadline, whoever *)
(* uses it, so that a look at the tails answers for the whole cache.       *)
(*                                                                         *)
(* Then the client.  Its invariant ClientInv looks at a layer as the set   *)
(* of its items, [layer, key, value].  The heart of it is that the layer   *)
(* of an item tells how often its packet was sent (ItemOK, and Resending   *)
(* for the moment between promotion and retransmission), that an id which  *)
(* a generator has yet to register is neither in the cache nor in the      *)
(* hands of the daemon (GenOK), and that a peek that no longer holds means *)
(* that an ACK for its key has been handled (PeekedOK, Gone).              *)
(*                                                                         *)
(* Last, the client uses its LayerCache as LayerCache's own specification  *)
(* allows (ClientUsesLayerCache), so that what holds of that one holds of  *)
(* the cache the client runs over (ClientTails).                           *)
(***************************************************************************)
EXTENDS UDPClient, CountingProofs, SequenceTheorems

\* Of two numbers the smaller.
LEMMA MinOfTwo ==
  ASSUME NEW x \in Int, NEW y \in Int
  PROVE  Min({x, y}) = IF x <= y THEN x ELSE y
BY DEF Min

\* The intervals of the backoff are natural numbers, and none is too long.
LEMMA Intervals ==
  /\ \A n \in Nat : BackoffNext[n] \in Nat
  /\ \A n \in Nat : BackoffNext[n] <= InitialInterval \/ BackoffNext[n] <= MaxInterval
<1>1. InitialInterval \in Nat /\ MaxInterval \in Nat /\ Multiplier \in Nat
  BY ParamAssumption
<1> DEFINE step == [x \in Nat |-> IF Multiplier * x <= MaxInterval THEN Multiplier * x ELSE MaxInterval]
<1>2. \A x \in Nat : Multiplier * x \in Nat
  BY <1>1
<1>3. step \in [Nat -> Nat] /\ \A x \in Nat : step[x] <= MaxInterval
  BY <1>1, <1>2
<1>4. \A x \in Nat : Min({Multiplier * x, MaxInterval}) = step[x]
  BY <1>1, <1>2, MinOfTwo
<1> HIDE DEF step
<1>5. PICK f \in [Nat -> Nat] : f[0] = InitialInterval /\ \A n \in Nat : f[n + 1] = step[f[n]]
  <2>1. InitialInterval \in Nat /\ step \in [Nat -> Nat]
    BY <1>1, <1>3
  <2>2. QED
    BY <2>1, Recursion, Zenon
<1>6. f = [n \in Nat |-> IF n = 0 THEN InitialInterval
                         ELSE Min({Multiplier * f[n - 1], MaxInterval})]
  <2>1. ASSUME NEW n \in Nat
        PROVE  f[n] = IF n = 0 THEN InitialInterval
                      ELSE Min({Multiplier * f[n - 1], MaxInterval})
    <3>1. CASE n = 0
      BY <3>1, <1>5
    <3>2. CASE n # 0
      <4>1. n - 1 \in Nat /\ (n - 1) + 1 = n
        BY <3>2
      <4>2. f[n] = step[f[n - 1]] /\ f[n - 1] \in Nat
        BY <4>1, <1>5
      <4>3. QED
        BY <3>2, <4>2, <1>4
    <3>3. QED
      BY <3>1, <3>2
  <2>2. QED
    BY <2>1
<1>7. BackoffNext = [n \in Nat |-> IF n = 0 THEN InitialInterval
                         ELSE Min({Multiplier * BackoffNext[n - 1], MaxInterval})]
  BY <1>6 DEF BackoffNext
<1> DEFINE S == {n \in Nat : BackoffNext[n] \in Nat}
<1>8. 0 \in S
  BY <1>1, <1>7
<1>9. \A n \in Nat : BackoffNext[n + 1] = Min({Multiplier * BackoffNext[n], MaxInterval})
  <2>1. ASSUME NEW n \in Nat
        PROVE BackoffNext[n + 1] = Min({Multiplier * BackoffNext[n], MaxInterval})
    <3>1. n + 1 \in Nat /\ n + 1 # 0 /\ (n + 1) - 1 = n
      OBVIOUS
    <3>2. QED
      BY <3>1, <1>7
  <2>2. QED
    BY <2>1
<1>10. ASSUME NEW n \in Nat, n \in S PROVE n + 1 \in S
  <2>1. BackoffNext[n] \in Nat /\ BackoffNext[n + 1] = step[BackoffNext[n]]
    BY <1>4, <1>9, <1>10
  <2>2. QED
    BY <2>1, <1>3
<1>11. Nat \subseteq S
  <2> HIDE DEF S
  <2>1. QED
    BY <1>8, <1>10, InductionOnNat
<1>12. ASSUME NEW n \in Nat
       PROVE BackoffNext[n] <= InitialInterval \/ BackoffNext[n] <= MaxInterval
  <2>1. CASE n = 0
    BY <2>1, <1>1, <1>7
  <2>2. CASE n # 0
    <3>1. n - 1 \in Nat /\ (n - 1) + 1 = n /\ BackoffNext[n - 1] \in Nat
      BY <2>2, <1>11
    <3>2. BackoffNext[n] = step[BackoffNext[n - 1]]
      BY <3>1, <1>4, <1>9
    <3>3. QED
      BY <3>1, <3>2, <1>3
  <2>3. QED
    BY <2>1, <2>2
<1>13. QED
  BY <1>11, <1>12

\* A set of numbers with an upper bound has a greatest element.
LEMMA MaxIs ==
  ASSUME NEW S, S \subseteq Nat, S # {}, NEW b \in Nat, \A x \in S : x <= b
  PROVE  Max(S) \in S /\ \A x \in S : x <= Max(S)
<1> DEFINE T == {u \in Nat : \A x \in S : x <= u}
<1>1. T # {} /\ T \subseteq Nat
  OBVIOUS
<1>2. PICK m \in T : \A u \in T : m <= u
  <2> HIDE DEF T
  <2>1. QED
    BY <1>1, LeastNatural
<1>3. m \in S
  <2>1. SUFFICES ASSUME m \notin S PROVE FALSE
    OBVIOUS
  <2>2. \A x \in S : x \in Nat /\ x <= m /\ x # m
    BY <2>1
  <2>3. m # 0
    <3>1. PICK x \in S : TRUE
      OBVIOUS
    <3>2. x \in Nat /\ x <= m /\ x # m /\ m \in Nat
      BY <2>2
    <3>3. QED
      BY <3>2
  <2>4. m - 1 \in Nat /\ \A x \in S : x <= m - 1
    BY <2>2, <2>3
  <2>5. m <= m - 1
    BY <2>4, <1>2
  <2>6. QED
    BY <2>5
<1>4. \E x \in S : \A y \in S : x >= y
  <2>1. \A y \in S : m >= y
    OBVIOUS
  <2>2. QED
    BY <1>3, <2>1
<1>5. Max(S) \in S /\ \A y \in S : Max(S) >= y
  BY <1>4 DEF Max
<1>6. QED
  BY <1>5

\* No entry is ever given more time than LongestTTL.
LEMMA Longest ==
  /\ LongestTTL \in Nat
  /\ RetryTTL <= LongestTTL
  /\ \A i \in Layer : BackoffNext[i] <= LongestTTL
<1> DEFINE S == {RetryTTL} \cup {BackoffNext[i] : i \in Layer}
           b == RetryTTL + InitialInterval + MaxInterval
<1>1. RetryTTL \in Nat /\ InitialInterval \in Nat /\ MaxInterval \in Nat /\ b \in Nat
  BY ParamAssumption
<1>2. Layer \subseteq Nat
  BY ParamAssumption DEF Layer
<1>3. \A i \in Layer : BackoffNext[i] \in Nat /\ BackoffNext[i] <= b
  BY <1>1, <1>2, Intervals
<1>4. S \subseteq Nat /\ S # {} /\ \A x \in S : x <= b
  BY <1>1, <1>3
<1> HIDE DEF b
<1>5. Max(S) \in S /\ \A x \in S : x <= Max(S)
  <2> HIDE DEF S
  <2>1. QED
    BY <1>1, <1>4, MaxIs
<1>6. LongestTTL = Max(S)
  BY DEF LongestTTL
<1>7. QED
  BY <1>4, <1>5, <1>6

-----------------------------------------------------------------------------
(* What becomes of one layer *)

\* The entries of W are entries of L, in the same order.
Under(W, L) ==
    /\ \A m \in 1..Len(W) : \E a \in 1..Len(L) : W[m] = L[a]
    /\ \A m, n \in 1..Len(W) : m < n =>
          \E a, b \in 1..Len(L) : a < b /\ W[m] = L[a] /\ W[n] = L[b]

\* No two entries of L have the same key.
KeysDiffer(L) == \A m, n \in 1..Len(L) : L[m].key = L[n].key => m = n

\* Taking out the entry at a place.
LEMMA RemoveAtIs ==
  ASSUME NEW E, NEW L \in Seq(E), NEW c \in 1..Len(L)
  PROVE  /\ RemoveAt(L, c) \in Seq(E)
         /\ Len(RemoveAt(L, c)) = Len(L) - 1
         /\ \A m \in 1..(Len(L) - 1) :
                RemoveAt(L, c)[m] = IF m < c THEN L[m] ELSE L[m + 1]
<1>1. RemoveAt(L, c) = Cut(L, c)
  BY DEF RemoveAt, Cut
<1>2. QED
  BY <1>1, CutOut

\* Taking out a key.
LEMMA WithoutIs ==
  ASSUME NEW E, NEW L \in Seq(E), NEW k
  PROVE  /\ Without(L, k) \in Seq(E)
         /\ Len(Without(L, k)) <= Len(L)
         /\ Under(Without(L, k), L)
         /\ KeysDiffer(L) => \A m \in 1..Len(Without(L, k)) : Without(L, k)[m].key # k
         /\ (\A n \in 1..Len(L) : L[n].key # k) => Without(L, k) = L
         /\ \A n \in 1..Len(L) : L[n].key # k =>
               \E m \in 1..Len(Without(L, k)) : Without(L, k)[m] = L[n]
<1> DEFINE W == Without(L, k)
<1>0. Len(L) \in Nat
  OBVIOUS
<1>1. CASE \A n \in 1..Len(L) : L[n].key # k
  <2>1. W = L
    BY <1>1 DEF Without
  <2> HIDE DEF W
  <2>2. Under(L, L)
    BY <1>0 DEF Under
  <2>3. QED
    BY <1>0, <1>1, <2>1, <2>2 DEF W
<1>2. CASE ~(\A n \in 1..Len(L) : L[n].key # k)
  <2> DEFINE c == CHOOSE n \in 1..Len(L) : L[n].key = k
  <2>1. c \in 1..Len(L) /\ L[c].key = k /\ W = RemoveAt(L, c)
    BY <1>2 DEF Without
  <2> HIDE DEF W, c
  <2>2. /\ W \in Seq(E) /\ Len(W) = Len(L) - 1 /\ c \in Nat /\ 1 <= c /\ c <= Len(L)
        /\ \A m \in 1..(Len(L) - 1) : W[m] = IF m < c THEN L[m] ELSE L[m + 1]
    <3>1. c \in Nat /\ 1 <= c /\ c <= Len(L)
      BY <1>0, <2>1
    <3> DEFINE R == RemoveAt(L, c)
    <3>2. /\ R \in Seq(E) /\ Len(R) = Len(L) - 1
          /\ \A m \in 1..(Len(L) - 1) : R[m] = IF m < c THEN L[m] ELSE L[m + 1]
      BY <2>1, RemoveAtIs
    <3> HIDE DEF R
    <3>3. W = R
      BY <2>1 DEF R
    <3>4. QED
      BY <3>1, <3>2, <3>3
  <2>3. \A m \in 1..Len(W) : \E a \in 1..Len(L) : W[m] = L[a] /\ a # c
    <3>1. ASSUME NEW m \in 1..Len(W) PROVE \E a \in 1..Len(L) : W[m] = L[a] /\ a # c
      <4>1. m \in 1..Len(L) /\ m + 1 \in 1..Len(L) /\ m \in 1..(Len(L) - 1)
        BY <1>0, <2>2
      <4>2. CASE m < c
        BY <4>1, <4>2, <2>2
      <4>3. CASE ~(m < c)
        <5>1. m + 1 # c /\ W[m] = L[m + 1]
          BY <4>1, <4>3, <2>2
        <5>2. QED
          BY <5>1, <4>1
      <4>4. QED
        BY <4>2, <4>3
    <3>2. QED
      BY <3>1
  <2>4. ASSUME NEW m \in 1..Len(W), NEW n \in 1..Len(W), m < n
        PROVE  \E a, b \in 1..Len(L) : a < b /\ W[m] = L[a] /\ W[n] = L[b]
    <3> DEFINE a == IF m < c THEN m ELSE m + 1
               b == IF n < c THEN n ELSE n + 1
    <3>1. a \in 1..Len(L) /\ b \in 1..Len(L) /\ a < b
      BY <1>0, <2>2, <2>4
    <3>2. m \in 1..(Len(L) - 1) /\ n \in 1..(Len(L) - 1)
      BY <2>2
    <3>3. W[m] = L[a] /\ W[n] = L[b]
      BY <3>2, <2>2
    <3> HIDE DEF a, b
    <3>4. QED
      BY <3>1, <3>3
  <2>5. Under(W, L)
    BY <2>3, <2>4 DEF Under
  <2>6. KeysDiffer(L) => \A m \in 1..Len(W) : W[m].key # k
    BY <2>1, <2>3 DEF KeysDiffer
  <2>7. ASSUME NEW n \in 1..Len(L), L[n].key # k
        PROVE  \E m \in 1..Len(W) : W[m] = L[n]
    <3>1. n # c /\ n \in Nat /\ 1 <= n /\ n <= Len(L)
      BY <2>1, <2>7, <1>0
    <3>2. CASE n < c
      <4>1. n \in 1..(Len(L) - 1)
        BY <3>1, <3>2, <2>2, <1>0
      <4>2. QED
        BY <4>1, <3>2, <2>2
    <3>3. CASE ~(n < c)
      <4>1. n - 1 \in 1..(Len(L) - 1) /\ ~(n - 1 < c) /\ (n - 1) + 1 = n
        BY <3>1, <3>3, <2>2, <1>0
      <4>2. W[n - 1] = L[n]
        BY <4>1, <2>2
      <4>3. QED
        BY <4>1, <4>2, <2>2
    <3>4. QED
      BY <3>2, <3>3
  <2>8. Len(W) <= Len(L)
    BY <1>0, <2>2
  <2>9. QED
    BY <1>2, <2>2, <2>5, <2>6, <2>7, <2>8 DEF W
<1>3. QED
  BY <1>1, <1>2

\* Taking off the first entry.
LEMMA TailIs ==
  ASSUME NEW E, NEW L \in Seq(E), L # <<>>
  PROVE  /\ Tail(L) \in Seq(E) /\ Len(Tail(L)) = Len(L) - 1
         /\ Head(L) \in E /\ Head(L) = L[1] /\ 1 \in 1..Len(L)
         /\ Under(Tail(L), L)
         /\ \A m \in 1..Len(Tail(L)) : m + 1 \in 1..Len(L) /\ Tail(L)[m] = L[m + 1]
         /\ \A n \in 1..Len(L) : n = 1 \/ \E m \in 1..Len(Tail(L)) : Tail(L)[m] = L[n]
<1>1. /\ Tail(L) \in Seq(E) /\ Len(Tail(L)) = Len(L) - 1
      /\ Head(L) \in E
      /\ \A m \in 1..Len(Tail(L)) : Tail(L)[m] = L[m + 1]
  BY HeadTailProperties
<1>2. Head(L) = L[1] /\ Len(L) \in Nat /\ Len(L) # 0
  OBVIOUS
<1>3. \A m \in 1..Len(Tail(L)) : m + 1 \in 1..Len(L)
  BY <1>1, <1>2
<1>4. Under(Tail(L), L)
  <2>1. ASSUME NEW m \in 1..Len(Tail(L)), NEW n \in 1..Len(Tail(L)), m < n
        PROVE  m + 1 < n + 1
    BY <2>1, <1>1, <1>2
  <2> DEFINE T == Tail(L)
  <2>2. \A m \in 1..Len(T) : T[m] = L[m + 1] /\ m + 1 \in 1..Len(L)
    BY <1>1, <1>3
  <2> HIDE DEF T
  <2>3. Under(T, L)
    BY <2>1, <2>2 DEF Under, T
  <2>4. QED
    BY <2>3 DEF T
<1>5. ASSUME NEW n \in 1..Len(L), n # 1
      PROVE  \E m \in 1..Len(Tail(L)) : Tail(L)[m] = L[n]
  <2>1. n - 1 \in 1..Len(Tail(L)) /\ (n - 1) + 1 = n
    BY <1>1, <1>2, <1>5
  <2>2. Tail(L)[n - 1] = L[n]
    BY <2>1, <1>1
  <2>3. QED
    BY <2>1, <2>2
<1>6. QED
  BY <1>1, <1>2, <1>3, <1>4, <1>5


-----------------------------------------------------------------------------
(* A LayerCache of any keys and values, used in any order *)

\* The time that layer i gives to what it is given.
TTLOf(i) == IF i = 0 THEN RetryTTL ELSE BackoffNext[i]

\* A layer holds entries in the order of their deadlines, none later than t from now.
Sorted(L, t) ==
    /\ L \in Seq(Entry)
    /\ \A m, n \in 1..Len(L) : m < n => L[m].left <= L[n].left
    /\ \A n \in 1..Len(L) : L[n].left <= t

\* The inductive invariant.
AllSorted == DOMAIN layers = Layer /\ \A i \in Layer : Sorted(layers[i], TTLOf(i))
LayersSorted == AllSorted /\ peeked \subseteq Peek

\* The TTLs of the layers are natural numbers.
LEMMA TTLs ==
  /\ LongestTTL \in Nat
  /\ \A i \in Layer : TTLOf(i) \in 0..LongestTTL
  /\ 0 \in Layer
<1>1. 0 \in Layer /\ Layer \subseteq Nat
  BY ParamAssumption DEF Layer
<1>2. QED
  BY <1>1, Longest, Intervals, ParamAssumption DEF TTLOf

\* What is under a sorted layer is sorted.
LEMMA SortedUnder ==
  ASSUME NEW L, NEW t, Sorted(L, t), NEW W \in Seq(Entry), Under(W, L)
  PROVE  Sorted(W, t)
<1>1. /\ \A m, n \in 1..Len(L) : m < n => L[m].left <= L[n].left
      /\ \A n \in 1..Len(L) : L[n].left <= t
  BY DEF Sorted
<1>2. ASSUME NEW m \in 1..Len(W), NEW n \in 1..Len(W), m < n PROVE W[m].left <= W[n].left
  <2>1. PICK a, b \in 1..Len(L) : a < b /\ W[m] = L[a] /\ W[n] = L[b]
    BY <1>2 DEF Under
  <2>2. QED
    BY <2>1, <1>1
<1>3. ASSUME NEW n \in 1..Len(W) PROVE W[n].left <= t
  <2>1. PICK a \in 1..Len(L) : W[n] = L[a]
    BY DEF Under
  <2>2. QED
    BY <2>1, <1>1
<1>4. QED
  BY <1>2, <1>3 DEF Sorted

\* Taking out a key leaves a sorted list.
LEMMA SortedWithout ==
  ASSUME NEW L, NEW t, Sorted(L, t), NEW k
  PROVE  Sorted(Without(L, k), t)
<1>1. L \in Seq(Entry)
  BY DEF Sorted
<1>2. Without(L, k) \in Seq(Entry) /\ Under(Without(L, k), L)
  BY <1>1, WithoutIs
<1>3. QED
  BY <1>2, SortedUnder

\* A new entry has the latest deadline of its layer.
LEMMA SortedPut ==
  ASSUME NEW L, NEW i \in Layer, Sorted(L, TTLOf(i)), NEW k \in Keys, NEW v \in Values
  PROVE  Sorted(Put(L, k, v, TTLOf(i)), TTLOf(i))
<1> DEFINE t == TTLOf(i)
           W == Without(L, k)
           e == [key |-> k, value |-> v, left |-> t]
           A == Append(W, e)
<1>1. Sorted(W, t)
  BY SortedWithout
<1>2. t \in 0..LongestTTL /\ LongestTTL \in Nat
  BY TTLs
<1>3. e \in Entry /\ e.left = t /\ t \in Int
  BY <1>2 DEF Entry
<1>4. Put(L, k, v, TTLOf(i)) = A
  BY DEF Put
<1> HIDE DEF W, e, t
<1>5. /\ W \in Seq(Entry) /\ Len(W) \in Nat
      /\ \A m, n \in 1..Len(W) : m < n => W[m].left <= W[n].left
      /\ \A n \in 1..Len(W) : W[n].left <= t
  BY <1>1 DEF Sorted
<1>6. /\ A \in Seq(Entry) /\ Len(A) = Len(W) + 1
      /\ A[Len(W) + 1] = e /\ \A n \in 1..Len(W) : A[n] = W[n]
  BY <1>3, <1>5, AppendProperties
<1> HIDE DEF A
<1>7. ASSUME NEW n \in 1..Len(A) PROVE A[n].left <= t
  BY <1>3, <1>5, <1>6
<1>8. ASSUME NEW m \in 1..Len(A), NEW n \in 1..Len(A), m < n PROVE A[m].left <= A[n].left
  <2>1. m \in 1..Len(W)
    BY <1>5, <1>6, <1>8
  <2>2. CASE n \in 1..Len(W)
    BY <2>1, <2>2, <1>5, <1>6, <1>8
  <2>3. CASE n = Len(W) + 1
    BY <2>1, <2>3, <1>3, <1>5, <1>6
  <2>4. QED
    BY <2>2, <2>3, <1>5, <1>6
<1>9. Sorted(A, t)
  BY <1>6, <1>7, <1>8 DEF Sorted
<1>10. QED
  BY <1>4, <1>9 DEF t

\* Time passes for all entries alike.
LEMMA SortedLater ==
  ASSUME NEW L, NEW t \in Nat, Sorted(L, t)
  PROVE  Sorted([n \in 1..Len(L) |-> [L[n] EXCEPT !.left = Max({@ - 1, -1})]], t)
<1> DEFINE W == [n \in 1..Len(L) |-> [L[n] EXCEPT !.left = Max({@ - 1, -1})]]
<1>1. /\ L \in Seq(Entry) /\ Len(L) \in Nat
      /\ \A m, n \in 1..Len(L) : m < n => L[m].left <= L[n].left
      /\ \A n \in 1..Len(L) : L[n].left <= t
  BY DEF Sorted
<1>2. \A x \in Int : Max({x - 1, -1}) = IF x - 1 >= -1 THEN x - 1 ELSE -1
  BY DEF Max
<1>3. LongestTTL \in Nat
  BY TTLs
<1>4. \A n \in 1..Len(L) : /\ L[n] \in Entry /\ L[n].left \in -1..LongestTTL
                           /\ L[n].left \in Int
  <2>1. ASSUME NEW e \in Entry PROVE e.left \in -1..LongestTTL
    BY DEF Entry
  <2>2. \A x \in -1..LongestTTL : x \in Int
    BY <1>3
  <2>3. \A n \in 1..Len(L) : L[n] \in Entry
    BY <1>1
  <2>4. QED
    BY <2>1, <2>2, <2>3
<1>5. ASSUME NEW n \in 1..Len(L)
      PROVE  /\ W[n] \in Entry
             /\ W[n].left = IF L[n].left - 1 >= -1 THEN L[n].left - 1 ELSE -1
  <2>1. W[n] = [L[n] EXCEPT !.left = Max({L[n].left - 1, -1})]
    OBVIOUS
  <2>2. Max({L[n].left - 1, -1}) = IF L[n].left - 1 >= -1 THEN L[n].left - 1 ELSE -1
    BY <1>2, <1>4
  <2>3. Max({L[n].left - 1, -1}) \in -1..LongestTTL
    BY <2>2, <1>3, <1>4
  <2> HIDE DEF W
  <2>4. QED
    BY <2>1, <2>2, <2>3, <1>4 DEF Entry
<1>6. W \in Seq(Entry) /\ Len(W) = Len(L)
  <2>1. W \in [1..Len(L) -> Entry]
    BY <1>5
  <2> HIDE DEF W
  <2>2. QED
    BY <2>1, <1>1
<1> HIDE DEF W
<1>7. Sorted(W, t)
  <2>1. ASSUME NEW m \in 1..Len(L), NEW n \in 1..Len(L), m < n PROVE W[m].left <= W[n].left
    <3>1. L[m].left <= L[n].left /\ L[m].left \in Int /\ L[n].left \in Int
      BY <2>1, <1>1, <1>4
    <3>2. QED
      BY <3>1, <1>5, SMTT(30)
  <2>2. ASSUME NEW n \in 1..Len(L) PROVE W[n].left <= t
    <3>1. L[n].left <= t /\ L[n].left \in Int /\ t \in Nat
      BY <1>1, <1>4
    <3>2. QED
      BY <3>1, <1>5
  <2>3. QED
    BY <2>1, <2>2, <1>6 DEF Sorted
<1>8. QED
  BY <1>7 DEF W

\* A new LayerCache is sorted.
LEMMA InitSorted == Init => LayersSorted
<1> SUFFICES ASSUME Init PROVE LayersSorted
  OBVIOUS
<1>1. layers = [i \in Layer |-> <<>>] /\ peeked = {}
  BY DEF Init
<1>2. \A i \in Layer : Sorted(layers[i], TTLOf(i))
  BY <1>1 DEF Sorted
<1>3. QED
  BY <1>1, <1>2 DEF LayersSorted, AllSorted

\* What a call of the LayerCache, or the passing of time, does to the layers.
CacheMoves ==
    \/ \E k \in Keys : (\E v \in Values : Set(k, v)) \/ Get(k) \/ Delete(k)
    \/ \E p \in Peek : PromoteLayer(p.key, p.layer)
    \/ Tick
    \/ layers' = layers

\* The layers stay sorted.
LEMMA CacheSorted == AllSorted /\ CacheMoves => AllSorted'
<1> SUFFICES ASSUME AllSorted, CacheMoves PROVE AllSorted'
  OBVIOUS
<1>1. DOMAIN layers = Layer /\ \A i \in Layer : Sorted(layers[i], TTLOf(i))
  BY DEF AllSorted
<1>2. 0 \in Layer /\ Layer \subseteq Nat /\ NumLayers \in Nat
  BY ParamAssumption, TTLs DEF Layer
<1>3. ASSUME DOMAIN layers' = Layer, \A i \in Layer : Sorted(layers'[i], TTLOf(i))
      PROVE  AllSorted'
  BY <1>3 DEF AllSorted
<1>4. CASE \E p \in Peek : PromoteLayer(p.key, p.layer)
  <2>1. PICK p \in Peek : PromoteLayer(p.key, p.layer)
    BY <1>4
  <2> DEFINE i == p.layer
             k == p.key
  <2>2. i \in Layer /\ k \in Keys
    BY DEF Peek
  <2> HIDE DEF i, k
  <2>3. PromoteLayer(k, i)
    BY <2>1 DEF i, k
  <2>4. CASE layers[i] = <<>>
    <3>1. layers' = layers
      BY <2>3, <2>4 DEF PromoteLayer
    <3>2. QED
      BY <3>1, <1>1, <1>3
  <2>5. CASE layers[i] # <<>>
    <3>1. /\ Sorted(Tail(layers[i]), TTLOf(i))
          /\ Head(layers[i]).value \in Values
      <4>1. layers[i] \in Seq(Entry) /\ Sorted(layers[i], TTLOf(i))
        BY <2>2, <1>1 DEF Sorted
      <4>2. /\ Tail(layers[i]) \in Seq(Entry) /\ Head(layers[i]) \in Entry
            /\ Under(Tail(layers[i]), layers[i])
        BY <4>1, <2>5, TailIs
      <4>3. Sorted(Tail(layers[i]), TTLOf(i))
        BY <4>1, <4>2, SortedUnder
      <4>4. QED
        BY <4>2, <4>3 DEF Entry
    <3>2. CASE i + 1 < NumLayers
      <4> DEFINE L == Put(layers[i + 1], k, PromotedValue(i), BackoffNext[i + 1])
      <4>1. i + 1 \in Layer /\ i + 1 # i /\ i + 1 # 0
        BY <3>2, <2>2, <1>2 DEF Layer
      <4>2. layers' = [layers EXCEPT ![i] = Tail(@), ![i + 1] = L]
        BY <2>3, <2>5, <3>2, <4>1 DEF PromoteLayer
      <4>3. Sorted(L, TTLOf(i + 1))
        <5>1. TTLOf(i + 1) = BackoffNext[i + 1] /\ PromotedValue(i) \in Values
          BY <4>1, <3>1 DEF TTLOf, PromotedValue
        <5>2. Sorted(layers[i + 1], TTLOf(i + 1))
          BY <4>1, <1>1
        <5>3. Sorted(Put(layers[i + 1], k, PromotedValue(i), TTLOf(i + 1)), TTLOf(i + 1))
          BY <5>1, <5>2, <4>1, <2>2, SortedPut
        <5>4. QED
          BY <5>1, <5>3
      <4> HIDE DEF L
      <4>4. /\ DOMAIN layers' = Layer
            /\ layers'[i] = Tail(layers[i]) /\ layers'[i + 1] = L
            /\ \A j \in Layer : j # i /\ j # i + 1 => layers'[j] = layers[j]
        BY <4>1, <4>2, <2>2, <1>1
      <4>5. \A j \in Layer : Sorted(layers'[j], TTLOf(j))
        BY <4>3, <4>4, <3>1, <1>1
      <4>6. QED
        BY <4>4, <4>5, <1>3
    <3>3. CASE ~(i + 1 < NumLayers)
      <4>1. layers' = [layers EXCEPT ![i] = Tail(@)]
        BY <2>3, <2>5, <3>3 DEF PromoteLayer
      <4>2. /\ DOMAIN layers' = Layer /\ layers'[i] = Tail(layers[i])
            /\ \A j \in Layer : j # i => layers'[j] = layers[j]
        BY <4>1, <2>2, <1>1
      <4>3. \A j \in Layer : Sorted(layers'[j], TTLOf(j))
        BY <4>2, <3>1, <1>1
      <4>4. QED
        BY <4>2, <4>3, <1>3
    <3>4. QED
      BY <3>2, <3>3
  <2>6. QED
    BY <2>4, <2>5
<1>5. CASE \E k \in Keys : (\E v \in Values : Set(k, v)) \/ Get(k) \/ Delete(k)
  <2>1. PICK k \in Keys : (\E v \in Values : Set(k, v)) \/ Get(k) \/ Delete(k)
    BY <1>5
  <2>2. CASE \E v \in Values : Set(k, v)
    <3>1. PICK v \in Values : layers' = [layers EXCEPT ![0] = Put(@, k, v, RetryTTL)]
      BY <2>2 DEF Set
    <3>2. Sorted(Put(layers[0], k, v, TTLOf(0)), TTLOf(0)) /\ TTLOf(0) = RetryTTL
      BY <1>1, <1>2, SortedPut DEF TTLOf
    <3>3. /\ DOMAIN layers' = Layer /\ layers'[0] = Put(layers[0], k, v, RetryTTL)
          /\ \A j \in Layer : j # 0 => layers'[j] = layers[j]
      BY <3>1, <1>1, <1>2
    <3>4. \A j \in Layer : Sorted(layers'[j], TTLOf(j))
      BY <3>2, <3>3, <1>1
    <3>5. QED
      BY <3>3, <3>4, <1>1, <1>3
  <2>3. CASE Get(k) \/ Delete(k)
    <3>1. /\ DOMAIN layers' = Layer
          /\ \A i \in Layer : layers'[i] = layers[i] \/ layers'[i] = Without(layers[i], k)
      BY <2>3 DEF Get, Delete
    <3>2. \A i \in Layer : Sorted(Without(layers[i], k), TTLOf(i))
      BY <1>1, SortedWithout
    <3>3. QED
      BY <3>1, <3>2, <1>1, <1>3
  <2>4. QED
    BY <2>1, <2>2, <2>3
<1>6. CASE Tick
  <2>1. /\ DOMAIN layers' = Layer
        /\ \A i \in Layer : layers'[i] = [n \in 1..Len(layers[i]) |->
                                 [layers[i][n] EXCEPT !.left = Max({@ - 1, -1})]]
    BY <1>6 DEF Tick
  <2>2. ASSUME NEW i \in Layer PROVE Sorted(layers'[i], TTLOf(i))
    <3>1. TTLOf(i) \in Nat
      BY TTLs
    <3> DEFINE W == [n \in 1..Len(layers[i]) |-> [layers[i][n] EXCEPT !.left = Max({@ - 1, -1})]]
    <3>2. Sorted(W, TTLOf(i))
      BY <3>1, <1>1, SortedLater
    <3>3. layers'[i] = W
      BY <2>1
    <3> HIDE DEF W
    <3>4. QED
      BY <3>2, <3>3
  <2>3. QED
    BY <2>1, <2>2, <1>3
<1>7. CASE layers' = layers
  BY <1>7, <1>1, <1>3
<1>8. QED
  BY <1>4, <1>5, <1>6, <1>7 DEF CacheMoves

\* A peek names a layer and a key that is there.
LEMMA PeekedIs ==
  ASSUME AllSorted, FoundExpired
  PROVE  PeekExpiredScan \in Peek
<1> DEFINE i == Min(ExpiredTails)
<1>1. ExpiredTails # {} /\ ExpiredTails \subseteq Nat
  BY ParamAssumption DEF FoundExpired, ExpiredTails, Layer
<1>2. \E m \in ExpiredTails : \A k \in ExpiredTails : m <= k
  BY <1>1, LeastNatural
<1>3. i \in ExpiredTails
  BY <1>2 DEF Min
<1> HIDE DEF i
<1>4. i \in Layer /\ layers[i] # <<>>
  BY <1>3 DEF ExpiredTails
<1>5. Head(layers[i]) \in Entry
  BY <1>4, TailIs DEF AllSorted, Sorted
<1>6. QED
  BY <1>4, <1>5 DEF PeekExpiredScan, Peek, Entry, i

\* So do the steps of the LayerCache's users and of its daemon.
LEMMA SortedStep == LayersSorted /\ [Next]_(vars) => LayersSorted'
<1> SUFFICES ASSUME LayersSorted, [Next]_(vars) PROVE LayersSorted'
  OBVIOUS
<1>1. AllSorted /\ peeked \subseteq Peek
  BY DEF LayersSorted
<1>2. CASE DaemonPeek
  <2>1. layers' = layers /\ peeked' = {PeekExpiredScan} /\ FoundExpired
    BY <1>2 DEF DaemonPeek
  <2>2. peeked' \subseteq Peek
    BY <1>1, <2>1, PeekedIs
  <2>3. AllSorted'
    BY <1>1, <2>1, CacheSorted DEF CacheMoves
  <2>4. QED
    BY <2>2, <2>3 DEF LayersSorted
<1>3. CASE DaemonPromote \/ Callers \/ Passing \/ UNCHANGED vars
  <2>1. CacheMoves /\ peeked' \subseteq peeked
    BY <1>1, <1>3 DEF CacheMoves, DaemonPromote, Callers, Passing, vars
  <2>2. AllSorted'
    BY <1>1, <2>1, CacheSorted
  <2>3. QED
    BY <1>1, <2>1, <2>2 DEF LayersSorted
<1>4. QED
  BY <1>2, <1>3 DEF Next

\* The least of a set of times left.
LEMMA MinIs ==
  ASSUME NEW S, S # {}, \A x \in S : x \in Int /\ x >= -1
  PROVE  Min(S) \in S /\ \A y \in S : Min(S) <= y
<1> DEFINE T == {x + 1 : x \in S}
<1>1. T \subseteq Nat /\ T # {}
  OBVIOUS
<1>2. PICK m \in T : \A k \in T : m <= k
  <2> HIDE DEF T
  <2>1. QED
    BY <1>1, LeastNatural
<1>3. PICK x \in S : m = x + 1
  OBVIOUS
<1>4. ASSUME NEW y \in S PROVE x <= y
  <2>1. y + 1 \in T /\ x \in Int /\ y \in Int
    OBVIOUS
  <2>2. m <= y + 1
    BY <2>1, <1>2
  <2>3. QED
    BY <2>1, <2>2, <1>3
<1>5. QED
  BY <1>3, <1>4 DEF Min

\* A sorted layer shows at its tail what the rest of it is.
LEMMA SortedDecides == AllSorted => DeadlineOrder /\ TailsDecide
<1> SUFFICES ASSUME AllSorted PROVE DeadlineOrder /\ TailsDecide
  OBVIOUS
<1>1. \A i \in Layer : Sorted(layers[i], TTLOf(i))
  BY DEF AllSorted
<1>2. DeadlineOrder
  BY <1>1 DEF DeadlineOrder, Sorted
<1>3. LongestTTL \in Nat
  BY TTLs
<1>4. ASSUME NEW i \in Layer, NEW n \in 1..Len(layers[i])
      PROVE  /\ layers[i] # <<>> /\ Head(layers[i]) = layers[i][1]
             /\ layers[i][1].left \in -1..LongestTTL
             /\ layers[i][n].left \in -1..LongestTTL
             /\ layers[i][1].left <= layers[i][n].left
  <2>1. layers[i] \in Seq(Entry)
    BY <1>1 DEF Sorted
  <2>2. layers[i] # <<>> /\ 1 \in 1..Len(layers[i]) /\ (n = 1 \/ 1 < n)
    BY <2>1
  <2>3. layers[i][1] \in Entry /\ layers[i][n] \in Entry
    BY <2>1, <2>2
  <2>4. /\ layers[i][1].left \in -1..LongestTTL
        /\ layers[i][n].left \in -1..LongestTTL
    BY <2>3 DEF Entry
  <2>5. layers[i][1].left <= layers[i][n].left
    BY <2>2, <2>4, <1>1, <1>3 DEF Sorted
  <2>6. QED
    BY <2>1, <2>2, <2>4, <2>5
<1>5. ASSUME NEW i \in Layer, NEW n \in 1..Len(layers[i]), Expired(layers[i][n])
      PROVE  FoundExpired
  <2>1. layers[i][1].left < 0
    BY <1>3, <1>4, <1>5 DEF Expired
  <2>2. i \in ExpiredTails
    BY <2>1, <1>4 DEF ExpiredTails, Expired
  <2>3. QED
    BY <2>2 DEF FoundExpired
<1>6. ASSUME NEW i \in Layer, NEW n \in 1..Len(layers[i])
      PROVE  EarliestDeadline <= layers[i][n].left
  <2> DEFINE S == {Head(layers[j]).left : j \in {h \in Layer : layers[h] # <<>>}}
  <2>1. \A x \in S : x \in Int /\ x >= -1
    <3>1. ASSUME NEW j \in Layer, layers[j] # <<>>
          PROVE  Head(layers[j]).left \in Int /\ Head(layers[j]).left >= -1
      <4>1. 1 \in 1..Len(layers[j])
        BY <3>1, <1>1, TailIs DEF Sorted
      <4>2. QED
        BY <4>1, <1>3, <1>4
    <3>2. QED
      BY <3>1
  <2>2. Head(layers[i]).left \in S
    BY <1>4
  <2> HIDE DEF S
  <2>3. Min(S) \in S /\ \A y \in S : Min(S) <= y
    BY <2>1, <2>2, MinIs
  <2>4. EarliestDeadline = Min(S)
    BY DEF EarliestDeadline, S
  <2>5. QED
    BY <2>1, <2>2, <2>3, <2>4, <1>3, <1>4
<1>7. QED
  BY <1>2, <1>5, <1>6 DEF TailsDecide

\* The layers are sorted throughout.
THEOREM LayersStaySorted == Spec => []LayersSorted
BY InitSorted, SortedStep, PTL DEF Spec

\* A list that is "ordered by expiresAt", whoever uses the LayerCache and in
\* whatever order (pkg/lru/layer.go:52-142, cache.go:8).
THEOREM LayerOrder == Spec => []DeadlineOrder
<1>1. LayersSorted => DeadlineOrder
  BY SortedDecides DEF LayersSorted
<1>2. QED
  BY <1>1, LayersStaySorted, PTL

\* The tails answer for the whole cache (pkg/lru/layer.go:75-114).
THEOREM LayerTails == Spec => []TailsDecide
<1>1. LayersSorted => TailsDecide
  BY SortedDecides DEF LayersSorted
<1>2. QED
  BY <1>1, LayersStaySorted, PTL

-----------------------------------------------------------------------------
(* What is in a layer, apart from its order and its deadlines *)

PairsOf(L) == {[key |-> L[n].key, value |-> L[n].value] : n \in 1..Len(L)}
KeysOf(L)  == {p.key : p \in PairsOf(L)}

\* A list as a layer is, with every key once.
IsLayer(L) == L \in Seq(Entry) /\ KeysDiffer(L)

\* The keys of a list, read from its entries.
LEMMA KeysAre ==
  ASSUME NEW L
  PROVE  KeysOf(L) = {L[n].key : n \in 1..Len(L)}
<1>1. \A n \in 1..Len(L) : [key |-> L[n].key, value |-> L[n].value].key = L[n].key
  OBVIOUS
<1>2. QED
  BY <1>1 DEF KeysOf, PairsOf

\* The head of a list counts among its pairs, and no other pair has its key.
LEMMA HeadPair ==
  ASSUME NEW L, IsLayer(L), L # <<>>
  PROVE  /\ Head(L) = L[1] /\ Head(L) \in Entry /\ 1 \in 1..Len(L)
         /\ [key |-> Head(L).key, value |-> Head(L).value] \in PairsOf(L)
         /\ Head(L).key \in KeysOf(L)
BY TailIs, KeysAre DEF IsLayer, PairsOf

\* A list that lies under another and has all its pairs but those of a key.
LEMMA PairsLess ==
  ASSUME NEW L, KeysDiffer(L), NEW W, NEW k, Under(W, L),
         \A m \in 1..Len(W) : W[m].key # k,
         \A n \in 1..Len(L) : L[n].key # k => \E m \in 1..Len(W) : W[m] = L[n]
  PROVE  KeysDiffer(W) /\ PairsOf(W) = {p \in PairsOf(L) : p.key # k}
<1>1. ASSUME NEW p \in PairsOf(W) PROVE p \in PairsOf(L) /\ p.key # k
  <2>1. PICK m \in 1..Len(W) : p = [key |-> W[m].key, value |-> W[m].value]
    BY DEF PairsOf
  <2>2. PICK a \in 1..Len(L) : W[m] = L[a]
    BY DEF Under
  <2>3. QED
    BY <2>1, <2>2 DEF PairsOf
<1>2. ASSUME NEW p \in PairsOf(L), p.key # k PROVE p \in PairsOf(W)
  <2>1. PICK n \in 1..Len(L) : p = [key |-> L[n].key, value |-> L[n].value]
    BY DEF PairsOf
  <2>2. PICK m \in 1..Len(W) : W[m] = L[n]
    BY <1>2, <2>1
  <2>3. QED
    BY <2>1, <2>2 DEF PairsOf
<1>3. PairsOf(W) = {p \in PairsOf(L) : p.key # k}
  BY <1>1, <1>2
<1>4. ASSUME NEW m \in 1..Len(W), NEW n \in 1..Len(W), W[m].key = W[n].key, Len(W) \in Nat
      PROVE  m = n
  <2>1. ASSUME NEW x \in 1..Len(W), NEW y \in 1..Len(W), x < y, W[x].key = W[y].key PROVE FALSE
    <3>1. PICK a, b \in 1..Len(L) : a < b /\ W[x] = L[a] /\ W[y] = L[b]
      BY <2>1 DEF Under
    <3>2. a = b
      BY <2>1, <3>1 DEF KeysDiffer
    <3>3. QED
      BY <3>1, <3>2
  <2>2. m \in Int /\ n \in Int
    OBVIOUS
  <2>3. QED
    BY <1>4, <2>1, <2>2
<1>5. QED
  BY <1>3, <1>4 DEF KeysDiffer

\* Taking out a key.
LEMMA WithoutLayer ==
  ASSUME NEW L, IsLayer(L), NEW k
  PROVE  /\ IsLayer(Without(L, k))
         /\ PairsOf(Without(L, k)) = {p \in PairsOf(L) : p.key # k}
         /\ L # <<>> /\ Head(L).key # k =>
               Without(L, k) # <<>> /\ Head(Without(L, k)) = Head(L)
<1> DEFINE W == Without(L, k)
<1>1. L \in Seq(Entry) /\ KeysDiffer(L)
  BY DEF IsLayer
<1>2. /\ W \in Seq(Entry) /\ Under(W, L)
      /\ \A m \in 1..Len(W) : W[m].key # k
      /\ \A n \in 1..Len(L) : L[n].key # k => \E m \in 1..Len(W) : W[m] = L[n]
  BY <1>1, WithoutIs
<1>3. ASSUME L # <<>>, Head(L).key # k
      PROVE  W # <<>> /\ Head(W) = Head(L)
  <2>1. Head(L) = L[1] /\ 1 \in 1..Len(L) /\ Len(L) \in Nat
    BY <1>1, <1>3, TailIs
  <2>2. CASE W = L
    BY <1>3, <2>2
  <2>3. CASE \E n \in 1..Len(L) : L[n].key = k
    <3> DEFINE c == CHOOSE n \in 1..Len(L) : L[n].key = k
    <3>1. c \in 1..Len(L) /\ L[c].key = k /\ W = RemoveAt(L, c)
      BY <2>3 DEF Without
    <3> HIDE DEF c
    <3>2. c # 1 /\ Len(L) - 1 \in Nat /\ Len(L) - 1 >= 1 /\ 1 < c
      BY <1>3, <2>1, <3>1
    <3> DEFINE R == RemoveAt(L, c)
    <3>3. /\ R \in Seq(Entry) /\ Len(R) = Len(L) - 1
          /\ \A m \in 1..(Len(L) - 1) : R[m] = IF m < c THEN L[m] ELSE L[m + 1]
      BY <1>1, <3>1, RemoveAtIs
    <3> HIDE DEF R
    <3>4. R[1] = L[1] /\ R # <<>>
      BY <3>2, <3>3
    <3>5. Head(R) = R[1]
      BY <3>3, <3>4, TailIs
    <3>6. W = R
      BY <3>1 DEF R
    <3> HIDE DEF W
    <3>7. QED
      BY <2>1, <3>4, <3>5, <3>6
  <2>4. W = L \/ \E n \in 1..Len(L) : L[n].key = k
    BY DEF Without
  <2>5. QED
    BY <2>2, <2>3, <2>4
<1> HIDE DEF W
<1>4. KeysDiffer(W) /\ PairsOf(W) = {p \in PairsOf(L) : p.key # k}
  BY <1>1, <1>2, PairsLess, ZenonT(40)
<1>5. IsLayer(W)
  BY <1>2, <1>4 DEF IsLayer
<1>6. QED
  BY <1>3, <1>4, <1>5 DEF W

\* Putting in a key that is not there.
LEMMA PutLayer ==
  ASSUME NEW L, IsLayer(L), NEW k \in Keys, NEW v \in Values, NEW t \in 0..LongestTTL,
         k \notin KeysOf(L)
  PROVE  /\ IsLayer(Put(L, k, v, t))
         /\ PairsOf(Put(L, k, v, t)) = PairsOf(L) \cup {[key |-> k, value |-> v]}
         /\ L # <<>> => Put(L, k, v, t) # <<>> /\ Head(Put(L, k, v, t)) = Head(L)
<1> DEFINE e == [key |-> k, value |-> v, left |-> t]
           A == Append(L, e)
<1>1. L \in Seq(Entry) /\ KeysDiffer(L) /\ Len(L) \in Nat
  BY DEF IsLayer
<1>2. \A n \in 1..Len(L) : L[n].key # k
  BY KeysAre
<1>3. Put(L, k, v, t) = A
  BY <1>1, <1>2, WithoutIs DEF Put
<1>4. e \in Entry /\ e.key = k /\ e.value = v
  BY Longest DEF Entry
<1> HIDE DEF e
<1>5. /\ A \in Seq(Entry) /\ Len(A) = Len(L) + 1
      /\ A[Len(L) + 1] = e /\ \A n \in 1..Len(L) : A[n] = L[n]
  BY <1>1, <1>4, AppendProperties
<1> HIDE DEF A
<1>6. \A n \in 1..Len(A) : n = Len(L) + 1 \/ n \in 1..Len(L)
  BY <1>1, <1>5
<1>7. \A n \in 1..Len(L) : n \in 1..Len(A)
  BY <1>1, <1>5
<1>8. Len(L) + 1 \in 1..Len(A)
  BY <1>1, <1>5
<1>9. KeysDiffer(A)
  BY <1>1, <1>2, <1>4, <1>5, <1>6 DEF KeysDiffer
<1>10. PairsOf(A) = PairsOf(L) \cup {[key |-> k, value |-> v]}
  <2>1. ASSUME NEW p \in PairsOf(A) PROVE p \in PairsOf(L) \cup {[key |-> k, value |-> v]}
    <3>1. PICK n \in 1..Len(A) : p = [key |-> A[n].key, value |-> A[n].value]
      BY DEF PairsOf
    <3>2. CASE n = Len(L) + 1
      BY <3>1, <3>2, <1>4, <1>5
    <3>3. CASE n \in 1..Len(L)
      BY <3>1, <3>3, <1>5 DEF PairsOf
    <3>4. QED
      BY <3>2, <3>3, <1>6
  <2>2. ASSUME NEW p \in PairsOf(L) PROVE p \in PairsOf(A)
    <3>1. PICK n \in 1..Len(L) : p = [key |-> L[n].key, value |-> L[n].value]
      BY DEF PairsOf
    <3>2. QED
      BY <3>1, <1>5, <1>7 DEF PairsOf
  <2>3. [key |-> k, value |-> v] \in PairsOf(A)
    <3>1. [key |-> A[Len(L) + 1].key, value |-> A[Len(L) + 1].value] \in PairsOf(A)
      BY <1>8 DEF PairsOf
    <3>2. QED
      BY <3>1, <1>4, <1>5
  <2>4. QED
    BY <2>1, <2>2, <2>3
<1>11. ASSUME L # <<>> PROVE A # <<>> /\ Head(A) = Head(L)
  <2>1. Head(L) = L[1] /\ 1 \in 1..Len(L)
    BY <1>1, <1>11, TailIs
  <2>2. A # <<>> /\ A[1] = L[1]
    BY <2>1, <1>1, <1>5
  <2>3. Head(A) = A[1]
    BY <2>2, <1>5, TailIs
  <2>4. QED
    BY <2>1, <2>2, <2>3
<1>12. QED
  BY <1>3, <1>5, <1>9, <1>10, <1>11 DEF IsLayer

\* Popping the tail of the cache, the head of the list.
LEMMA TailLayer ==
  ASSUME NEW L, IsLayer(L), L # <<>>
  PROVE  /\ IsLayer(Tail(L))
         /\ PairsOf(Tail(L)) = {p \in PairsOf(L) : p.key # Head(L).key}
<1>1. L \in Seq(Entry) /\ KeysDiffer(L)
  BY DEF IsLayer
<1> DEFINE T == Tail(L)
           k == Head(L).key
<1>2. /\ T \in Seq(Entry) /\ Under(T, L) /\ Head(L) = L[1] /\ 1 \in 1..Len(L)
      /\ \A m \in 1..Len(T) : m + 1 \in 1..Len(L) /\ T[m] = L[m + 1]
      /\ \A n \in 1..Len(L) : n = 1 \/ \E m \in 1..Len(T) : T[m] = L[n]
  BY <1>1, TailIs
<1>3. \A m \in 1..Len(T) : T[m].key # k
  <2>1. ASSUME NEW m \in 1..Len(T), T[m].key = k PROVE FALSE
    <3>1. m + 1 \in 1..Len(L) /\ T[m] = L[m + 1] /\ m \in Int /\ 1 <= m
      BY <1>2
    <3>2. m + 1 = 1
      BY <1>1, <1>2, <2>1, <3>1 DEF KeysDiffer
    <3>3. QED
      BY <3>1, <3>2
  <2>2. QED
    BY <2>1
<1>4. \A n \in 1..Len(L) : L[n].key # k => \E m \in 1..Len(T) : T[m] = L[n]
  BY <1>2
<1>5. KeysDiffer(L) /\ Under(T, L)
  BY <1>1, <1>2
<1> HIDE DEF T, k
<1>6. KeysDiffer(T) /\ PairsOf(T) = {p \in PairsOf(L) : p.key # k}
  BY <1>3, <1>4, <1>5, PairsLess, ZenonT(40)
<1>7. QED
  BY <1>2, <1>6 DEF T, k, IsLayer

\* The same layer a unit of time later.
Aged(L) == [n \in 1..Len(L) |-> [L[n] EXCEPT !.left = Max({@ - 1, -1})]]

\* Time changes neither keys nor payloads.
LEMMA AgedLayer ==
  ASSUME NEW L, IsLayer(L)
  PROVE  /\ IsLayer(Aged(L)) /\ PairsOf(Aged(L)) = PairsOf(L)
         /\ L # <<>> => Aged(L) # <<>> /\ Head(Aged(L)).key = Head(L).key
<1> DEFINE W == Aged(L)
<1>1. L \in Seq(Entry) /\ KeysDiffer(L) /\ Len(L) \in Nat
  BY DEF IsLayer
<1>2. \A n \in 1..Len(L) : L[n] \in Entry
  BY <1>1
<1>3. ASSUME NEW n \in 1..Len(L)
      PROVE  LET f == [L[n] EXCEPT !.left = Max({@ - 1, -1})]
             IN  f \in Entry /\ f.key = L[n].key /\ f.value = L[n].value
  <2>1. L[n].left \in Int /\ L[n].left \in -1..LongestTTL /\ LongestTTL \in Nat
    BY <1>2, Longest DEF Entry
  <2>2. Max({L[n].left - 1, -1}) = IF L[n].left - 1 >= -1 THEN L[n].left - 1 ELSE -1
    BY <2>1 DEF Max
  <2>3. Max({L[n].left - 1, -1}) \in -1..LongestTTL
    BY <2>1, <2>2
  <2>4. QED
    BY <1>2, <2>3 DEF Entry
<1>4. W \in [1..Len(L) -> Entry] /\ \A n \in 1..Len(L) : W[n].key = L[n].key /\ W[n].value = L[n].value
  BY <1>3 DEF Aged
<1> HIDE DEF W
<1>5. W \in Seq(Entry) /\ Len(W) = Len(L)
  BY <1>1, <1>4
<1>6. KeysDiffer(W)
  BY <1>1, <1>4, <1>5 DEF KeysDiffer
<1>7. PairsOf(W) = PairsOf(L)
  BY <1>4, <1>5 DEF PairsOf
<1>8. ASSUME L # <<>> PROVE W # <<>> /\ Head(W).key = Head(L).key
  <2>1. Head(L) = L[1] /\ 1 \in 1..Len(L)
    BY <1>1, <1>8, TailIs
  <2>2. W # <<>>
    BY <2>1, <1>1, <1>5
  <2>3. Head(W) = W[1]
    BY <2>2, <1>5, TailIs
  <2>4. QED
    BY <2>1, <2>2, <2>3, <1>4
<1>9. QED
  BY <1>5, <1>6, <1>7, <1>8 DEF W, IsLayer

-----------------------------------------------------------------------------
(* What is in the cache: which id waits in which layer with which payload *)

Item == [layer : Layer, key : IDs, value : IDs]
ItemsOf(Ls) == {q \in Item : [key |-> q.key, value |-> q.value] \in PairsOf(Ls[q.layer])}

\* Layers as a LayerCache has them, with every key at most once in each.
LayersAre(Ls) == DOMAIN Ls = Layer /\ \A i \in Layer : IsLayer(Ls[i])

\* The daemon's peek still holds.
HeadIs(L, k) == L # <<>> /\ Head(L).key = k

\* What the assumptions say of the sets of ids, payloads and layers.
LEMMA ClientParams ==
  /\ NumLayers \in Nat \ {0} /\ Layer \subseteq Nat /\ 0 \in Layer
  /\ Workers \in Nat \ {0} /\ TotalPackets \in Nat /\ MaxAcks \in Nat
  /\ Keys = IDs /\ Values = IDs /\ IDs \subseteq Nat \ {0} /\ None = 0 /\ None \notin IDs
BY ParamAssumption, ClientAssumption DEF Layer, IDs, None

\* The items are the entries.
LEMMA ItemsAre ==
  ASSUME NEW Ls, LayersAre(Ls), NEW i \in Layer, NEW n \in 1..Len(Ls[i])
  PROVE  [layer |-> i, key |-> Ls[i][n].key, value |-> Ls[i][n].value] \in ItemsOf(Ls)
<1>1. Ls[i][n] \in Entry
  BY DEF LayersAre, IsLayer
<1>2. Ls[i][n].key \in IDs /\ Ls[i][n].value \in IDs
  BY <1>1, ClientParams DEF Entry
<1>3. [key |-> Ls[i][n].key, value |-> Ls[i][n].value] \in PairsOf(Ls[i])
  BY DEF PairsOf
<1>4. QED
  BY <1>2, <1>3 DEF ItemsOf, Item

\* Every item comes from an entry.
LEMMA ItemAt ==
  ASSUME NEW Ls, NEW q \in ItemsOf(Ls)
  PROVE  /\ q \in Item
         /\ \E n \in 1..Len(Ls[q.layer]) : /\ Ls[q.layer][n].key = q.key
                                           /\ Ls[q.layer][n].value = q.value
<1>1. q \in Item /\ [key |-> q.key, value |-> q.value] \in PairsOf(Ls[q.layer])
  BY DEF ItemsOf
<1>2. PICK n \in 1..Len(Ls[q.layer]) :
         [key |-> q.key, value |-> q.value]
            = [key |-> Ls[q.layer][n].key, value |-> Ls[q.layer][n].value]
  BY <1>1 DEF PairsOf
<1>3. /\ [key |-> q.key, value |-> q.value].key
            = [key |-> Ls[q.layer][n].key, value |-> Ls[q.layer][n].value].key
      /\ [key |-> q.key, value |-> q.value].value
            = [key |-> Ls[q.layer][n].key, value |-> Ls[q.layer][n].value].value
  BY <1>2
<1>4. QED
  BY <1>1, <1>3

\* The tail of a layer is an item.
LEMMA HeadItem ==
  ASSUME NEW Ls, LayersAre(Ls), NEW i \in Layer, Ls[i] # <<>>
  PROVE  /\ Head(Ls[i]) \in Entry /\ Head(Ls[i]).key \in IDs /\ Head(Ls[i]).value \in IDs
         /\ [layer |-> i, key |-> Head(Ls[i]).key, value |-> Head(Ls[i]).value] \in ItemsOf(Ls)
<1>1. IsLayer(Ls[i])
  BY DEF LayersAre
<1>2. Head(Ls[i]) = Ls[i][1] /\ Head(Ls[i]) \in Entry /\ 1 \in 1..Len(Ls[i])
  BY <1>1, HeadPair
<1>3. Head(Ls[i]).key \in IDs /\ Head(Ls[i]).value \in IDs
  BY <1>2, ClientParams DEF Entry
<1>4. QED
  BY <1>2, <1>3, ItemsAre

\* An id is registered if there is an item of it.
LEMMA RegisteredAre ==
  ASSUME NEW Ls, LayersAre(Ls)
  PROVE  {id \in IDs : \E i \in Layer : \E n \in 1..Len(Ls[i]) : Ls[i][n].key = id}
            = {q.key : q \in ItemsOf(Ls)}
<1>1. ASSUME NEW id \in IDs, NEW i \in Layer, NEW n \in 1..Len(Ls[i]), Ls[i][n].key = id
      PROVE  id \in {q.key : q \in ItemsOf(Ls)}
  <2> DEFINE q == [layer |-> i, key |-> Ls[i][n].key, value |-> Ls[i][n].value]
  <2>1. q \in ItemsOf(Ls) /\ q.key = id
    BY <1>1, ItemsAre
  <2> HIDE DEF q
  <2>2. QED
    BY <2>1
<1>2. ASSUME NEW q \in ItemsOf(Ls)
      PROVE  q.key \in IDs /\ \E i \in Layer : \E n \in 1..Len(Ls[i]) : Ls[i][n].key = q.key
  <2>1. q \in Item
    BY ItemAt
  <2>2. q.key \in IDs /\ q.layer \in Layer
    BY <2>1 DEF Item
  <2>3. PICK n \in 1..Len(Ls[q.layer]) : Ls[q.layer][n].key = q.key
    BY ItemAt
  <2>4. QED
    BY <2>2, <2>3
<1>3. QED
  BY <1>1, <1>2

\* Set of a new key.
LEMMA ItemsSet ==
  ASSUME LayersAre(layers), NEW k \in IDs, NEW v \in IDs,
         \A q \in ItemsOf(layers) : q.key # k, Set(k, v)
  PROVE  /\ LayersAre(layers')
         /\ ItemsOf(layers') = ItemsOf(layers) \cup {[layer |-> 0, key |-> k, value |-> v]}
         /\ \A i \in Layer, x \in IDs : HeadIs(layers[i], x) => HeadIs(layers'[i], x)
<1> DEFINE new == [layer |-> 0, key |-> k, value |-> v]
           pair == [key |-> k, value |-> v]
           L == Put(layers[0], k, v, RetryTTL)
<1>1. DOMAIN layers = Layer /\ 0 \in Layer /\ IsLayer(layers[0])
  BY ClientParams DEF LayersAre
<1>2. k \in Keys /\ v \in Values /\ RetryTTL \in 0..LongestTTL
  BY ClientParams, ParamAssumption, Longest
<1>3. k \notin KeysOf(layers[0])
  <2>1. SUFFICES ASSUME k \in KeysOf(layers[0]) PROVE FALSE
    OBVIOUS
  <2>2. PICK n \in 1..Len(layers[0]) : layers[0][n].key = k
    BY <2>1, KeysAre
  <2> DEFINE q == [layer |-> 0, key |-> layers[0][n].key, value |-> layers[0][n].value]
  <2>3. q \in ItemsOf(layers) /\ q.key = k
    BY <1>1, <2>2, ItemsAre
  <2> HIDE DEF q
  <2>4. QED
    BY <2>3
<1>4. /\ IsLayer(L) /\ PairsOf(L) = PairsOf(layers[0]) \cup {pair}
      /\ layers[0] # <<>> => L # <<>> /\ Head(L) = Head(layers[0])
  BY <1>1, <1>2, <1>3, PutLayer
<1> HIDE DEF L
<1>5. /\ DOMAIN layers' = Layer /\ layers'[0] = L
      /\ \A i \in Layer : i # 0 => layers'[i] = layers[i]
  BY <1>1 DEF Set, L
<1>6. LayersAre(layers')
  BY <1>4, <1>5 DEF LayersAre
<1>7. ItemsOf(layers') = ItemsOf(layers) \cup {new}
  <2>1. ASSUME NEW q \in Item
        PROVE  q \in ItemsOf(layers') <=> q \in ItemsOf(layers) \/ q = new
    <3>1. q = [layer |-> q.layer, key |-> q.key, value |-> q.value] /\ q.layer \in Layer
      BY DEF Item
    <3>2. [key |-> q.key, value |-> q.value] = pair <=> q.key = k /\ q.value = v
      OBVIOUS
    <3>3. CASE q.layer = 0
      <4>1. q = new <=> q.key = k /\ q.value = v
        BY <3>1, <3>3
      <4>2. QED
        BY <3>2, <3>3, <4>1, <1>4, <1>5 DEF ItemsOf
    <3>4. CASE q.layer # 0
      <4>1. q # new /\ layers'[q.layer] = layers[q.layer]
        BY <3>1, <3>4, <1>5
      <4>2. QED
        BY <4>1 DEF ItemsOf
    <3>5. QED
      BY <3>3, <3>4
  <2>2. new \in Item
    BY <1>1 DEF Item
  <2>3. ItemsOf(layers') \subseteq Item /\ ItemsOf(layers) \subseteq Item
    BY DEF ItemsOf
  <2> HIDE DEF new
  <2>4. QED
    BY <2>1, <2>2, <2>3
<1>8. \A i \in Layer, x \in IDs : HeadIs(layers[i], x) => HeadIs(layers'[i], x)
  BY <1>4, <1>5 DEF HeadIs
<1>9. QED
  BY <1>6, <1>7, <1>8

\* Delete.
LEMMA ItemsDelete ==
  ASSUME LayersAre(layers), NEW k \in IDs, Delete(k)
  PROVE  /\ LayersAre(layers')
         /\ ItemsOf(layers') = {q \in ItemsOf(layers) : q.key # k}
         /\ \A i \in Layer, x \in IDs :
               x # k /\ HeadIs(layers[i], x) => HeadIs(layers'[i], x)
<1>1. DOMAIN layers' = Layer /\ \A i \in Layer : layers'[i] = Without(layers[i], k)
  BY DEF Delete
<1>2. ASSUME NEW i \in Layer
      PROVE  /\ IsLayer(layers'[i])
             /\ PairsOf(layers'[i]) = {p \in PairsOf(layers[i]) : p.key # k}
             /\ layers[i] # <<>> /\ Head(layers[i]).key # k =>
                   layers'[i] # <<>> /\ Head(layers'[i]) = Head(layers[i])
  BY <1>1, WithoutLayer DEF LayersAre
<1>3. LayersAre(layers')
  BY <1>1, <1>2 DEF LayersAre
<1>4. ASSUME NEW q \in Item
      PROVE  q \in ItemsOf(layers') <=> q \in ItemsOf(layers) /\ q.key # k
  <2> DEFINE p == [key |-> q.key, value |-> q.value]
  <2>1. q.layer \in Layer /\ p.key = q.key
    BY DEF Item
  <2> HIDE DEF p
  <2>2. p \in PairsOf(layers'[q.layer]) <=> p \in PairsOf(layers[q.layer]) /\ q.key # k
    BY <2>1, <1>2
  <2>3. QED
    BY <2>2 DEF ItemsOf, p
<1>5. ItemsOf(layers') \subseteq Item /\ ItemsOf(layers) \subseteq Item
  BY DEF ItemsOf
<1>6. ItemsOf(layers') = {q \in ItemsOf(layers) : q.key # k}
  BY <1>4, <1>5
<1>7. \A i \in Layer, x \in IDs :
         x # k /\ HeadIs(layers[i], x) => HeadIs(layers'[i], x)
  BY <1>2 DEF HeadIs
<1>8. QED
  BY <1>3, <1>6, <1>7

\* A unit of time.
LEMMA ItemsTick ==
  ASSUME LayersAre(layers), Tick
  PROVE  /\ LayersAre(layers')
         /\ ItemsOf(layers') = ItemsOf(layers)
         /\ \A i \in Layer, x \in IDs : HeadIs(layers[i], x) => HeadIs(layers'[i], x)
<1>1. DOMAIN layers' = Layer /\ \A i \in Layer : layers'[i] = Aged(layers[i])
  BY DEF Tick, Aged
<1>2. ASSUME NEW i \in Layer
      PROVE  /\ IsLayer(layers'[i]) /\ PairsOf(layers'[i]) = PairsOf(layers[i])
             /\ layers[i] # <<>> =>
                   layers'[i] # <<>> /\ Head(layers'[i]).key = Head(layers[i]).key
  BY <1>1, AgedLayer DEF LayersAre
<1>3. LayersAre(layers')
  BY <1>1, <1>2 DEF LayersAre
<1>4. \A q \in Item : PairsOf(layers'[q.layer]) = PairsOf(layers[q.layer])
  BY <1>2 DEF Item
<1>5. ItemsOf(layers') = ItemsOf(layers)
  BY <1>4 DEF ItemsOf
<1>6. \A i \in Layer, x \in IDs : HeadIs(layers[i], x) => HeadIs(layers'[i], x)
  BY <1>2 DEF HeadIs
<1>7. QED
  BY <1>3, <1>5, <1>6

\* PromoteLayer of a layer that is not empty, under a key that waits nowhere
\* else than at its tail.
LEMMA ItemsPromote ==
  ASSUME LayersAre(layers), NEW i \in Layer, NEW k \in IDs, layers[i] # <<>>,
         \A q \in ItemsOf(layers) : q.key = k => q.layer = i /\ Head(layers[i]).key = k,
         PromoteLayer(k, i)
  PROVE  /\ LayersAre(layers')
         /\ \A q \in Item : q \in ItemsOf(layers') <=>
               \/ q \in ItemsOf(layers) /\ (q.layer # i \/ q.key # Head(layers[i]).key)
               \/ i + 1 < NumLayers /\ q = [layer |-> i + 1, key |-> k, value |-> PromotedValue(i)]
<1> DEFINE h == Head(layers[i]).key
           T == Tail(layers[i])
           v == PromotedValue(i)
           L == Put(layers[i + 1], k, v, BackoffNext[i + 1])
<1>1. /\ DOMAIN layers = Layer /\ \A j \in Layer : IsLayer(layers[j])
      /\ NumLayers \in Nat /\ i \in Nat /\ i + 1 # i
  BY ClientParams DEF LayersAre
<1>2. IsLayer(T) /\ PairsOf(T) = {p \in PairsOf(layers[i]) : p.key # h}
  BY <1>1, TailLayer
<1>3. v \in IDs /\ v \in Values /\ k \in Keys
  BY HeadItem, ClientParams DEF PromotedValue
<1>4. ASSUME NEW q \in Item
      PROVE  /\ q.layer \in Layer
             /\ [key |-> q.key, value |-> q.value].key = q.key
             /\ q.layer = i =>
                  ([key |-> q.key, value |-> q.value] \in PairsOf(T) <=>
                      q \in ItemsOf(layers) /\ q.key # h)
  <2> DEFINE p == [key |-> q.key, value |-> q.value]
  <2>1. p.key = q.key
    OBVIOUS
  <2>2. q \in ItemsOf(layers) <=> p \in PairsOf(layers[q.layer])
    BY DEF ItemsOf
  <2>3. q.layer \in Layer
    BY DEF Item
  <2> HIDE DEF p
  <2>4. q.layer = i => (p \in PairsOf(T) <=> q \in ItemsOf(layers) /\ q.key # h)
    BY <2>1, <2>2, <1>2
  <2>5. QED
    BY <2>1, <2>3, <2>4 DEF p
<1>5. CASE i + 1 < NumLayers
  <2>1. i + 1 \in Layer /\ IsLayer(layers[i + 1]) /\ BackoffNext[i + 1] \in 0..LongestTTL
    <3>1. i + 1 \in Layer
      BY <1>1, <1>5 DEF Layer
    <3>2. BackoffNext[i + 1] \in Nat /\ BackoffNext[i + 1] <= LongestTTL /\ LongestTTL \in Nat
      BY <3>1, <1>1, Intervals, Longest
    <3>3. QED
      BY <3>1, <3>2, <1>1
  <2>2. k \notin KeysOf(layers[i + 1])
    <3>1. SUFFICES ASSUME k \in KeysOf(layers[i + 1]) PROVE FALSE
      OBVIOUS
    <3>2. PICK n \in 1..Len(layers[i + 1]) : layers[i + 1][n].key = k
      BY <3>1, KeysAre
    <3> DEFINE q == [layer |-> i + 1, key |-> layers[i + 1][n].key,
                     value |-> layers[i + 1][n].value]
    <3>3. q \in ItemsOf(layers) /\ q.key = k /\ q.layer = i + 1
      BY <2>1, <3>2, ItemsAre
    <3> HIDE DEF q
    <3>4. QED
      BY <3>3, <1>1
  <2>3. IsLayer(L) /\ PairsOf(L) = PairsOf(layers[i + 1]) \cup {[key |-> k, value |-> v]}
    BY <2>1, <2>2, <1>3, PutLayer
  <2>4. layers' = [layers EXCEPT ![i] = T, ![i + 1] = L]
    BY <1>1, <1>5, <2>1 DEF PromoteLayer
  <2> HIDE DEF T, L
  <2>5. /\ DOMAIN layers' = Layer /\ layers'[i] = T /\ layers'[i + 1] = L
        /\ \A j \in Layer : j # i /\ j # i + 1 => layers'[j] = layers[j]
    BY <2>1, <2>4, <1>1
  <2>6. LayersAre(layers')
    BY <1>1, <1>2, <2>3, <2>5 DEF LayersAre
  <2> DEFINE new == [layer |-> i + 1, key |-> k, value |-> v]
  <2>7. ASSUME NEW q \in Item
        PROVE  q \in ItemsOf(layers') <=>
                  (q \in ItemsOf(layers) /\ (q.layer # i \/ q.key # h)) \/ q = new
    <3> DEFINE p == [key |-> q.key, value |-> q.value]
    <3>1. q \in ItemsOf(layers') <=> p \in PairsOf(layers'[q.layer])
      BY DEF ItemsOf
    <3>2. q \in ItemsOf(layers) <=> p \in PairsOf(layers[q.layer])
      BY DEF ItemsOf
    <3>3. p = [key |-> k, value |-> v] <=> q.key = k /\ q.value = v
      OBVIOUS
    <3>4. q = new <=> q.layer = i + 1 /\ q.key = k /\ q.value = v
      BY DEF Item
    <3>5. CASE q.layer = i
      <4>1. p \in PairsOf(T) <=> q \in ItemsOf(layers) /\ q.key # h
        BY <1>4, <3>5
      <4> HIDE DEF p, new, h
      <4>2. QED
        BY <3>1, <3>4, <3>5, <4>1, <2>5, <1>1
    <3>6. CASE q.layer = i + 1
      <4> HIDE DEF p, new, h
      <4>1. p \in PairsOf(L) <=> p \in PairsOf(layers[i + 1]) \/ (q.key = k /\ q.value = v)
        BY <2>3, <3>3
      <4>2. QED
        BY <4>1, <3>1, <3>2, <3>4, <3>6, <2>5, <1>1
    <3>7. CASE q.layer # i /\ q.layer # i + 1
      <4> HIDE DEF p, new, h
      <4>1. layers'[q.layer] = layers[q.layer]
        BY <1>4, <3>7, <2>5
      <4>2. QED
        BY <4>1, <3>1, <3>2, <3>4, <3>7
    <3>8. QED
      BY <3>5, <3>6, <3>7
  <2>8. QED
    BY <2>6, <2>7, <1>5
<1>6. CASE ~(i + 1 < NumLayers)
  <2>1. layers' = [layers EXCEPT ![i] = T]
    BY <1>6 DEF PromoteLayer
  <2> HIDE DEF T
  <2>2. /\ DOMAIN layers' = Layer /\ layers'[i] = T
        /\ \A j \in Layer : j # i => layers'[j] = layers[j]
    BY <2>1, <1>1
  <2>3. LayersAre(layers')
    BY <1>1, <1>2, <2>2 DEF LayersAre
  <2>4. ASSUME NEW q \in Item
        PROVE  q \in ItemsOf(layers') <=>
                  q \in ItemsOf(layers) /\ (q.layer # i \/ q.key # h)
    <3> DEFINE p == [key |-> q.key, value |-> q.value]
    <3>1. q \in ItemsOf(layers') <=> p \in PairsOf(layers'[q.layer])
      BY DEF ItemsOf
    <3>2. q \in ItemsOf(layers) <=> p \in PairsOf(layers[q.layer])
      BY DEF ItemsOf
    <3>3. q.layer = i => (p \in PairsOf(T) <=> q \in ItemsOf(layers) /\ q.key # h)
      BY <1>4
    <3>4. q.layer # i => layers'[q.layer] = layers[q.layer]
      BY <1>4, <2>2
    <3> HIDE DEF p, h
    <3>5. QED
      BY <3>1, <3>2, <3>3, <3>4, <2>2
  <2>5. QED
    BY <2>3, <2>4, <1>6
<1>7. QED
  BY <1>5, <1>6

OBP == INSTANCE OrderProofs WITH Values <- Lines, StartID <- 1, MaxID <- TotalPackets,
                                 offered <- {}, released <- <<>>, Size <- 1, slots <- <<>>,
                                 ringNext <- 1, count <- 0, taken <- <<>>

-----------------------------------------------------------------------------
(* The lines on their way to the screen *)

LineIDs(s) == {s[n].id : n \in 1..Len(s)}

LinesOK ==
    /\ nextID \in 1..TotalPackets+1 /\ DOMAIN buffer \subseteq IDs
    /\ \A k \in DOMAIN buffer : buffer[k] \in Lines /\ buffer[k].id = k /\ k > nextID
    /\ printed \in Seq(Lines) /\ ackOut \in Seq(Lines) /\ dmnOut \in Seq(Lines)
    /\ Len(printed) + Len(ackOut) + Len(dmnOut) = nextID - 1
    /\ LineIDs(printed) \cup LineIDs(ackOut) \cup LineIDs(dmnOut) = 1..nextID-1
    /\ ackOut = <<>> <=> ackPC # "print"
    /\ dmnOut = <<>> <=> dmnPC # "print"

\* The ids of the lines of a sequence with one more line.
LEMMA IDsAppend ==
  ASSUME NEW t \in Seq(Lines), NEW e \in Lines
  PROVE  /\ Append(t, e) \in Seq(Lines) /\ Len(Append(t, e)) = Len(t) + 1
         /\ LineIDs(Append(t, e)) = LineIDs(t) \cup {e.id}
<1> DEFINE A == Append(t, e)
<1>1. /\ A \in Seq(Lines) /\ Len(A) = Len(t) + 1 /\ A[Len(t) + 1] = e /\ Len(t) \in Nat
      /\ \A n \in 1..Len(t) : A[n] = t[n]
  BY AppendProperties, LenProperties
<1> HIDE DEF A
<1>2. /\ Len(t) + 1 \in 1..Len(A)
      /\ \A n \in 1..Len(t) : n \in 1..Len(A)
      /\ \A n \in 1..Len(A) : n = Len(t) + 1 \/ n \in 1..Len(t)
  BY <1>1
<1>3. ASSUME NEW x \in LineIDs(A) PROVE x \in LineIDs(t) \cup {e.id}
  <2>1. PICK n \in 1..Len(A) : x = A[n].id
    BY DEF LineIDs
  <2>2. CASE n \in 1..Len(t)
    BY <2>1, <2>2, <1>1 DEF LineIDs
  <2>3. QED
    BY <2>1, <2>2, <1>1, <1>2
<1>4. ASSUME NEW x \in LineIDs(t) PROVE x \in LineIDs(A)
  <2>1. PICK n \in 1..Len(t) : x = t[n].id
    BY DEF LineIDs
  <2>2. QED
    BY <2>1, <1>1, <1>2 DEF LineIDs
<1>5. e.id \in LineIDs(A)
  <2>1. A[Len(t) + 1].id \in LineIDs(A)
    BY <1>2 DEF LineIDs
  <2>2. QED
    BY <2>1, <1>1
<1>6. LineIDs(A) = LineIDs(t) \cup {e.id}
  BY <1>3, <1>4, <1>5
<1>7. QED
  BY <1>1, <1>6 DEF A

\* The ids of the lines of a sequence and of what is left without its first.
LEMMA IDsTail ==
  ASSUME NEW s \in Seq(Lines), s # <<>>
  PROVE  /\ Head(s) \in Lines /\ Tail(s) \in Seq(Lines)
         /\ Len(s) \in Nat /\ Len(Tail(s)) \in Nat /\ Len(Tail(s)) + 1 = Len(s)
         /\ LineIDs(s) = LineIDs(Tail(s)) \cup {Head(s).id}
<1> DEFINE T == Tail(s)
           h == Head(s)
<1>1. /\ T \in Seq(Lines) /\ Len(T) = Len(s) - 1 /\ h \in Lines /\ h = s[1] /\ 1 \in 1..Len(s)
      /\ \A m \in 1..Len(T) : m + 1 \in 1..Len(s) /\ T[m] = s[m + 1]
      /\ \A n \in 1..Len(s) : n = 1 \/ \E m \in 1..Len(T) : T[m] = s[n]
  BY TailIs
<1>2. Len(s) \in Nat /\ Len(T) \in Nat
  BY <1>1, LenProperties
<1> HIDE DEF T, h
<1>3. ASSUME NEW x \in LineIDs(s) PROVE x \in LineIDs(T) \cup {h.id}
  <2>1. PICK n \in 1..Len(s) : x = s[n].id
    BY DEF LineIDs
  <2>2. CASE n = 1
    BY <2>1, <2>2, <1>1
  <2>3. CASE \E m \in 1..Len(T) : T[m] = s[n]
    BY <2>1, <2>3 DEF LineIDs
  <2>4. QED
    BY <2>2, <2>3, <1>1
<1>4. ASSUME NEW x \in LineIDs(T) PROVE x \in LineIDs(s)
  <2>1. PICK m \in 1..Len(T) : x = T[m].id
    BY DEF LineIDs
  <2>2. QED
    BY <2>1, <1>1 DEF LineIDs
<1>5. h.id \in LineIDs(s)
  <2>1. s[1].id \in LineIDs(s)
    BY <1>1 DEF LineIDs
  <2>2. QED
    BY <2>1, <1>1
<1>6. LineIDs(s) = LineIDs(T) \cup {h.id}
  BY <1>3, <1>4, <1>5
<1>7. Len(T) + 1 = Len(s)
  BY <1>1, <1>2
<1>8. QED
  BY <1>1, <1>2, <1>6, <1>7 DEF T, h

\* The ids of the lines of two sequences in a row.
LEMMA IDsConcat ==
  ASSUME NEW s \in Seq(Lines), NEW t \in Seq(Lines)
  PROVE  /\ s \o t \in Seq(Lines) /\ Len(s \o t) = Len(s) + Len(t)
         /\ LineIDs(s \o t) = LineIDs(s) \cup LineIDs(t)
<1> DEFINE C == s \o t
<1>1. /\ C \in Seq(Lines) /\ Len(C) = Len(s) + Len(t)
      /\ \A m \in 1..(Len(s) + Len(t)) : C[m] = IF m <= Len(s) THEN s[m] ELSE t[m - Len(s)]
      /\ Len(s) \in Nat /\ Len(t) \in Nat
  BY ConcatProperties, LenProperties
<1> HIDE DEF C
<1>2. ASSUME NEW x \in LineIDs(C) PROVE x \in LineIDs(s) \cup LineIDs(t)
  <2>1. PICK m \in 1..Len(C) : x = C[m].id
    BY DEF LineIDs
  <2>2. CASE m <= Len(s)
    <3>1. m \in 1..Len(s) /\ C[m] = s[m]
      BY <2>2, <1>1
    <3>2. QED
      BY <2>1, <3>1 DEF LineIDs
  <2>3. CASE ~(m <= Len(s))
    <3>1. m - Len(s) \in 1..Len(t) /\ C[m] = t[m - Len(s)]
      BY <2>3, <1>1
    <3>2. QED
      BY <2>1, <3>1 DEF LineIDs
  <2>4. QED
    BY <2>2, <2>3
<1>3. ASSUME NEW x \in LineIDs(s) PROVE x \in LineIDs(C)
  <2>1. PICK n \in 1..Len(s) : x = s[n].id
    BY DEF LineIDs
  <2>2. n \in 1..Len(C) /\ C[n] = s[n]
    BY <1>1
  <2>3. QED
    BY <2>1, <2>2 DEF LineIDs
<1>4. ASSUME NEW x \in LineIDs(t) PROVE x \in LineIDs(C)
  <2>1. PICK n \in 1..Len(t) : x = t[n].id
    BY DEF LineIDs
  <2>2. Len(s) + n \in 1..Len(C) /\ ~(Len(s) + n <= Len(s)) /\ (Len(s) + n) - Len(s) = n
    BY <1>1
  <2>3. C[Len(s) + n] = t[n]
    BY <2>2, <1>1
  <2>4. QED
    BY <2>1, <2>2, <2>3 DEF LineIDs
<1>5. LineIDs(C) = LineIDs(s) \cup LineIDs(t)
  BY <1>2, <1>3, <1>4
<1>6. QED
  BY <1>1, <1>5 DEF C

\* All lines together: one for every id below nextID.
LEMMA LinesAre == LinesOK => LinesConserved
<1> SUFFICES ASSUME LinesOK PROVE LinesConserved
  OBVIOUS
<1> DEFINE s == printed \o ackOut
           all == s \o dmnOut
<1>1. printed \in Seq(Lines) /\ ackOut \in Seq(Lines) /\ dmnOut \in Seq(Lines)
  BY DEF LinesOK
<1>2. /\ s \in Seq(Lines) /\ Len(s) = Len(printed) + Len(ackOut)
      /\ LineIDs(s) = LineIDs(printed) \cup LineIDs(ackOut)
  BY <1>1, IDsConcat
<1> HIDE DEF s
<1>3. Len(all) = Len(s) + Len(dmnOut) /\ LineIDs(all) = LineIDs(s) \cup LineIDs(dmnOut)
  BY <1>1, <1>2, IDsConcat
<1>4. all = printed \o ackOut \o dmnOut
  BY DEF s
<1> HIDE DEF all
<1>5. Len(all) = nextID - 1 /\ LineIDs(all) = 1..nextID-1
  BY <1>2, <1>3 DEF LinesOK
<1>6. QED
  BY <1>4, <1>5 DEF LinesConserved, LineIDs

\* A step that handles no line.
LEMMA LinesRest ==
  ASSUME LinesOK, UNCHANGED <<nextID, buffer, printed, ackOut, dmnOut>>,
         ackPC' = "print" <=> ackPC = "print", dmnPC' = "print" <=> dmnPC = "print"
  PROVE  LinesOK'
BY DEF LinesOK, LineIDs

\* A step that prints the first line of a batch.
LEMMA AckPrints ==
  ASSUME LinesOK, AckPrint
  PROVE  LinesOK'
<1>1. /\ ackPC = "print" /\ printed' = Append(printed, Head(ackOut)) /\ ackOut' = Tail(ackOut)
      /\ ackPC' = (IF ackOut' = <<>> THEN "receive" ELSE "print")
      /\ UNCHANGED <<nextID, buffer, dmnPC, dmnOut>>
  BY DEF AckPrint, orderVars, dmnVars
<1>2. /\ printed \in Seq(Lines) /\ ackOut \in Seq(Lines) /\ ackOut # <<>> /\ dmnOut \in Seq(Lines)
      /\ Len(printed) + Len(ackOut) + Len(dmnOut) = nextID - 1
      /\ LineIDs(printed) \cup LineIDs(ackOut) \cup LineIDs(dmnOut) = 1..nextID-1
  BY <1>1 DEF LinesOK
<1>3. /\ Head(ackOut) \in Lines /\ ackOut' \in Seq(Lines)
      /\ Len(ackOut) \in Nat /\ Len(ackOut') \in Nat /\ Len(ackOut') + 1 = Len(ackOut)
      /\ LineIDs(ackOut) = LineIDs(ackOut') \cup {Head(ackOut).id}
  BY <1>1, <1>2, IDsTail
<1>4. /\ printed' \in Seq(Lines) /\ Len(printed') = Len(printed) + 1
      /\ LineIDs(printed') = LineIDs(printed) \cup {Head(ackOut).id}
  BY <1>1, <1>2, <1>3, IDsAppend
<1>5. Len(printed) \in Nat /\ Len(dmnOut) \in Nat
  BY <1>2, LenProperties
<1>6. Len(printed') + Len(ackOut') + Len(dmnOut') = nextID' - 1
  BY <1>1, <1>2, <1>3, <1>4, <1>5
<1>7. LineIDs(printed') \cup LineIDs(ackOut') \cup LineIDs(dmnOut') = 1..nextID'-1
  BY <1>1, <1>2, <1>3, <1>4
<1>8. ackOut' = <<>> <=> ackPC' # "print"
  BY <1>1
<1>9. QED
  BY <1>1, <1>3, <1>4, <1>6, <1>7, <1>8 DEF LinesOK, LineIDs

\* The same for the batch in the hands of the daemon.
LEMMA DmnPrints ==
  ASSUME LinesOK, DmnPrint
  PROVE  LinesOK'
<1>1. /\ dmnPC = "print" /\ printed' = Append(printed, Head(dmnOut)) /\ dmnOut' = Tail(dmnOut)
      /\ dmnPC' = (IF dmnOut' = <<>> THEN "scan" ELSE "print")
      /\ UNCHANGED <<nextID, buffer, ackPC, ackOut>>
  BY DEF DmnPrint, orderVars, ackVars
<1>2. /\ printed \in Seq(Lines) /\ dmnOut \in Seq(Lines) /\ dmnOut # <<>> /\ ackOut \in Seq(Lines)
      /\ Len(printed) + Len(ackOut) + Len(dmnOut) = nextID - 1
      /\ LineIDs(printed) \cup LineIDs(ackOut) \cup LineIDs(dmnOut) = 1..nextID-1
  BY <1>1 DEF LinesOK
<1>3. /\ Head(dmnOut) \in Lines /\ dmnOut' \in Seq(Lines)
      /\ Len(dmnOut) \in Nat /\ Len(dmnOut') \in Nat /\ Len(dmnOut') + 1 = Len(dmnOut)
      /\ LineIDs(dmnOut) = LineIDs(dmnOut') \cup {Head(dmnOut).id}
  BY <1>1, <1>2, IDsTail
<1>4. /\ printed' \in Seq(Lines) /\ Len(printed') = Len(printed) + 1
      /\ LineIDs(printed') = LineIDs(printed) \cup {Head(dmnOut).id}
  BY <1>1, <1>2, <1>3, IDsAppend
<1>5. Len(printed) \in Nat /\ Len(ackOut) \in Nat
  BY <1>2, LenProperties
<1>6. Len(printed') + Len(ackOut') + Len(dmnOut') = nextID' - 1
  BY <1>1, <1>2, <1>3, <1>4, <1>5
<1>7. LineIDs(printed') \cup LineIDs(ackOut') \cup LineIDs(dmnOut') = 1..nextID'-1
  BY <1>1, <1>2, <1>3, <1>4
<1>8. dmnOut' = <<>> <=> dmnPC' # "print"
  BY <1>1
<1>9. QED
  BY <1>1, <1>3, <1>4, <1>6, <1>7, <1>8 DEF LinesOK, LineIDs

\* What Insert does with a status line, as the ordered buffer's proofs give it.
LEMMA InsertHere ==
  ASSUME NEW id \in OBP!Ids, NEW line \in Lines, OBP!Waiting, OBP!InsertBody(id, line),
         TotalPackets \in Nat, 1 <= TotalPackets
  PROVE  /\ OBP!Waiting'
         /\ nextID' \in nextID..TotalPackets+1
         /\ \A k \in Int : (k < nextID' \/ k \in DOMAIN buffer')
                            <=> (k < nextID \/ k \in DOMAIN buffer \/ k = id)
         /\ \A k \in DOMAIN buffer' : \/ k \in DOMAIN buffer /\ buffer'[k] = buffer[k]
                                      \/ k = id /\ buffer'[k] = line
         /\ OBP!Batch(id, line) \in Seq(Lines)
         /\ Len(OBP!Batch(id, line)) = nextID' - nextID
         /\ \A i \in 1..Len(OBP!Batch(id, line)) :
               \/ nextID + i - 1 = id /\ OBP!Batch(id, line)[i] = line
               \/ /\ nextID + i - 1 \in DOMAIN buffer
                  /\ OBP!Batch(id, line)[i] = buffer[nextID + i - 1]
<1>0. 1 \in Nat /\ 1 \in Nat \ {0}
  OBVIOUS
<1>1. OBP!Waiting'
  BY <1>0, OBP!InsertBodyFacts
<1>2. nextID' \in nextID..TotalPackets+1
  BY <1>0, OBP!InsertBodyFacts
<1>3. \A k \in Int : (k < nextID' \/ k \in DOMAIN buffer')
                      <=> (k < nextID \/ k \in DOMAIN buffer \/ k = id)
  BY <1>0, OBP!InsertBodyFacts
<1>4. \A k \in DOMAIN buffer' : \/ k \in DOMAIN buffer /\ buffer'[k] = buffer[k]
                                \/ k = id /\ buffer'[k] = line
  BY <1>0, OBP!InsertBodyFacts
<1>5. OBP!Batch(id, line) \in Seq(Lines) /\ Len(OBP!Batch(id, line)) = nextID' - nextID
  BY <1>0, OBP!InsertBodyFacts
<1>6. \A i \in 1..Len(OBP!Batch(id, line)) :
         \/ nextID + i - 1 = id /\ OBP!Batch(id, line)[i] = line
         \/ /\ nextID + i - 1 \in DOMAIN buffer
            /\ OBP!Batch(id, line)[i] = buffer[nextID + i - 1]
  BY <1>0, OBP!BatchValues
<1>7. QED
  BY <1>1, <1>2, <1>3, <1>4, <1>5, <1>6

\* The line of a packet is inserted and a batch of lines comes into the hands of
\* the thread that inserted it.
LEMMA LinesAppear ==
  ASSUME LinesOK, NEW id \in IDs, NEW line \in Lines, line.id = id,
         OB!InsertBody(id, line), NEW batch, batch = OB!Batch(id, line), printed' = printed,
         \/ /\ ackOut = <<>> /\ ackOut' = batch /\ dmnOut' = dmnOut
            /\ (ackPC' = "print" <=> batch # <<>>) /\ (dmnPC' = "print" <=> dmnPC = "print")
         \/ /\ dmnOut = <<>> /\ dmnOut' = batch /\ ackOut' = ackOut
            /\ (dmnPC' = "print" <=> batch # <<>>) /\ (ackPC' = "print" <=> ackPC = "print")
  PROVE  LinesOK' /\ \A k \in IDs : HasStatus(k)' <=> HasStatus(k) \/ k = id
<1>0. id \in Nat /\ 1 <= id /\ id <= TotalPackets /\ TotalPackets \in Nat /\ 1 <= TotalPackets
  BY ClientParams DEF IDs
<1>1. /\ nextID \in 1..TotalPackets+1 /\ DOMAIN buffer \subseteq IDs
      /\ \A k \in DOMAIN buffer : buffer[k] \in Lines /\ buffer[k].id = k /\ k > nextID
      /\ printed \in Seq(Lines) /\ ackOut \in Seq(Lines) /\ dmnOut \in Seq(Lines)
      /\ Len(printed) + Len(ackOut) + Len(dmnOut) = nextID - 1
      /\ LineIDs(printed) \cup LineIDs(ackOut) \cup LineIDs(dmnOut) = 1..nextID-1
  BY DEF LinesOK
<1>2. id \in OBP!Ids
  BY <1>0 DEF OBP!Ids
<1>3. OBP!Waiting
  BY <1>0, <1>1 DEF OBP!Waiting, OBP!Ids, IDs
<1>4. OBP!InsertBody(id, line)
  BY DEF OB!InsertBody, OBP!InsertBody, OB!Filled, OBP!Filled, OB!RunEnd, OBP!RunEnd
<1>5. batch = OBP!Batch(id, line)
  BY DEF OB!Batch, OBP!Batch, OB!Filled, OBP!Filled, OB!RunEnd, OBP!RunEnd
<1>6. /\ OBP!Waiting'
      /\ nextID' \in nextID..TotalPackets+1
      /\ \A k \in Int : (k < nextID' \/ k \in DOMAIN buffer')
                         <=> (k < nextID \/ k \in DOMAIN buffer \/ k = id)
      /\ \A k \in DOMAIN buffer' : \/ k \in DOMAIN buffer /\ buffer'[k] = buffer[k]
                                   \/ k = id /\ buffer'[k] = line
      /\ batch \in Seq(Lines) /\ Len(batch) = nextID' - nextID
      /\ \A i \in 1..Len(batch) : \/ nextID + i - 1 = id /\ batch[i] = line
                                  \/ /\ nextID + i - 1 \in DOMAIN buffer
                                     /\ batch[i] = buffer[nextID + i - 1]
  BY <1>0, <1>2, <1>3, <1>4, <1>5, InsertHere
<1>7. nextID \in Int /\ nextID >= 1 /\ nextID' \in Int /\ nextID <= nextID' /\ nextID' \in 1..TotalPackets+1
  BY <1>0, <1>1, <1>6
<1>8. DOMAIN buffer' \subseteq IDs
  BY <1>1, <1>6
<1>9. \A k \in DOMAIN buffer' : buffer'[k] \in Lines /\ buffer'[k].id = k
  BY <1>1, <1>6
<1>10. \A k \in DOMAIN buffer' : k > nextID'
  BY <1>6 DEF OBP!Waiting
<1>11. \A i \in 1..Len(batch) : batch[i].id = nextID + i - 1
  BY <1>1, <1>6
<1>12. LineIDs(batch) = nextID..nextID'-1
  <2>1. ASSUME NEW i \in 1..Len(batch) PROVE nextID + i - 1 \in nextID..nextID'-1
    BY <1>6, <1>7
  <2>2. ASSUME NEW x \in nextID..nextID'-1
        PROVE  \E i \in 1..Len(batch) : nextID + i - 1 = x
    <3>1. ASSUME NEW a \in Int, NEW b \in Int, x \in a..b-1
          PROVE  \E i \in 1..(b - a) : a + i - 1 = x
      <4>1. x - a + 1 \in 1..(b - a) /\ a + (x - a + 1) - 1 = x
        BY <3>1
      <4>2. QED
        BY <4>1
    <3>2. \E i \in 1..(nextID' - nextID) : nextID + i - 1 = x
      BY <1>7, <3>1
    <3>3. QED
      BY <3>2, <1>6
  <2>3. LineIDs(batch) = {batch[i].id : i \in 1..Len(batch)}
    BY DEF LineIDs
  <2>4. ASSUME NEW x \in LineIDs(batch) PROVE x \in nextID..nextID'-1
    <3>1. PICK i \in 1..Len(batch) : x = batch[i].id
      BY <2>3, <2>4
    <3>2. QED
      BY <1>11, <2>1, <3>1
  <2>5. ASSUME NEW x \in nextID..nextID'-1 PROVE x \in LineIDs(batch)
    <3>1. PICK i \in 1..Len(batch) : nextID + i - 1 = x
      BY <2>2, <2>5
    <3>2. batch[i].id = x
      BY <1>11, <3>1
    <3>3. QED
      BY <2>3, <3>2
  <2>6. QED
    BY <2>4, <2>5
<1>13. LineIDs(<<>>) = {}
  BY DEF LineIDs
<1>14. LineIDs(printed') \cup LineIDs(ackOut') \cup LineIDs(dmnOut') = 1..nextID'-1
  <2>1. (1..nextID-1) \cup (nextID..nextID'-1) = 1..nextID'-1
    BY <1>7
  <2>2. LineIDs(printed') = LineIDs(printed)
    BY Zenon
  <2>3. CASE ackOut = <<>> /\ ackOut' = batch /\ dmnOut' = dmnOut
    <3>1. LineIDs(ackOut) = {} /\ LineIDs(ackOut') = LineIDs(batch) /\ LineIDs(dmnOut') = LineIDs(dmnOut)
      BY <2>3, <1>13, Zenon
    <3>2. QED
      BY <2>1, <2>2, <3>1, <1>1, <1>12
  <2>4. CASE dmnOut = <<>> /\ dmnOut' = batch /\ ackOut' = ackOut
    <3>1. LineIDs(dmnOut) = {} /\ LineIDs(dmnOut') = LineIDs(batch) /\ LineIDs(ackOut') = LineIDs(ackOut)
      BY <2>4, <1>13, Zenon
    <3>2. QED
      BY <2>1, <2>2, <3>1, <1>1, <1>12
  <2>5. QED
    BY <2>3, <2>4
<1>15. Len(printed') + Len(ackOut') + Len(dmnOut') = nextID' - 1
  <2>1. Len(printed) \in Nat /\ Len(ackOut) \in Nat /\ Len(dmnOut) \in Nat /\ Len(<<>>) = 0
    BY <1>1, LenProperties, EmptySeq
  <2>2. CASE ackOut = <<>> /\ ackOut' = batch /\ dmnOut' = dmnOut
    BY <2>1, <2>2, <1>1, <1>6, <1>7
  <2>3. CASE dmnOut = <<>> /\ dmnOut' = batch /\ ackOut' = ackOut
    BY <2>1, <2>3, <1>1, <1>6, <1>7
  <2>4. QED
    BY <2>2, <2>3
<1>16. /\ printed' \in Seq(Lines) /\ ackOut' \in Seq(Lines) /\ dmnOut' \in Seq(Lines)
       /\ ackOut' = <<>> <=> ackPC' # "print"
       /\ dmnOut' = <<>> <=> dmnPC' # "print"
  BY <1>1, <1>6 DEF LinesOK
<1>17. LinesOK'
  BY <1>7, <1>8, <1>9, <1>10, <1>14, <1>15, <1>16 DEF LinesOK, LineIDs
<1>18. \A k \in IDs : HasStatus(k)' <=> HasStatus(k) \/ k = id
  <2>1. \A k \in IDs : k \in Int
    BY ClientParams
  <2>2. QED
    BY <1>6, <2>1 DEF HasStatus
<1>19. QED
  BY <1>17, <1>18

-----------------------------------------------------------------------------
(* The inductive invariant *)

Items     == ItemsOf(layers)
PeekKeys  == {p.key : p \in peeked}
Held      == PeekKeys \cup Registered       \* ids the cache or the daemon holds
Resending == IF dmnPC = "resend" THEN PeekKeys ELSE {}

\* The types, without what the other parts of the invariant say.
Plain ==
    /\ benchMode \in BOOLEAN
    /\ genPC \in [Generators -> {"send", "register", "done"}]
    /\ genID \in [Generators -> 1..TotalPackets+Workers]
    /\ ackPC \in {"receive", "delete", "insert", "print", "done"}
    /\ ackID \in {None} \cup IDs
    /\ dmnPC \in {"scan", "promote", "resend", "lost", "print", "deadline", "sleep", "done"}
    /\ dmnData \in {None} \cup IDs /\ dmnWake \in 0..LongestTTL /\ lostCount \in Nat
    /\ runPC \in {"generate", "poll", "complete", "timedOut", "stopping", "closed"}
    /\ datagrams \subseteq [id : IDs, data : IDs]
    /\ transmitted \in [IDs -> Nat]
    /\ accepted \in [IDs -> {None} \cup IDs]
    /\ ackIssued \in [IDs -> 0..MaxAcks] /\ ackInFlight \in [IDs -> 0..MaxAcks]
    /\ reportedLost \subseteq IDs

\* The ids that generator g has yet to send, that of its step included, have
\* not been sent, or once, if it has yet to be registered.
Due(g) == {genID[g] + c * Workers : c \in Nat}
SentBy(g, id) == IF id = genID[g] /\ genPC[g] = "register" THEN 1 ELSE 0
GenOK ==
    /\ \A g, h \in Generators : g # h => Due(g) \cap Due(h) = {}
    /\ \A g \in Generators : \A id \in Due(g) \cap IDs : transmitted[id] = SentBy(g, id)
    /\ \A g \in Generators : genPC[g] = "register" =>
          genID[g] \in IDs /\ genID[g] \notin Held /\ ~benchMode

\* An id is in one layer, and the layer tells how often it was sent; if its
\* payload is that of another, the server has accepted the right one.
ItemOK(q) ==
    /\ transmitted[q.key] \in 1..(IF q.key \in Resending THEN q.layer ELSE q.layer + 1)
    /\ q.value = q.key \/ accepted[q.key] # None
CacheOK ==
    /\ LayersAre(layers)
    /\ \A q, r \in Items : q.key = r.key => q.layer = r.layer
    /\ \A q \in Items : ItemOK(q)

\* What the daemon peeked is still a tail, or an ACK has come for its key.
Gone(k) == k \notin Registered /\ AcksHandled(k) > 0
PeekedOK(p) ==
    /\ p \in Peek /\ transmitted[p.key] \in 1..p.layer+1
    /\ dmnPC = "promote" => HeadIs(layers[p.layer], p.key) \/ Gone(p.key)
    /\ dmnPC = "resend" => /\ p.layer + 1 < NumLayers /\ dmnData \in IDs
                           /\ dmnData = p.key \/ accepted[p.key] # None
PeekOK ==
    /\ \A p, q \in peeked : p = q
    /\ \A p \in peeked : PeekedOK(p)
    /\ peeked = {} <=> dmnPC \notin {"promote", "resend", "lost"}

\* ACKs are counted; there are none for an id the server has not accepted.
HandledPairs == {p \in IDs \X (1..MaxAcks) : p[2] <= ackIssued[p[1]] - ackInFlight[p[1]]}
AckOK ==
    /\ ackCount = Cardinality(HandledPairs)
    /\ \A id \in IDs : /\ ackInFlight[id] <= ackIssued[id]
                       /\ ackIssued[id] > 0 => accepted[id] # None
    /\ ackID # None <=> ackPC \in {"delete", "insert"}
    /\ ackID # None => ackIssued[ackID] > ackInFlight[ackID] /\ ~benchMode
    /\ benchMode => dmnPC = "done"
    /\ \A d \in datagrams : d.data = d.id \/ accepted[d.id] # None

ClientInv == /\ Plain /\ LinesOK /\ GenOK /\ CacheOK /\ PeekOK /\ AckOK
             /\ RetryBudget /\ PayloadIntact /\ ForgottenForAnother

-----------------------------------------------------------------------------
(* What the invariant says in other words *)

\* The registered ids are the keys of the items, before and after a step.
LEMMA RegisteredIs ==
  /\ LayersAre(layers) => Registered = {q.key : q \in Items}
  /\ LayersAre(layers') => Registered' = {q.key : q \in ItemsOf(layers')}
<1>1. ASSUME LayersAre(layers) PROVE Registered = {q.key : q \in Items}
  BY <1>1, RegisteredAre DEF Registered, Items
<1>2. ASSUME LayersAre(layers') PROVE Registered' = {q.key : q \in ItemsOf(layers')}
  BY <1>2, RegisteredAre DEF Registered
<1>3. QED
  BY <1>1, <1>2

\* The fields of an item.
LEMMA ItemTypes ==
  /\ \A q \in Items : q \in Item /\ q.key \in IDs /\ q.layer \in Layer /\ q.layer \in Nat
  /\ \A q \in Items' : q \in Item /\ q.key \in IDs /\ q.layer \in Layer /\ q.layer \in Nat
<1>1. \A q \in Item : q.key \in IDs /\ q.layer \in Layer /\ q.layer \in Nat
  BY ClientParams DEF Item
<1>2. Items \subseteq Item /\ Items' \subseteq Item
  BY DEF Items, ItemsOf
<1>3. QED
  BY <1>1, <1>2

\* A packet that waits, or that the daemon has peeked, was sent.
LEMMA HeldSent ==
  ASSUME CacheOK, PeekOK, Plain
  PROVE  \A id \in Held : id \in IDs /\ transmitted[id] >= 1
<1>1. ASSUME NEW id \in Registered PROVE id \in IDs /\ transmitted[id] >= 1
  <2>1. PICK q \in Items : q.key = id
    BY RegisteredIs DEF CacheOK
  <2>2. id \in IDs /\ q.layer \in Nat
    BY <2>1, ItemTypes
  <2>3. transmitted[id] \in 1..q.layer \/ transmitted[id] \in 1..q.layer+1
    BY <2>1 DEF CacheOK, ItemOK
  <2>4. QED
    BY <2>2, <2>3
<1>2. ASSUME NEW p \in peeked PROVE p.key \in IDs /\ transmitted[p.key] >= 1
  <2>1. p \in Peek /\ transmitted[p.key] \in 1..p.layer+1
    BY DEF PeekOK, PeekedOK
  <2>2. p.key \in IDs /\ p.layer \in Nat
    BY <2>1, ClientParams DEF Peek
  <2>3. QED
    BY <2>1, <2>2
<1>3. QED
  BY <1>1, <1>2 DEF Held, PeekKeys

\* The next id of a generator is due.
LEMMA DueNow ==
  ASSUME Plain, NEW g \in Generators
  PROVE  genID[g] \in Due(g) /\ genID[g] \in Nat /\ genID[g] >= 1
<1>1. genID[g] \in 1..TotalPackets+Workers /\ Workers \in Nat /\ TotalPackets \in Nat
  BY ClientParams DEF Plain
<1>2. genID[g] \in Nat /\ genID[g] >= 1 /\ genID[g] = genID[g] + 0 * Workers
  BY <1>1
<1>3. QED
  BY <1>2 DEF Due

\* What the generators rely on does not change if nothing is sent and the cache
\* does not take a key.
LEMMA GenRest ==
  ASSUME GenOK, UNCHANGED <<genID, transmitted, benchMode>>, Held' \subseteq Held,
         \A g \in Generators : genPC'[g] = "register" <=> genPC[g] = "register"
  PROVE  GenOK'
<1>1. \A g \in Generators : Due(g)' = Due(g)
  BY DEF Due
<1>2. \A g \in Generators : \A id \in Due(g) \cap IDs : SentBy(g, id)' = SentBy(g, id)
  BY DEF SentBy
<1>3. \A g, h \in Generators : g # h => Due(g)' \cap Due(h)' = {}
  BY <1>1 DEF GenOK
<1>4. \A g \in Generators : \A id \in Due(g)' \cap IDs : transmitted'[id] = SentBy(g, id)'
  BY <1>1, <1>2 DEF GenOK
<1>5. \A g \in Generators : genPC'[g] = "register" =>
          genID'[g] \in IDs /\ genID'[g] \notin Held' /\ ~benchMode'
  BY DEF GenOK
<1>6. QED
  BY <1>3, <1>4, <1>5 DEF GenOK

\* Who cares for an id, and who took the place of another.
Cared(id)  == id \in Tended \/ HasStatus(id)
Witness(o) == AckHandled(o) /\ (o \in Registered \cup GivenUp \/ AcksHandled(o) > 1)

\* A step forgets no packet if what was cared for still is, or has a witness.
LEMMA ForgottenStep ==
  ASSUME ForgottenForAnother, benchMode' = benchMode,
         ~benchMode => \A id \in IDs :
            /\ transmitted'[id] > 0 => transmitted[id] > 0 \/ Cared(id)'
            /\ Cared(id) => Cared(id)' \/ \E o \in IDs : Witness(o)'
            /\ Witness(id) => \E o \in IDs : Witness(o)'
  PROVE  ForgottenForAnother'
<1>1. SUFFICES ASSUME ~benchMode, NEW id \in IDs, transmitted'[id] > 0
               PROVE  Cared(id)' \/ \E o \in IDs : Witness(o)'
  BY DEF ForgottenForAnother, Cared, Witness
<1>2. transmitted[id] > 0 \/ Cared(id)'
  BY <1>1
<1>3. transmitted[id] > 0 => Cared(id) \/ \E o \in IDs : Witness(o)
  BY <1>1 DEF ForgottenForAnother, Cared, Witness
<1>4. Cared(id) => Cared(id)' \/ \E o \in IDs : Witness(o)'
  BY <1>1
<1>5. (\E o \in IDs : Witness(o)) => \E o \in IDs : Witness(o)'
  BY <1>1
<1>6. QED
  BY <1>2, <1>3, <1>4, <1>5

\* Everybody keeps what they care for or passes it on.
LEMMA CaresOn ==
  ASSUME ForgottenForAnother, benchMode' = benchMode,
         Registered \subseteq Registered', GivenUp \subseteq GivenUp',
         \A id \in IDs : /\ id = ackID => id = ackID' \/ HasStatus(id)'
                         /\ HasStatus(id) => HasStatus(id)'
                         /\ AcksHandled(id)' = AcksHandled(id)
                         /\ transmitted'[id] > 0 => transmitted[id] > 0 \/ Cared(id)',
         \A g \in Generators : genPC[g] = "register" =>
            (genPC'[g] = "register" /\ genID'[g] = genID[g]) \/ genID[g] \in Registered'
  PROVE  ForgottenForAnother'
<1>1. ASSUME NEW id \in IDs, Cared(id) PROVE Cared(id)'
  <2>1. CASE id \in Registered \cup GivenUp \/ id = ackID \/ HasStatus(id)
    BY <2>1 DEF Cared, Tended
  <2>2. CASE \E g \in Generators : genPC[g] = "register" /\ genID[g] = id
    <3>1. PICK g \in Generators : genPC[g] = "register" /\ genID[g] = id
      BY <2>2
    <3>2. (genPC'[g] = "register" /\ genID'[g] = id) \/ id \in Registered'
      BY <3>1
    <3>3. QED
      BY <3>2 DEF Cared, Tended
  <2>3. QED
    BY <1>1, <2>1, <2>2 DEF Cared, Tended
<1>2. ASSUME NEW id \in IDs, Witness(id) PROVE Witness(id)'
  BY <1>2 DEF Witness, AckHandled
<1>3. QED
  BY <1>1, <1>2, ForgottenStep

\* A step that leaves the packets, the cache and the server as they are.
LEMMA QuietInv ==
  ASSUME ClientInv, Plain', LinesOK',
         UNCHANGED <<benchMode, layers, nextID, buffer, genID, ackID, ackCount, peeked, dmnData,
                     reportedLost, datagrams, transmitted, accepted, ackIssued, ackInFlight>>,
         \A g \in Generators : genPC'[g] = "register" <=> genPC[g] = "register",
         \A s \in {"delete", "insert"} : ackPC' = s <=> ackPC = s,
         \A s \in {"promote", "resend", "lost"} : dmnPC' = s <=> dmnPC = s,
         benchMode => dmnPC' = "done"
  PROVE  ClientInv'
<1>1. /\ GenOK /\ CacheOK /\ PeekOK /\ AckOK
      /\ RetryBudget /\ PayloadIntact /\ ForgottenForAnother
  BY DEF ClientInv
<1>2. /\ (dmnPC' = "promote" <=> dmnPC = "promote") /\ (dmnPC' = "resend" <=> dmnPC = "resend")
      /\ (dmnPC' = "lost" <=> dmnPC = "lost")
      /\ (ackPC' = "delete" <=> ackPC = "delete") /\ (ackPC' = "insert" <=> ackPC = "insert")
  OBVIOUS
<1>3. Registered' = Registered /\ Items' = Items /\ PeekKeys' = PeekKeys /\ Held' = Held
  BY DEF Registered, Items, PeekKeys, Held
<1>4. Resending' = Resending /\ \A id \in IDs : AcksHandled(id)' = AcksHandled(id)
  BY <1>2, <1>3 DEF Resending, AcksHandled
<1>5. GenOK'
  BY <1>1, <1>3, GenRest
<1>6. CacheOK'
  <2>1. \A q \in Items : ItemOK(q) => ItemOK(q)'
    BY <1>4 DEF ItemOK
  <2>2. QED
    BY <1>1, <1>3, <2>1 DEF CacheOK
<1>7. PeekOK'
  <2>1. \A p \in peeked : Gone(p.key) => Gone(p.key)'
    <3>1. \A p \in peeked : p.key \in IDs
      BY <1>1, ClientParams DEF PeekOK, PeekedOK, Peek
    <3>2. QED
      BY <3>1, <1>3, <1>4 DEF Gone
  <2>2. \A p \in peeked : PeekedOK(p) => PeekedOK(p)'
    BY <1>2, <2>1 DEF PeekedOK
  <2>3. QED
    BY <1>1, <1>2, <2>2 DEF PeekOK
<1>8. AckOK'
  <2>1. HandledPairs' = HandledPairs
    BY DEF HandledPairs
  <2>2. QED
    BY <1>1, <1>2, <2>1 DEF AckOK
<1>9. RetryBudget' /\ PayloadIntact'
  BY <1>1 DEF RetryBudget, PayloadIntact
<1>10. ForgottenForAnother'
  <2>1. \A id \in IDs : HasStatus(id)' <=> HasStatus(id)
    BY DEF HasStatus
  <2>2. GivenUp' = GivenUp
    BY <1>2 DEF GivenUp
  <2>3. QED
    BY <1>1, <1>3, <1>4, <2>1, <2>2, CaresOn
<1>11. QED
  BY <1>5, <1>6, <1>7, <1>8, <1>9, <1>10 DEF ClientInv

-----------------------------------------------------------------------------
(* The steps that leave the packets, the cache and the server as they are *)

\* The daemon sleeps no longer than an entry may wait.
LEMMA SleepIs ==
  ASSUME LayersAre(layers), HasDeadlines
  PROVE  EarliestDeadline \in -1..LongestTTL
<1> DEFINE S == {Head(layers[j]).left : j \in {h \in Layer : layers[h] # <<>>}}
<1>1. LongestTTL \in Nat
  BY Longest
<1>2. \A j \in Layer : layers[j] # <<>> => Head(layers[j]).left \in -1..LongestTTL
  BY HeadItem DEF Entry
<1>3. S # {} /\ \A x \in S : x \in -1..LongestTTL /\ x \in Int /\ x >= -1
  <2>1. \A t \in -1..LongestTTL : t \in Int /\ t >= -1
    BY <1>1
  <2>2. PICK j \in Layer : layers[j] # <<>>
    BY DEF HasDeadlines
  <2>3. Head(layers[j]).left \in S
    BY <2>2
  <2>4. \A x \in S : x \in -1..LongestTTL
    BY <1>2
  <2> HIDE DEF S
  <2>5. QED
    BY <2>1, <2>3, <2>4
<1> HIDE DEF S
<1>4. Min(S) \in S
  BY <1>3, MinIs
<1>5. EarliestDeadline = Min(S)
  BY DEF EarliestDeadline, S
<1>6. QED
  BY <1>3, <1>4, <1>5

\* A generator finds nothing more to send.
LEMMA GenDoneInv ==
  ASSUME ClientInv, NEW g \in Generators, GenDone(g)
  PROVE  ClientInv'
<1>1. Plain /\ LinesOK /\ AckOK
  BY DEF ClientInv
<1>2. /\ genPC[g] = "send" /\ genPC' = [genPC EXCEPT ![g] = "done"]
      /\ UNCHANGED <<benchMode, layers, nextID, buffer, genID, ackPC, ackID, ackOut, ackCount,
                     dmnPC, peeked, dmnData, dmnWake, dmnOut, lostCount, reportedLost, runPC,
                     datagrams, transmitted, accepted, ackIssued, ackInFlight, printed>>
  BY DEF GenDone, cacheVars, orderVars, ackVars, dmnVars, netVars, serverVars
<1>3. Plain'
  BY <1>1, <1>2 DEF Plain
<1>4. LinesOK'
  BY <1>1, <1>2, LinesRest
<1>5. \A h \in Generators : genPC'[h] = "register" <=> genPC[h] = "register"
  BY <1>1, <1>2 DEF Plain
<1>6. QED
  BY <1>1, <1>2, <1>3, <1>4, <1>5, QuietInv DEF AckOK

\* The receiver prints a line.
LEMMA AckPrintInv ==
  ASSUME ClientInv, AckPrint
  PROVE  ClientInv'
<1>1. Plain /\ LinesOK /\ AckOK
  BY DEF ClientInv
<1>2. /\ ackPC = "print" /\ ackPC' \in {"receive", "print"}
      /\ UNCHANGED <<benchMode, layers, nextID, buffer, genPC, genID, ackID, ackCount,
                     dmnPC, peeked, dmnData, dmnWake, dmnOut, lostCount, reportedLost, runPC,
                     datagrams, transmitted, accepted, ackIssued, ackInFlight>>
  BY DEF AckPrint, cacheVars, orderVars, genVars, dmnVars, netVars, serverVars
<1>3. Plain'
  BY <1>1, <1>2 DEF Plain
<1>4. LinesOK'
  BY <1>1, AckPrints
<1>5. QED
  BY <1>1, <1>2, <1>3, <1>4, QuietInv DEF AckOK

\* The receiver meets the closed socket.
LEMMA AckStopInv ==
  ASSUME ClientInv, AckStop
  PROVE  ClientInv'
<1>1. Plain /\ LinesOK /\ AckOK
  BY DEF ClientInv
<1>2. /\ ackPC = "receive" /\ ackPC' = "done"
      /\ UNCHANGED <<benchMode, layers, nextID, buffer, genPC, genID, ackID, ackOut, ackCount,
                     dmnPC, peeked, dmnData, dmnWake, dmnOut, lostCount, reportedLost, runPC,
                     datagrams, transmitted, accepted, ackIssued, ackInFlight, printed>>
  BY DEF AckStop, cacheVars, orderVars, genVars, dmnVars, netVars, serverVars
<1>3. Plain'
  BY <1>1, <1>2 DEF Plain
<1>4. LinesOK'
  BY <1>1, <1>2, LinesRest
<1>5. QED
  BY <1>1, <1>2, <1>3, <1>4, QuietInv DEF AckOK

\* The daemon prints a line.
LEMMA DmnPrintInv ==
  ASSUME ClientInv, DmnPrint
  PROVE  ClientInv'
<1>1. Plain /\ LinesOK /\ AckOK
  BY DEF ClientInv
<1>2. /\ dmnPC = "print" /\ dmnPC' \in {"scan", "print"}
      /\ UNCHANGED <<benchMode, layers, nextID, buffer, genPC, genID, ackPC, ackID, ackOut,
                     ackCount, peeked, dmnData, dmnWake, lostCount, reportedLost, runPC,
                     datagrams, transmitted, accepted, ackIssued, ackInFlight>>
  BY DEF DmnPrint, cacheVars, orderVars, genVars, ackVars, netVars, serverVars
<1>3. Plain'
  BY <1>1, <1>2 DEF Plain
<1>4. LinesOK'
  BY <1>1, DmnPrints
<1>5. QED
  BY <1>1, <1>2, <1>3, <1>4, QuietInv DEF AckOK

\* The daemon stops, finds nothing expired, goes to sleep or wakes up.
LEMMA DmnIdleInv ==
  ASSUME ClientInv, (DmnScan /\ dmnPC' # "promote") \/ DmnDeadline \/ DmnWakeUp
  PROVE  ClientInv'
<1>1. Plain /\ LinesOK /\ AckOK /\ LayersAre(layers)
  BY DEF ClientInv, CacheOK
<1>2. /\ dmnPC \in {"scan", "deadline", "sleep"}
      /\ dmnPC' \in {"scan", "deadline", "sleep", "done"}
      /\ UNCHANGED <<benchMode, layers, nextID, buffer, genPC, genID, ackPC, ackID, ackOut,
                     ackCount, peeked, dmnData, dmnOut, lostCount, reportedLost, runPC,
                     datagrams, transmitted, accepted, ackIssued, ackInFlight, printed>>
      /\ dmnWake' = dmnWake \/ (HasDeadlines /\ EarliestDeadline > 0 /\ dmnWake' = EarliestDeadline)
  <2>1. CASE DmnScan /\ dmnPC' # "promote"
    BY <2>1 DEF DmnScan, cacheVars, orderVars, genVars, ackVars, netVars, serverVars
  <2>2. CASE DmnDeadline
    BY <2>2 DEF DmnDeadline, cacheVars, orderVars, genVars, ackVars, netVars, serverVars
  <2>3. CASE DmnWakeUp
    BY <2>3 DEF DmnWakeUp, cacheVars, orderVars, genVars, ackVars, netVars, serverVars
  <2>4. QED
    BY <2>1, <2>2, <2>3
<1>3. dmnWake' \in 0..LongestTTL
  <2>1. CASE dmnWake' = dmnWake
    BY <1>1, <2>1 DEF Plain
  <2>2. CASE HasDeadlines /\ EarliestDeadline > 0 /\ dmnWake' = EarliestDeadline
    BY <1>1, <2>2, SleepIs, Longest
  <2>3. QED
    BY <1>2, <2>1, <2>2
<1>4. Plain'
  BY <1>1, <1>2, <1>3 DEF Plain
<1>5. LinesOK'
  BY <1>1, <1>2, LinesRest
<1>6. ~benchMode
  BY <1>1, <1>2 DEF AckOK
<1>7. QED
  BY <1>1, <1>2, <1>4, <1>5, <1>6, QuietInv

\* Run and Shutdown move on.
LEMMA MainInv ==
  ASSUME ClientInv, Main \/ RunTimeout \/ UNCHANGED clientVars
  PROVE  ClientInv'
<1>1. Plain /\ LinesOK /\ AckOK
  BY DEF ClientInv
<1>2. /\ runPC' = runPC \/ runPC' \in {"poll", "complete", "timedOut", "stopping", "closed"}
      /\ UNCHANGED <<benchMode, layers, nextID, buffer, genPC, genID, ackPC, ackID, ackOut,
                     ackCount, dmnPC, peeked, dmnData, dmnWake, dmnOut, lostCount, reportedLost,
                     datagrams, transmitted, accepted, ackIssued, ackInFlight, printed>>
  BY DEF Main, RunTimeout, RunWaitGenerators, RunComplete, ShutdownStop, ShutdownClose, RunStep,
     clientVars, cacheVars, orderVars, genVars, ackVars, dmnVars, netVars, serverVars
<1>3. Plain'
  BY <1>1, <1>2 DEF Plain
<1>4. LinesOK'
  BY <1>1, <1>2, LinesRest
<1>5. QED
  BY <1>1, <1>2, <1>3, <1>4, QuietInv DEF AckOK

-----------------------------------------------------------------------------
(* The generators and the server *)

\* What the cache holds stays, and the daemon does not start to resend.
LEMMA CacheRest ==
  ASSUME CacheOK, LayersAre(layers'), Items' = Items, transmitted' = transmitted,
         Resending' \subseteq Resending,
         \A id \in IDs : accepted[id] # None => accepted'[id] # None
  PROVE  CacheOK'
<1>1. ASSUME NEW q \in Items PROVE ItemOK(q)'
  <2>1. ItemOK(q) /\ q.key \in IDs /\ q.layer \in Nat
    BY ItemTypes DEF CacheOK
  <2>2. \A n \in Nat : \A t : t \in 1..n => t \in 1..n+1
    OBVIOUS
  <2>3. transmitted[q.key] \in 1..(IF q.key \in Resending' THEN q.layer ELSE q.layer + 1)
    BY <2>1, <2>2 DEF ItemOK
  <2>4. QED
    BY <2>1, <2>3 DEF ItemOK
<1>2. QED
  BY <1>1 DEF CacheOK

\* What the daemon has peeked stays, or an ACK comes for it.
LEMMA PeekRest ==
  ASSUME PeekOK, UNCHANGED <<peeked, dmnPC, dmnData>>,
         \A p \in peeked : /\ p.key \in IDs => transmitted'[p.key] = transmitted[p.key]
                           /\ HeadIs(layers[p.layer], p.key) =>
                                 HeadIs(layers'[p.layer], p.key) \/ Gone(p.key)'
                           /\ Gone(p.key) => Gone(p.key)',
         \A id \in IDs : accepted[id] # None => accepted'[id] # None
  PROVE  PeekOK'
<1>1. ASSUME NEW p \in peeked PROVE PeekedOK(p)'
  <2>1. PeekedOK(p) /\ p.key \in IDs
    BY ClientParams DEF PeekOK, PeekedOK, Peek
  <2>2. QED
    BY <2>1 DEF PeekedOK
<1>2. QED
  BY <1>1 DEF PeekOK

\* A step that counts no ACK and sends no wrong payload to a server that could take it.
LEMMA AckRest ==
  ASSUME AckOK, UNCHANGED <<benchMode, ackPC, ackID, ackCount, ackIssued, ackInFlight, accepted>>,
         benchMode => dmnPC' = "done",
         \A d \in datagrams' : d \in datagrams \/ d.data = d.id \/ accepted[d.id] # None
  PROVE  AckOK'
<1>1. HandledPairs' = HandledPairs
  BY DEF HandledPairs
<1>2. \A d \in datagrams' : d.data = d.id \/ accepted'[d.id] # None
  BY DEF AckOK
<1>3. QED
  BY <1>1, <1>2 DEF AckOK

\* The steps of a generator do not look at, or touch, the ids of the others.
LEMMA NextDue ==
  ASSUME Plain, NEW g \in Generators, genID'[g] = genID[g] + Workers
  PROVE  Due(g)' \subseteq Due(g) \ {genID[g]}
<1>1. genID[g] \in Nat /\ Workers \in Nat \ {0}
  BY DueNow, ClientParams
<1>2. ASSUME NEW c \in Nat
      PROVE  /\ (genID[g] + Workers) + c * Workers = genID[g] + (c + 1) * Workers
             /\ (genID[g] + Workers) + c * Workers # genID[g]
  <2>1. (c + 1) * Workers = c * Workers + Workers /\ c * Workers \in Nat
    BY <1>1
  <2>2. QED
    BY <1>1, <2>1
<1>3. ASSUME NEW c \in Nat PROVE c + 1 \in Nat
  OBVIOUS
<1>4. QED
  BY <1>2, <1>3 DEF Due

\* A generator sends a packet for the first time.
LEMMA GenSendInv ==
  ASSUME ClientInv, NEW g \in Generators, GenSend(g)
  PROVE  ClientInv'
<1> DEFINE k == genID[g]
<1>1. /\ Plain /\ LinesOK /\ GenOK /\ CacheOK /\ PeekOK /\ AckOK
      /\ RetryBudget /\ PayloadIntact /\ ForgottenForAnother
  BY DEF ClientInv
<1>2. /\ genPC[g] = "send" /\ k <= TotalPackets
      /\ datagrams' = datagrams \cup {[id |-> k, data |-> k]}
      /\ transmitted' = [transmitted EXCEPT ![k] = @ + 1]
      /\ IF benchMode THEN genID' = [genID EXCEPT ![g] = k + Workers] /\ genPC' = [genPC EXCEPT ![g] = "send"]
                      ELSE genPC' = [genPC EXCEPT ![g] = "register"] /\ genID' = genID
      /\ UNCHANGED <<benchMode, layers, nextID, buffer, ackPC, ackID, ackOut, ackCount,
                     dmnPC, peeked, dmnData, dmnWake, dmnOut, lostCount, reportedLost, runPC,
                     accepted, ackIssued, ackInFlight, printed>>
  BY DEF GenSend, Transmit, NextPacket, Stopping, Open, cacheVars, orderVars, ackVars, dmnVars, serverVars
<1>3. k \in Due(g) /\ k \in Nat /\ k >= 1 /\ k \in IDs
  BY <1>1, <1>2, DueNow, ClientParams DEF IDs
<1>4. transmitted[k] = 0
  BY <1>1, <1>2, <1>3 DEF GenOK, SentBy
<1>5. k \notin Held
  BY <1>1, <1>4, HeldSent
<1>6. /\ transmitted \in [IDs -> Nat] /\ transmitted' \in [IDs -> Nat] /\ transmitted'[k] = 1
      /\ \A id \in IDs : id # k => transmitted'[id] = transmitted[id]
  BY <1>1, <1>2, <1>3, <1>4 DEF Plain
<1>7. /\ genPC \in [Generators -> {"send", "register", "done"}]
      /\ genID \in [Generators -> 1..TotalPackets+Workers]
      /\ \A h \in Generators : h # g => genPC'[h] = genPC[h] /\ genID'[h] = genID[h]
  BY <1>1, <1>2 DEF Plain
<1>8. Plain'
  <2>1. genID' \in [Generators -> 1..TotalPackets+Workers]
    <3>1. k + Workers \in 1..TotalPackets+Workers /\ Workers \in Nat /\ TotalPackets \in Nat
      BY <1>2, <1>3, ClientParams
    <3>2. QED
      BY <1>2, <1>7, <3>1
  <2>2. genPC' \in [Generators -> {"send", "register", "done"}]
    BY <1>2, <1>7
  <2>3. datagrams' \subseteq [id : IDs, data : IDs]
    BY <1>1, <1>2, <1>3 DEF Plain
  <2>4. QED
    BY <1>1, <1>2, <1>6, <2>1, <2>2, <2>3 DEF Plain
<1>9. LinesOK'
  BY <1>1, <1>2, LinesRest
<1>10. Registered' = Registered /\ Items' = Items /\ PeekKeys' = PeekKeys /\ Held' = Held
  BY <1>2 DEF Registered, Items, PeekKeys, Held
<1>11. GenOK'
  <2>1. \A h \in Generators : h # g => Due(h)' = Due(h) /\ \A id \in IDs : SentBy(h, id)' = SentBy(h, id)
    BY <1>7 DEF Due, SentBy
  <2>2. CASE benchMode
    <3>1. genID'[g] = k + Workers /\ genPC'[g] = "send"
      BY <1>2, <1>7, <2>2
    <3>2. Due(g)' \subseteq Due(g) \ {k}
      BY <1>1, <3>1, NextDue
    <3>3. \A i, j \in Generators : i # j => Due(i)' \cap Due(j)' = {}
      BY <1>1, <2>1, <3>2 DEF GenOK
    <3>4. ASSUME NEW h \in Generators, NEW id \in Due(h)' \cap IDs
          PROVE  transmitted'[id] = SentBy(h, id)'
      <4>1. CASE h = g
        <5>1. id \in Due(g) \cap IDs /\ id # k
          BY <3>2, <3>4, <4>1
        <5>2. transmitted[id] = 0
          BY <1>1, <5>1 DEF GenOK, SentBy
        <5>3. SentBy(h, id)' = 0
          BY <3>1, <4>1 DEF SentBy
        <5>4. QED
          BY <1>6, <5>1, <5>2, <5>3
      <4>2. CASE h # g
        <5>1. id \in Due(h) \cap IDs /\ id # k
          BY <1>1, <1>3, <2>1, <3>4, <4>2 DEF GenOK
        <5>2. transmitted[id] = SentBy(h, id)
          BY <1>1, <5>1 DEF GenOK
        <5>3. QED
          BY <1>6, <2>1, <4>2, <5>1, <5>2
      <4>3. QED
        BY <4>1, <4>2
    <3>5. \A h \in Generators : genPC'[h] = "register" =>
             genID'[h] \in IDs /\ genID'[h] \notin Held' /\ ~benchMode'
      BY <1>1, <1>2, <1>7, <1>10, <3>1 DEF GenOK
    <3>6. QED
      BY <3>3, <3>4, <3>5 DEF GenOK
  <2>3. CASE ~benchMode
    <3>1. genID' = genID /\ genPC'[g] = "register"
      BY <1>2, <1>7, <2>3
    <3>2. \A h \in Generators : Due(h)' = Due(h)
      BY <3>1 DEF Due
    <3>3. \A i, j \in Generators : i # j => Due(i)' \cap Due(j)' = {}
      BY <1>1, <3>2 DEF GenOK
    <3>4. ASSUME NEW h \in Generators, NEW id \in Due(h)' \cap IDs
          PROVE  transmitted'[id] = SentBy(h, id)'
      <4>1. id \in Due(h) \cap IDs /\ transmitted[id] = SentBy(h, id)
        BY <1>1, <3>2, <3>4 DEF GenOK
      <4>2. CASE h = g
        <5>1. SentBy(g, id)' = IF id = k THEN 1 ELSE 0
          BY <3>1 DEF SentBy
        <5>2. SentBy(g, id) = 0
          BY <1>2 DEF SentBy
        <5>3. QED
          BY <1>6, <4>1, <4>2, <5>1, <5>2
      <4>3. CASE h # g
        <5>1. id # k
          BY <1>1, <1>3, <4>1, <4>3 DEF GenOK
        <5>2. QED
          BY <1>6, <2>1, <4>1, <4>3, <5>1
      <4>4. QED
        BY <4>2, <4>3
    <3>5. \A h \in Generators : genPC'[h] = "register" =>
             genID'[h] \in IDs /\ genID'[h] \notin Held' /\ ~benchMode'
      BY <1>1, <1>2, <1>3, <1>5, <1>7, <1>10, <2>3, <3>1 DEF GenOK
    <3>6. QED
      BY <3>3, <3>4, <3>5 DEF GenOK
  <2>4. QED
    BY <2>2, <2>3
<1>12. CacheOK'
  <2>1. \A q \in Items : q.key \in IDs /\ q.key # k
    BY <1>1, <1>5, ItemTypes, RegisteredIs DEF CacheOK, Held
  <2>2. Resending' = Resending
    BY <1>2, <1>10 DEF Resending
  <2>3. \A q \in Items : ItemOK(q) => ItemOK(q)'
    BY <1>2, <1>6, <2>1, <2>2 DEF ItemOK
  <2>4. LayersAre(layers')
    BY <1>1, <1>2 DEF CacheOK
  <2>5. QED
    BY <1>1, <1>10, <2>3, <2>4 DEF CacheOK
<1>13. \A id \in IDs : AcksHandled(id)' = AcksHandled(id)
  BY <1>2 DEF AcksHandled
<1>14. PeekOK'
  <2>1. \A p \in peeked : p.key \in IDs /\ p.key # k
    BY <1>1, <1>5, ClientParams DEF PeekOK, PeekedOK, Peek, Held, PeekKeys
  <2>2. \A p \in peeked : Gone(p.key) => Gone(p.key)'
    BY <1>10, <1>13, <2>1 DEF Gone
  <2>3. QED
    BY <1>1, <1>2, <1>6, <2>1, <2>2, PeekRest
<1>15. AckOK'
  <2>1. \A d \in datagrams' : d \in datagrams \/ d.data = d.id
    BY <1>2
  <2>2. benchMode => dmnPC' = "done"
    BY <1>1, <1>2 DEF AckOK
  <2>3. QED
    BY <1>1, <1>2, <2>1, <2>2, AckRest
<1>16. RetryBudget' /\ PayloadIntact'
  BY <1>1, <1>2, <1>6, ClientParams DEF RetryBudget, PayloadIntact
<1>17. ForgottenForAnother'
  <2>1. CASE benchMode
    BY <1>2, <2>1 DEF ForgottenForAnother
  <2>2. CASE ~benchMode
    <3>1. genID' = genID /\ genPC'[g] = "register"
      BY <1>2, <1>7, <2>2
    <3>2. k \in Tended'
      BY <3>1 DEF Tended
    <3>3. \A id \in IDs : HasStatus(id)' <=> HasStatus(id)
      BY <1>2 DEF HasStatus
    <3>4. GivenUp' = GivenUp
      BY <1>2 DEF GivenUp
    <3>5. \A id \in IDs : transmitted'[id] > 0 => transmitted[id] > 0 \/ Cared(id)'
      BY <1>6, <3>2 DEF Cared
    <3>6. \A h \in Generators : genPC[h] = "register" => genPC'[h] = "register" /\ genID'[h] = genID[h]
      BY <1>2, <1>7, <3>1
    <3>7. QED
      BY <1>1, <1>2, <1>10, <1>13, <3>3, <3>4, <3>5, <3>6, CaresOn
  <2>3. QED
    BY <2>1, <2>2
<1>18. QED
  BY <1>8, <1>9, <1>11, <1>12, <1>14, <1>15, <1>16, <1>17 DEF ClientInv

\* A generator registers what it has sent, under an id that is nowhere in the cache.
LEMMA GenRegisterInv ==
  ASSUME ClientInv, NEW g \in Generators, GenRegister(g)
  PROVE  ClientInv'
<1> DEFINE k == genID[g]
           new == [layer |-> 0, key |-> k, value |-> k]
<1>1. /\ Plain /\ LinesOK /\ GenOK /\ CacheOK /\ PeekOK /\ AckOK
      /\ RetryBudget /\ PayloadIntact /\ ForgottenForAnother
  BY DEF ClientInv
<1>2. /\ genPC[g] = "register" /\ Set(k, k)
      /\ genID' = [genID EXCEPT ![g] = k + Workers] /\ genPC' = [genPC EXCEPT ![g] = "send"]
      /\ UNCHANGED <<benchMode, nextID, buffer, ackPC, ackID, ackOut, ackCount,
                     dmnPC, peeked, dmnData, dmnWake, dmnOut, lostCount, reportedLost, runPC,
                     datagrams, transmitted, accepted, ackIssued, ackInFlight, printed>>
  BY DEF GenRegister, NextPacket, orderVars, ackVars, dmnVars, netVars, serverVars
<1>3. k \in IDs /\ k \notin Held /\ ~benchMode /\ k \in Due(g) /\ k \in Nat /\ k >= 1
  BY <1>1, <1>2, DueNow DEF GenOK
<1>4. transmitted[k] = 1
  BY <1>1, <1>2, <1>3 DEF GenOK, SentBy
<1>5. \A q \in Items : q.key \in IDs /\ q.key # k /\ q.layer \in Nat
  BY <1>1, <1>3, ItemTypes, RegisteredIs DEF CacheOK, Held
<1>6. /\ LayersAre(layers') /\ Items' = Items \cup {new}
      /\ \A i \in Layer, x \in IDs : HeadIs(layers[i], x) => HeadIs(layers'[i], x)
  BY <1>1, <1>2, <1>3, <1>5, ItemsSet DEF CacheOK, Items
<1>7. new.key = k /\ new.layer = 0 /\ new.value = k
  OBVIOUS
<1> HIDE DEF new
<1>8. Registered' = Registered \cup {k} /\ PeekKeys' = PeekKeys /\ Held' = Held \cup {k}
  <2>1. Registered = {q.key : q \in Items} /\ Registered' = {q.key : q \in Items'}
    BY <1>1, <1>6, RegisteredIs DEF CacheOK, Items
  <2>2. Registered' = Registered \cup {k}
    BY <2>1, <1>6, <1>7
  <2>3. PeekKeys' = PeekKeys
    BY <1>2 DEF PeekKeys
  <2>4. QED
    BY <2>2, <2>3 DEF Held
<1>9. /\ genPC \in [Generators -> {"send", "register", "done"}]
      /\ genID \in [Generators -> 1..TotalPackets+Workers]
      /\ genPC'[g] = "send" /\ genID'[g] = k + Workers
      /\ \A h \in Generators : h # g => genPC'[h] = genPC[h] /\ genID'[h] = genID[h]
  BY <1>1, <1>2 DEF Plain
<1>10. Plain'
  <2>1. genID' \in [Generators -> 1..TotalPackets+Workers]
    <3>1. k + Workers \in 1..TotalPackets+Workers /\ Workers \in Nat /\ TotalPackets \in Nat
      BY <1>3, ClientParams DEF IDs
    <3>2. QED
      BY <1>2, <1>9, <3>1
  <2>2. genPC' \in [Generators -> {"send", "register", "done"}]
    BY <1>2, <1>9
  <2>3. QED
    BY <1>1, <1>2, <2>1, <2>2 DEF Plain
<1>11. LinesOK'
  BY <1>1, <1>2, LinesRest
<1>12. GenOK'
  <2>1. \A h \in Generators : h # g => Due(h)' = Due(h) /\ \A id \in IDs : SentBy(h, id)' = SentBy(h, id)
    BY <1>9 DEF Due, SentBy
  <2>2. Due(g)' \subseteq Due(g) \ {k}
    BY <1>1, <1>9, NextDue
  <2>3. \A i, j \in Generators : i # j => Due(i)' \cap Due(j)' = {}
    BY <1>1, <2>1, <2>2 DEF GenOK
  <2>4. ASSUME NEW h \in Generators, NEW id \in Due(h)' \cap IDs
        PROVE  transmitted'[id] = SentBy(h, id)'
    <3>1. CASE h = g
      <4>1. id \in Due(g) \cap IDs /\ id # k
        BY <2>2, <2>4, <3>1
      <4>2. transmitted[id] = 0
        BY <1>1, <4>1 DEF GenOK, SentBy
      <4>3. SentBy(h, id)' = 0
        BY <1>9, <3>1 DEF SentBy
      <4>4. QED
        BY <1>2, <4>2, <4>3
    <3>2. CASE h # g
      <4>1. id \in Due(h) \cap IDs
        BY <2>1, <2>4, <3>2
      <4>2. transmitted[id] = SentBy(h, id)
        BY <1>1, <4>1 DEF GenOK
      <4>3. QED
        BY <1>2, <2>1, <3>2, <4>1, <4>2
    <3>3. QED
      BY <3>1, <3>2
  <2>5. ASSUME NEW h \in Generators, genPC'[h] = "register"
        PROVE  genID'[h] \in IDs /\ genID'[h] \notin Held' /\ ~benchMode'
    <3>1. h # g /\ genPC[h] = "register" /\ genID'[h] = genID[h]
      BY <1>9, <2>5
    <3>2. genID[h] \in IDs /\ genID[h] \notin Held /\ genID[h] \in Due(h)
      BY <1>1, <3>1, DueNow DEF GenOK
    <3>3. genID[h] # k
      BY <1>1, <1>3, <3>1, <3>2 DEF GenOK
    <3>4. QED
      BY <1>2, <1>3, <1>8, <3>1, <3>2, <3>3
  <2>6. QED
    BY <2>3, <2>4, <2>5 DEF GenOK
<1>13. CacheOK'
  <2>1. Resending' = Resending /\ Resending \subseteq PeekKeys
    BY <1>2, <1>8 DEF Resending
  <2>2. \A q \in Items : ItemOK(q)'
    <3>1. \A q \in Items : ItemOK(q) => ItemOK(q)'
      BY <1>2, <2>1 DEF ItemOK
    <3>2. QED
      BY <1>1, <3>1 DEF CacheOK
  <2>3. ASSUME NEW q \in Items', q = new PROVE ItemOK(q)'
    <3>1. q.key = k /\ q.layer = 0 /\ q.value = k /\ k \notin Resending'
      BY <1>3, <1>7, <2>1, <2>3 DEF Held
    <3>2. transmitted'[q.key] \in 1..1 /\ 0 + 1 = 1
      BY <1>2, <1>4, <3>1
    <3>3. QED
      BY <3>1, <3>2 DEF ItemOK
  <2>4. ASSUME NEW q \in Items', NEW r \in Items', q.key = r.key PROVE q.layer = r.layer
    <3>1. (q = new \/ q \in Items) /\ (r = new \/ r \in Items)
      BY <1>6
    <3>2. (q = new <=> q.key = k) /\ (r = new <=> r.key = k)
      BY <3>1, <1>5, <1>7
    <3>3. CASE q \in Items /\ r \in Items
      BY <1>1, <2>4, <3>3 DEF CacheOK
    <3>4. QED
      BY <2>4, <3>1, <3>2, <3>3
  <2>5. \A q \in Items' : ItemOK(q)'
    BY <1>6, <2>2, <2>3
  <2>6. QED
    BY <1>6, <2>4, <2>5 DEF CacheOK
<1>14. \A id \in IDs : AcksHandled(id)' = AcksHandled(id)
  BY <1>2 DEF AcksHandled
<1>15. PeekOK'
  <2>1. \A p \in peeked : p.key \in IDs /\ p.key # k /\ p.layer \in Layer
    BY <1>1, <1>3, ClientParams DEF PeekOK, PeekedOK, Peek, Held, PeekKeys
  <2>2. \A p \in peeked : Gone(p.key) => Gone(p.key)'
    BY <1>8, <1>14, <2>1 DEF Gone
  <2>3. QED
    BY <1>1, <1>2, <1>6, <2>1, <2>2, PeekRest
<1>16. AckOK'
  BY <1>1, <1>2, <1>3, AckRest
<1>17. RetryBudget' /\ PayloadIntact'
  BY <1>1, <1>2 DEF RetryBudget, PayloadIntact
<1>18. ForgottenForAnother'
  <2>1. \A id \in IDs : HasStatus(id)' <=> HasStatus(id)
    BY <1>2 DEF HasStatus
  <2>2. GivenUp' = GivenUp
    BY <1>2 DEF GivenUp
  <2>3. \A h \in Generators : genPC[h] = "register" =>
           (genPC'[h] = "register" /\ genID'[h] = genID[h]) \/ genID[h] \in Registered'
    BY <1>8, <1>9
  <2>4. QED
    BY <1>1, <1>2, <1>8, <1>14, <2>1, <2>2, <2>3, CaresOn
<1>19. QED
  BY <1>10, <1>11, <1>12, <1>13, <1>15, <1>16, <1>17, <1>18 DEF ClientInv

\* The server accepts a packet, or acknowledges it once more.
LEMMA ServerAckInv ==
  ASSUME ClientInv, NEW d \in datagrams, ServerAck(d)
  PROVE  ClientInv'
<1> DEFINE k == d.id
<1>1. /\ Plain /\ LinesOK /\ GenOK /\ CacheOK /\ PeekOK /\ AckOK
      /\ RetryBudget /\ PayloadIntact /\ ForgottenForAnother
  BY DEF ClientInv
<1>2. /\ ackIssued[k] < MaxAcks
      /\ accepted' = [accepted EXCEPT ![k] = IF @ = None THEN d.data ELSE @]
      /\ ackIssued' = [ackIssued EXCEPT ![k] = @ + 1]
      /\ ackInFlight' = [ackInFlight EXCEPT ![k] = @ + 1]
      /\ UNCHANGED <<benchMode, layers, nextID, buffer, genPC, genID, ackPC, ackID, ackOut, ackCount,
                     dmnPC, peeked, dmnData, dmnWake, dmnOut, lostCount, reportedLost, runPC,
                     datagrams, transmitted, printed>>
  BY DEF ServerAck, cacheVars, orderVars, genVars, ackVars, dmnVars, netVars
<1>3. k \in IDs /\ d.data \in IDs /\ None \notin IDs /\ MaxAcks \in Nat
  BY <1>1, ClientParams DEF Plain
<1>4. /\ accepted \in [IDs -> {None} \cup IDs]
      /\ ackIssued \in [IDs -> 0..MaxAcks] /\ ackInFlight \in [IDs -> 0..MaxAcks]
      /\ \A id \in IDs : ackInFlight[id] <= ackIssued[id]
  BY <1>1 DEF Plain, AckOK
<1>5. /\ accepted'[k] = (IF accepted[k] = None THEN d.data ELSE accepted[k])
      /\ ackIssued'[k] = ackIssued[k] + 1 /\ ackInFlight'[k] = ackInFlight[k] + 1
      /\ \A id \in IDs : id # k => /\ accepted'[id] = accepted[id] /\ ackIssued'[id] = ackIssued[id]
                                   /\ ackInFlight'[id] = ackInFlight[id]
  BY <1>2, <1>3, <1>4
<1>6. \A id \in IDs : accepted[id] # None => accepted'[id] # None
  BY <1>5
<1>7. accepted'[k] # None
  BY <1>3, <1>5
<1>8. \A id \in IDs : /\ ackIssued[id] \in Nat /\ ackInFlight[id] \in Nat
                      /\ ackIssued'[id] \in Nat /\ ackInFlight'[id] \in Nat
                      /\ ackIssued'[id] - ackInFlight'[id] = ackIssued[id] - ackInFlight[id]
                      /\ ackInFlight'[id] <= ackIssued'[id]
  <2>1. \A id \in IDs : ackIssued[id] \in Nat /\ ackInFlight[id] \in Nat
    BY <1>3, <1>4
  <2>2. QED
    BY <1>4, <1>5, <2>1
<1>9. Plain'
  <2>1. accepted' \in [IDs -> {None} \cup IDs]
    BY <1>2, <1>3, <1>4
  <2>2. ackIssued[k] + 1 \in 0..MaxAcks /\ ackInFlight[k] + 1 \in 0..MaxAcks
    BY <1>2, <1>3, <1>4
  <2>3. ackIssued' \in [IDs -> 0..MaxAcks] /\ ackInFlight' \in [IDs -> 0..MaxAcks]
    BY <1>2, <1>4, <2>2
  <2>4. QED
    BY <1>1, <1>2, <2>1, <2>3 DEF Plain
<1>10. LinesOK'
  BY <1>1, <1>2, LinesRest
<1>11. Registered' = Registered /\ Items' = Items /\ PeekKeys' = PeekKeys /\ Held' = Held
  BY <1>2 DEF Registered, Items, PeekKeys, Held
<1>12. GenOK'
  BY <1>1, <1>2, <1>11, GenRest
<1>13. CacheOK'
  <2>1. Resending' = Resending
    BY <1>2, <1>11 DEF Resending
  <2>2. LayersAre(layers')
    BY <1>1, <1>2 DEF CacheOK
  <2>3. QED
    BY <1>1, <1>2, <1>6, <1>11, <2>1, <2>2, CacheRest
<1>14. \A id \in IDs : AcksHandled(id)' = AcksHandled(id)
  BY <1>2, <1>8 DEF AcksHandled
<1>15. PeekOK'
  <2>1. \A p \in peeked : p.key \in IDs
    BY <1>1, ClientParams DEF PeekOK, PeekedOK, Peek
  <2>2. \A p \in peeked : Gone(p.key) => Gone(p.key)'
    BY <1>11, <1>14, <2>1 DEF Gone
  <2>3. QED
    BY <1>1, <1>2, <1>6, <2>1, <2>2, PeekRest
<1>16. AckOK'
  <2>1. HandledPairs' = HandledPairs
    <3>1. \A p \in IDs \X (1..MaxAcks) :
             ackIssued'[p[1]] - ackInFlight'[p[1]] = ackIssued[p[1]] - ackInFlight[p[1]]
      BY <1>8
    <3>2. QED
      BY <3>1 DEF HandledPairs
  <2>2. \A id \in IDs : ackIssued'[id] > 0 => accepted'[id] # None
    BY <1>1, <1>5, <1>6, <1>7 DEF AckOK
  <2>3. ackID' # None => ackIssued'[ackID'] > ackInFlight'[ackID'] /\ ~benchMode'
    <3>1. ackID \in {None} \cup IDs
      BY <1>1 DEF Plain
    <3>2. ackID # None => ackIssued[ackID] > ackInFlight[ackID] /\ ~benchMode
      BY <1>1 DEF AckOK
    <3>3. ackID \in IDs => ackIssued'[ackID] - ackInFlight'[ackID] = ackIssued[ackID] - ackInFlight[ackID]
      BY <1>8
    <3>4. QED
      BY <1>2, <1>8, <3>1, <3>2, <3>3
  <2>4. \A e \in datagrams' : e.data = e.id \/ accepted'[e.id] # None
    <3>1. \A e \in datagrams : e.id \in IDs
      BY <1>1 DEF Plain
    <3>2. QED
      BY <1>1, <1>2, <1>6, <3>1 DEF AckOK
  <2>5. QED
    BY <1>1, <1>2, <1>8, <2>1, <2>2, <2>3, <2>4 DEF AckOK
<1>17. RetryBudget'
  BY <1>1, <1>2 DEF RetryBudget
<1>18. PayloadIntact'
  <2>1. accepted[k] = None => d.data = k
    BY <1>1 DEF AckOK
  <2>2. QED
    BY <1>1, <1>5, <2>1 DEF PayloadIntact
<1>19. ForgottenForAnother'
  <2>1. \A id \in IDs : HasStatus(id)' <=> HasStatus(id)
    BY <1>2 DEF HasStatus
  <2>2. GivenUp' = GivenUp
    BY <1>2 DEF GivenUp
  <2>3. QED
    BY <1>1, <1>2, <1>11, <1>14, <2>1, <2>2, CaresOn
<1>20. QED
  BY <1>9, <1>10, <1>12, <1>13, <1>15, <1>16, <1>17, <1>18, <1>19 DEF ClientInv

-----------------------------------------------------------------------------
(* ackReceiver *)

\* One more ACK is counted.
LEMMA AckCounted ==
  ASSUME Plain, AckOK, NEW k \in IDs, ackInFlight[k] > 0,
         ackInFlight' = [ackInFlight EXCEPT ![k] = @ - 1], ackCount' = ackCount + 1,
         ackIssued' = ackIssued
  PROVE  ackCount' = Cardinality(HandledPairs')
<1> DEFINE n == ackIssued[k] - ackInFlight[k] + 1
           P == IDs \X (1..MaxAcks)
           D(id) == ackIssued[id] - ackInFlight[id]
           E(id) == ackIssued'[id] - ackInFlight'[id]
<1>1. MaxAcks \in Nat /\ TotalPackets \in Nat
  BY ClientParams
<1>2. /\ ackIssued \in [IDs -> 0..MaxAcks] /\ ackInFlight \in [IDs -> 0..MaxAcks]
      /\ ackInFlight[k] <= ackIssued[k]
  BY DEF Plain, AckOK
<1>3. \A id \in IDs : ackIssued[id] \in Int /\ ackInFlight[id] \in Int
  BY <1>1, <1>2
<1>4. n \in 1..MaxAcks /\ ackIssued[k] <= MaxAcks
  BY <1>1, <1>2
<1>5. \A id \in IDs : D(id) \in Int /\ E(id) = IF id = k THEN D(id) + 1 ELSE D(id)
  BY <1>2, <1>3
<1>6. n = D(k) + 1
  OBVIOUS
<1> HIDE DEF n, D, E
<1>7. ASSUME NEW p \in P PROVE p[2] <= E(p[1]) <=> (p[2] <= D(p[1]) \/ p = <<k, n>>)
  <2>1. p[1] \in IDs /\ p[2] \in Int /\ p = <<p[1], p[2]>>
    BY <1>1
  <2>2. p = <<k, n>> <=> p[1] = k /\ p[2] = n
    BY <2>1
  <2>3. CASE p[1] = k
    BY <2>1, <2>2, <2>3, <1>5, <1>6
  <2>4. CASE p[1] # k
    BY <2>1, <2>2, <2>4, <1>5
  <2>5. QED
    BY <2>3, <2>4
<1>8. HandledPairs = {p \in P : p[2] <= D(p[1])} /\ HandledPairs' = {p \in P : p[2] <= E(p[1])}
  BY DEF HandledPairs, D, E
<1>9. <<k, n>> \in P /\ ~(n <= D(k))
  BY <1>4, <1>5, <1>6
<1>10. HandledPairs' = HandledPairs \cup {<<k, n>>}
  <2>1. \A p \in P : p \in HandledPairs' <=> p \in HandledPairs \/ p = <<k, n>>
    BY <1>7, <1>8
  <2>2. HandledPairs' \subseteq P /\ HandledPairs \subseteq P
    BY <1>8
  <2>3. QED
    BY <1>9, <2>1, <2>2
<1>11. <<k, n>> \notin HandledPairs
  BY <1>8, <1>9
<1>12. IsFiniteSet(P)
  <2>1. IsFiniteSet(IDs) /\ IsFiniteSet(1..MaxAcks)
    BY <1>1, FS_Interval, SMTT(30) DEF IDs
  <2>2. QED
    BY <2>1, FS_Product
<1>13. IsFiniteSet(HandledPairs)
  <2>1. HandledPairs \in SUBSET P
    BY <1>8
  <2>2. QED
    BY <1>12, <2>1, FS_Subset
<1>14. Cardinality(HandledPairs') = Cardinality(HandledPairs) + 1
  BY <1>10, <1>11, <1>13, FS_AddElement
<1>15. QED
  BY <1>14 DEF AckOK

\* The receiver takes an ACK off the wire.
LEMMA AckReceiveInv ==
  ASSUME ClientInv, NEW k \in IDs, AckReceive(k)
  PROVE  ClientInv'
<1>1. /\ Plain /\ LinesOK /\ GenOK /\ CacheOK /\ PeekOK /\ AckOK
      /\ RetryBudget /\ PayloadIntact /\ ForgottenForAnother
  BY DEF ClientInv
<1>2. /\ ackPC = "receive" /\ ackInFlight[k] > 0
      /\ ackInFlight' = [ackInFlight EXCEPT ![k] = @ - 1]
      /\ ackCount' = ackCount + 1
      /\ IF benchMode THEN ackPC' = ackPC /\ ackID' = ackID ELSE ackPC' = "delete" /\ ackID' = k
      /\ UNCHANGED <<benchMode, layers, nextID, buffer, genPC, genID, ackOut,
                     dmnPC, peeked, dmnData, dmnWake, dmnOut, lostCount, reportedLost, runPC,
                     datagrams, transmitted, accepted, ackIssued, printed>>
  BY DEF AckReceive, cacheVars, orderVars, genVars, dmnVars, netVars
<1>3. None \notin IDs /\ MaxAcks \in Nat
  BY ClientParams
<1>4. /\ ackIssued \in [IDs -> 0..MaxAcks] /\ ackInFlight \in [IDs -> 0..MaxAcks]
      /\ \A id \in IDs : ackInFlight[id] <= ackIssued[id]
      /\ ackID = None
  BY <1>1, <1>2 DEF Plain, AckOK
<1>5. /\ ackInFlight'[k] = ackInFlight[k] - 1
      /\ \A id \in IDs : id # k => ackInFlight'[id] = ackInFlight[id]
      /\ \A id \in IDs : ackIssued[id] \in Nat /\ ackInFlight[id] \in Nat
  BY <1>2, <1>3, <1>4
<1>6. Plain'
  <2>1. ackInFlight[k] - 1 \in 0..MaxAcks
    BY <1>2, <1>3, <1>4
  <2>2. ackInFlight' \in [IDs -> 0..MaxAcks]
    BY <1>2, <1>4, <2>1
  <2>3. ackPC' \in {"receive", "delete", "insert", "print", "done"} /\ ackID' \in {None} \cup IDs
    BY <1>1, <1>2 DEF Plain
  <2>4. QED
    BY <1>1, <1>2, <2>2, <2>3 DEF Plain
<1>7. LinesOK'
  <2>1. ackPC' # "print" /\ ackPC # "print"
    BY <1>2
  <2>2. QED
    BY <1>1, <1>2, <2>1, LinesRest
<1>8. Registered' = Registered /\ Items' = Items /\ PeekKeys' = PeekKeys /\ Held' = Held
  BY <1>2 DEF Registered, Items, PeekKeys, Held
<1>9. GenOK'
  BY <1>1, <1>2, <1>8, GenRest
<1>10. CacheOK'
  <2>1. Resending' = Resending
    BY <1>2, <1>8 DEF Resending
  <2>2. LayersAre(layers')
    BY <1>1, <1>2 DEF CacheOK
  <2>3. QED
    BY <1>1, <1>2, <1>8, <2>1, <2>2, CacheRest
<1>11. ~benchMode => \A id \in IDs : AcksHandled(id)' = AcksHandled(id)
  <2>1. ASSUME ~benchMode, NEW id \in IDs PROVE AcksHandled(id)' = AcksHandled(id)
    <3>1. ackPC # "delete" /\ ackPC' = "delete" /\ ackID' = k
      BY <1>2, <2>1
    <3>2. AcksHandled(id) = ackIssued[id] - ackInFlight[id]
      BY <1>5, <3>1 DEF AcksHandled
    <3>3. AcksHandled(id)' = ackIssued[id] - ackInFlight'[id] - (IF k = id THEN 1 ELSE 0)
      BY <1>2, <3>1 DEF AcksHandled
    <3>4. QED
      BY <1>5, <3>2, <3>3
  <2>2. QED
    BY <2>1
<1>12. PeekOK'
  <2>1. \A p \in peeked : p.key \in IDs
    BY <1>1, ClientParams DEF PeekOK, PeekedOK, Peek
  <2>2. benchMode => peeked = {}
    BY <1>1 DEF PeekOK, AckOK
  <2>3. \A p \in peeked : Gone(p.key) => Gone(p.key)'
    BY <1>8, <1>11, <2>1, <2>2 DEF Gone
  <2>4. QED
    BY <1>1, <1>2, <2>1, <2>3, PeekRest
<1>13. AckOK'
  <2>1. ackCount' = Cardinality(HandledPairs')
    BY <1>1, <1>2, AckCounted
  <2>2. \A id \in IDs : ackInFlight'[id] <= ackIssued'[id]
    BY <1>2, <1>4, <1>5
  <2>3. \A id \in IDs : ackIssued'[id] > 0 => accepted'[id] # None
    BY <1>1, <1>2 DEF AckOK
  <2>4. ackID' # None <=> ackPC' \in {"delete", "insert"}
    BY <1>2, <1>3, <1>4
  <2>5. ackID' # None => ackIssued'[ackID'] > ackInFlight'[ackID'] /\ ~benchMode'
    <3>1. ackIssued[k] > ackInFlight'[k]
      BY <1>4, <1>5
    <3>2. QED
      BY <1>2, <1>4, <3>1
  <2>6. /\ benchMode' => dmnPC' = "done"
        /\ \A d \in datagrams' : d.data = d.id \/ accepted'[d.id] # None
    BY <1>1, <1>2 DEF AckOK
  <2>7. QED
    BY <2>1, <2>2, <2>3, <2>4, <2>5, <2>6 DEF AckOK
<1>14. RetryBudget' /\ PayloadIntact'
  BY <1>1, <1>2 DEF RetryBudget, PayloadIntact
<1>15. ForgottenForAnother'
  <2>1. CASE benchMode
    BY <1>2, <2>1 DEF ForgottenForAnother
  <2>2. CASE ~benchMode
    <3>1. \A id \in IDs : HasStatus(id)' <=> HasStatus(id)
      BY <1>2 DEF HasStatus
    <3>2. GivenUp' = GivenUp
      BY <1>2 DEF GivenUp
    <3>3. \A id \in IDs : id # ackID
      BY <1>3, <1>4
    <3>4. QED
      BY <1>1, <1>2, <1>8, <1>11, <2>2, <3>1, <3>2, <3>3, CaresOn
  <2>3. QED
    BY <2>1, <2>2
<1>16. QED
  BY <1>6, <1>7, <1>9, <1>10, <1>12, <1>13, <1>14, <1>15 DEF ClientInv

\* The key of the ACK goes from all layers, and its ACK counts as handled.
LEMMA AckDeleteInv ==
  ASSUME ClientInv, AckDelete
  PROVE  ClientInv'
<1>1. /\ Plain /\ LinesOK /\ GenOK /\ CacheOK /\ PeekOK /\ AckOK
      /\ RetryBudget /\ PayloadIntact /\ ForgottenForAnother
  BY DEF ClientInv
<1>2. /\ ackPC = "delete" /\ ackPC' = "insert" /\ Delete(ackID)
      /\ UNCHANGED <<benchMode, nextID, buffer, genPC, genID, ackID, ackOut, ackCount,
                     dmnPC, peeked, dmnData, dmnWake, dmnOut, lostCount, reportedLost, runPC,
                     datagrams, transmitted, accepted, ackIssued, ackInFlight, printed>>
  BY DEF AckDelete, orderVars, genVars, dmnVars, netVars, serverVars
<1>3. /\ ackID \in IDs /\ ackIssued[ackID] > ackInFlight[ackID] /\ ~benchMode
      /\ \A id \in IDs : ackIssued[id] \in Nat /\ ackInFlight[id] \in Nat
  <2>1. ackID # None
    BY <1>1, <1>2 DEF AckOK
  <2>2. \A n \in 0..MaxAcks : n \in Nat
    BY ClientParams
  <2>3. QED
    BY <1>1, <2>1, <2>2 DEF Plain, AckOK
<1>4. /\ LayersAre(layers') /\ Items' = {q \in Items : q.key # ackID}
      /\ \A i \in Layer, x \in IDs :
            x # ackID /\ HeadIs(layers[i], x) => HeadIs(layers'[i], x)
  BY <1>1, <1>2, <1>3, ItemsDelete DEF CacheOK, Items
<1>5. Registered' = Registered \ {ackID} /\ PeekKeys' = PeekKeys /\ Held' \subseteq Held
  <2>1. Registered = {q.key : q \in Items} /\ Registered' = {q.key : q \in Items'}
    BY <1>1, <1>4, RegisteredIs DEF CacheOK, Items
  <2>2. Registered' = Registered \ {ackID}
    BY <2>1, <1>4
  <2>3. PeekKeys' = PeekKeys
    BY <1>2 DEF PeekKeys
  <2>4. QED
    BY <2>2, <2>3 DEF Held
<1>6. \A id \in IDs : /\ AcksHandled(id) \in Int
                      /\ AcksHandled(id)' = AcksHandled(id) + IF id = ackID THEN 1 ELSE 0
  BY <1>2, <1>3 DEF AcksHandled
<1>7. AcksHandled(ackID)' > 0
  BY <1>2, <1>3 DEF AcksHandled
<1>8. Plain'
  BY <1>1, <1>2 DEF Plain
<1>9. LinesOK'
  BY <1>1, <1>2, LinesRest
<1>10. GenOK'
  BY <1>1, <1>2, <1>5, GenRest
<1>11. CacheOK'
  <2>1. Resending' = Resending
    BY <1>2, <1>5 DEF Resending
  <2>2. \A q \in Items : ItemOK(q) => ItemOK(q)'
    BY <1>2, <2>1 DEF ItemOK
  <2>3. Items' \subseteq Items
    BY <1>4
  <2>4. QED
    BY <1>1, <1>4, <2>2, <2>3 DEF CacheOK
<1>12. PeekOK'
  <2>1. \A p \in peeked : p.key \in IDs /\ p.layer \in Layer
    BY <1>1, ClientParams DEF PeekOK, PeekedOK, Peek
  <2>2. Gone(ackID)'
    BY <1>2, <1>5, <1>7 DEF Gone
  <2>3. \A p \in peeked : Gone(p.key) => Gone(p.key)'
    BY <1>5, <1>6, <2>1 DEF Gone
  <2>4. ASSUME NEW p \in peeked, HeadIs(layers[p.layer], p.key)
        PROVE  HeadIs(layers'[p.layer], p.key) \/ Gone(p.key)'
    <3>1. CASE p.key = ackID
      <4>1. p.key \notin Registered' /\ AcksHandled(p.key)' > 0
        BY <3>1, <1>2, <1>5, <1>7 DEF AcksHandled
      <4>2. QED
        BY <4>1 DEF Gone
    <3>2. CASE p.key # ackID
      BY <3>2, <2>1, <2>4, <1>4
    <3>3. QED
      BY <3>1, <3>2
  <2>5. QED
    BY <1>1, <1>2, <2>3, <2>4, PeekRest
<1>13. AckOK'
  <2>1. HandledPairs' = HandledPairs
    BY <1>2 DEF HandledPairs
  <2>2. QED
    BY <1>1, <1>2, <2>1 DEF AckOK
<1>14. RetryBudget' /\ PayloadIntact'
  BY <1>1, <1>2 DEF RetryBudget, PayloadIntact
<1>15. ForgottenForAnother'
  <2>1. GivenUp' = GivenUp /\ \A id \in IDs : HasStatus(id)' <=> HasStatus(id)
    BY <1>2 DEF GivenUp, HasStatus
  <2>2. ASSUME NEW id \in IDs, Cared(id) PROVE Cared(id)'
    <3>1. CASE id = ackID
      BY <3>1, <1>2 DEF Cared, Tended
    <3>2. CASE id # ackID
      <4>1. id \in Registered => id \in Registered'
        BY <3>2, <1>5
      <4>2. QED
        BY <1>2, <2>1, <2>2, <4>1 DEF Cared, Tended
    <3>3. QED
      BY <3>1, <3>2
  <2>3. ASSUME NEW o \in IDs, Witness(o) PROVE Witness(o)'
    <3>1. AcksHandled(o) > 0 /\ ~benchMode
      BY <2>3 DEF Witness, AckHandled
    <3>2. CASE o = ackID
      <4>1. AcksHandled(o)' > 1
        BY <3>1, <3>2, <1>6
      <4>2. QED
        BY <1>2, <3>1, <4>1, <1>6 DEF Witness, AckHandled
    <3>3. CASE o # ackID
      <4>1. AcksHandled(o)' = AcksHandled(o) /\ (o \in Registered => o \in Registered')
        BY <3>3, <1>5, <1>6
      <4>2. QED
        BY <1>2, <2>1, <2>3, <4>1 DEF Witness, AckHandled
    <3>4. QED
      BY <3>2, <3>3
  <2>4. QED
    BY <1>1, <1>2, <2>2, <2>3, ForgottenStep
<1>16. QED
  BY <1>8, <1>9, <1>10, <1>11, <1>12, <1>13, <1>14, <1>15 DEF ClientInv

\* The receiver inserts the OK of a packet.
LEMMA AckInsertInv ==
  ASSUME ClientInv, AckInsert
  PROVE  ClientInv'
<1> DEFINE line == Line(ackID, "OK")
<1>1. /\ Plain /\ LinesOK /\ GenOK /\ CacheOK /\ PeekOK /\ AckOK
      /\ RetryBudget /\ PayloadIntact /\ ForgottenForAnother
  BY DEF ClientInv
<1>2. /\ ackPC = "insert" /\ OB!InsertBody(ackID, line) /\ ackOut' = OB!Batch(ackID, line)
      /\ ackPC' = (IF ackOut' = <<>> THEN "receive" ELSE "print") /\ ackID' = None
      /\ UNCHANGED <<benchMode, layers, genPC, genID, ackCount,
                     dmnPC, peeked, dmnData, dmnWake, dmnOut, lostCount, reportedLost, runPC,
                     datagrams, transmitted, accepted, ackIssued, ackInFlight, printed>>
  BY DEF AckInsert, cacheVars, genVars, dmnVars, netVars, serverVars
<1>3. ackID \in IDs
  BY <1>1, <1>2 DEF Plain, AckOK
<1>4. line \in Lines /\ line.id = ackID
  BY <1>3 DEF Line, Lines
<1> HIDE DEF line
<1>5. LinesOK' /\ \A k \in IDs : HasStatus(k)' <=> HasStatus(k) \/ k = ackID
  <2>1. /\ ackOut = <<>> /\ dmnOut' = dmnOut /\ printed' = printed
        /\ (ackPC' = "print" <=> ackOut' # <<>>) /\ (dmnPC' = "print" <=> dmnPC = "print")
    BY <1>1, <1>2 DEF LinesOK
  <2>2. QED
    BY <1>1, <1>2, <1>3, <1>4, <2>1, LinesAppear
<1>6. Plain'
  BY <1>1, <1>2 DEF Plain
<1>7. Registered' = Registered /\ Items' = Items /\ PeekKeys' = PeekKeys /\ Held' = Held
  BY <1>2 DEF Registered, Items, PeekKeys, Held
<1>8. GenOK'
  BY <1>1, <1>2, <1>7, GenRest
<1>9. CacheOK'
  <2>1. Resending' = Resending
    BY <1>2, <1>7 DEF Resending
  <2>2. LayersAre(layers')
    BY <1>1, <1>2 DEF CacheOK
  <2>3. QED
    BY <1>1, <1>2, <1>7, <2>1, <2>2, CacheRest
<1>10. \A id \in IDs : AcksHandled(id)' = AcksHandled(id)
  <2>1. ackPC # "delete" /\ ackPC' # "delete"
    BY <1>2
  <2>2. QED
    BY <1>2, <2>1 DEF AcksHandled
<1>11. PeekOK'
  <2>1. \A p \in peeked : p.key \in IDs
    BY <1>1, ClientParams DEF PeekOK, PeekedOK, Peek
  <2>2. \A p \in peeked : Gone(p.key) => Gone(p.key)'
    BY <1>7, <1>10, <2>1 DEF Gone
  <2>3. QED
    BY <1>1, <1>2, <2>1, <2>2, PeekRest
<1>12. AckOK'
  <2>1. HandledPairs' = HandledPairs
    BY <1>2 DEF HandledPairs
  <2>2. ackPC' \notin {"delete", "insert"}
    BY <1>2
  <2>3. QED
    BY <1>1, <1>2, <2>1, <2>2 DEF AckOK
<1>13. RetryBudget' /\ PayloadIntact'
  BY <1>1, <1>2 DEF RetryBudget, PayloadIntact
<1>14. ForgottenForAnother'
  <2>1. GivenUp' = GivenUp
    BY <1>2 DEF GivenUp
  <2>2. QED
    BY <1>1, <1>2, <1>5, <1>7, <1>10, <2>1, CaresOn
<1>15. QED
  BY <1>5, <1>6, <1>8, <1>9, <1>11, <1>12, <1>13, <1>14 DEF ClientInv

-----------------------------------------------------------------------------
(* retransmitterDaemon and the time *)

\* The scan returns the tail of a layer.
LEMMA ScanIs ==
  ASSUME LayersAre(layers), FoundExpired
  PROVE  \E i \in Layer : /\ layers[i] # <<>>
                          /\ PeekExpiredScan = [key |-> Head(layers[i]).key, layer |-> i]
<1> DEFINE i == Min(ExpiredTails)
<1>1. ExpiredTails \subseteq Nat /\ ExpiredTails # {}
  BY ClientParams DEF ExpiredTails, FoundExpired
<1>2. \E m \in ExpiredTails : \A k \in ExpiredTails : m <= k
  BY <1>1, LeastNatural
<1>3. i \in ExpiredTails
  BY <1>2 DEF Min
<1>4. PeekExpiredScan = [key |-> Head(layers[i]).key, layer |-> i]
  BY DEF PeekExpiredScan
<1> HIDE DEF i
<1>5. i \in Layer /\ layers[i] # <<>>
  BY <1>3 DEF ExpiredTails
<1>6. QED
  BY <1>4, <1>5

\* The daemon peeks the expired tail of a layer.
LEMMA DmnFoundInv ==
  ASSUME ClientInv, DmnScan, dmnPC' = "promote"
  PROVE  ClientInv'
<1>1. /\ Plain /\ LinesOK /\ GenOK /\ CacheOK /\ PeekOK /\ AckOK
      /\ RetryBudget /\ PayloadIntact /\ ForgottenForAnother
  BY DEF ClientInv
<1>2. /\ dmnPC = "scan" /\ FoundExpired /\ peeked' = {PeekExpiredScan}
      /\ UNCHANGED <<benchMode, layers, nextID, buffer, genPC, genID, ackPC, ackID, ackOut,
                     ackCount, dmnData, dmnWake, dmnOut, lostCount, reportedLost, runPC,
                     datagrams, transmitted, accepted, ackIssued, ackInFlight, printed>>
  BY DEF DmnScan, cacheVars, orderVars, genVars, ackVars, netVars, serverVars
<1>3. PICK i \in Layer : /\ layers[i] # <<>>
                         /\ PeekExpiredScan = [key |-> Head(layers[i]).key, layer |-> i]
  BY <1>1, <1>2, ScanIs DEF CacheOK
<1> DEFINE k == Head(layers[i]).key
           v == Head(layers[i]).value
           p == [key |-> k, layer |-> i]
           q == [layer |-> i, key |-> k, value |-> v]
<1>4. k \in IDs /\ q \in Items /\ i \in Nat
  BY <1>1, <1>3, HeadItem, ClientParams DEF CacheOK, Items
<1>5. peeked' = {p}
  BY <1>2, <1>3
<1>6. transmitted[k] \in 1..i+1 /\ k \in Registered
  <2>1. Resending = {}
    BY <1>2 DEF Resending
  <2>2. ItemOK(q) /\ q.key = k /\ q.layer = i
    BY <1>1, <1>4 DEF CacheOK
  <2>3. transmitted[k] \in 1..i+1
    BY <2>1, <2>2 DEF ItemOK
  <2>4. k \in Registered
    BY <1>1, <1>4, <2>2, RegisteredIs DEF CacheOK
  <2>5. QED
    BY <2>3, <2>4
<1>7. ASSUME NEW r, r = p PROVE PeekedOK(r)'
  <2>1. r \in Peek /\ r.key = k /\ r.layer = i
    BY <1>4, <1>7, ClientParams DEF Peek
  <2>2. HeadIs(layers'[r.layer], r.key)
    BY <1>2, <1>3, <2>1 DEF HeadIs
  <2> HIDE DEF k, p
  <2>3. QED
    BY <1>2, <1>6, <2>1, <2>2 DEF PeekedOK
<1> HIDE DEF q, v
<1>8. Registered' = Registered /\ Items' = Items /\ PeekKeys' = {k} /\ Held' \subseteq Held
  <2>1. Registered' = Registered /\ Items' = Items
    BY <1>2 DEF Registered, Items
  <2>2. PeekKeys' = {k}
    BY <1>5 DEF PeekKeys
  <2>3. QED
    BY <1>6, <2>1, <2>2 DEF Held
<1> HIDE DEF k, p
<1>9. Plain'
  BY <1>1, <1>2 DEF Plain
<1>10. LinesOK'
  BY <1>1, <1>2, LinesRest
<1>11. GenOK'
  BY <1>1, <1>2, <1>8, GenRest
<1>12. CacheOK'
  <2>1. Resending' = {}
    BY DEF Resending
  <2>2. LayersAre(layers')
    BY <1>1, <1>2 DEF CacheOK
  <2>3. QED
    BY <1>1, <1>2, <1>8, <2>1, <2>2, CacheRest
<1>13. PeekOK'
  <2>1. ASSUME NEW r \in peeked' PROVE PeekedOK(r)'
    BY <1>5, <1>7, <2>1
  <2>2. QED
    BY <1>5, <2>1 DEF PeekOK
<1>14. AckOK'
  <2>1. ~benchMode
    BY <1>1, <1>2 DEF AckOK
  <2>2. QED
    BY <1>1, <1>2, <2>1, AckRest
<1>15. RetryBudget' /\ PayloadIntact'
  BY <1>1, <1>2 DEF RetryBudget, PayloadIntact
<1>16. ForgottenForAnother'
  <2>1. GivenUp' = GivenUp
    BY <1>2 DEF GivenUp
  <2>2. \A id \in IDs : (HasStatus(id)' <=> HasStatus(id)) /\ AcksHandled(id)' = AcksHandled(id)
    BY <1>2 DEF HasStatus, AcksHandled
  <2>3. QED
    BY <1>1, <1>2, <1>8, <2>1, <2>2, CaresOn
<1>17. QED
  BY <1>9, <1>10, <1>11, <1>12, <1>13, <1>14, <1>15, <1>16 DEF ClientInv

\* The daemon counts the packet it has given up and reports it.
LEMMA DmnLostInv ==
  ASSUME ClientInv, DmnLost
  PROVE  ClientInv'
<1>1. /\ Plain /\ LinesOK /\ GenOK /\ CacheOK /\ PeekOK /\ AckOK
      /\ RetryBudget /\ PayloadIntact /\ ForgottenForAnother
  BY DEF ClientInv
<1>2. PICK p \in peeked : /\ OB!InsertBody(p.key, Line(p.key, "LOST"))
                          /\ dmnOut' = OB!Batch(p.key, Line(p.key, "LOST"))
                          /\ reportedLost' = reportedLost \cup {p.key}
  BY DEF DmnLost
<1>3. /\ dmnPC = "lost" /\ lostCount' = lostCount + 1
      /\ dmnPC' = (IF dmnOut' = <<>> THEN "scan" ELSE "print") /\ peeked' = {}
      /\ UNCHANGED <<benchMode, layers, genPC, genID, ackPC, ackID, ackOut, ackCount,
                     dmnData, dmnWake, runPC,
                     datagrams, transmitted, accepted, ackIssued, ackInFlight, printed>>
  BY DEF DmnLost, cacheVars, genVars, ackVars, netVars, serverVars
<1> DEFINE k == p.key
           line == Line(k, "LOST")
<1>4. k \in IDs /\ peeked = {p}
  BY <1>1, ClientParams DEF PeekOK, PeekedOK, Peek
<1>5. line \in Lines /\ line.id = k
  BY <1>4 DEF Line, Lines
<1>6. OB!InsertBody(k, line) /\ dmnOut' = OB!Batch(k, line) /\ reportedLost' = reportedLost \cup {k}
  BY <1>2
<1>7. PeekKeys = {k} /\ PeekKeys' = {}
  BY <1>3, <1>4 DEF PeekKeys
<1> HIDE DEF k, line
<1>8. LinesOK' /\ \A id \in IDs : HasStatus(id)' <=> HasStatus(id) \/ id = k
  <2>1. /\ dmnOut = <<>> /\ ackOut' = ackOut /\ printed' = printed
        /\ (dmnPC' = "print" <=> dmnOut' # <<>>) /\ (ackPC' = "print" <=> ackPC = "print")
    BY <1>1, <1>3 DEF LinesOK
  <2>2. QED
    BY <1>1, <1>4, <1>5, <1>6, <2>1, LinesAppear
<1>9. Plain'
  <2>1. reportedLost' \subseteq IDs /\ lostCount' \in Nat
    BY <1>1, <1>3, <1>4, <1>6 DEF Plain
  <2>2. QED
    BY <1>1, <1>3, <2>1 DEF Plain
<1>10. Registered' = Registered /\ Items' = Items /\ Held' \subseteq Held
  BY <1>3, <1>7 DEF Registered, Items, Held
<1>11. GenOK'
  BY <1>1, <1>3, <1>10, GenRest
<1>12. CacheOK'
  <2>1. Resending' = {}
    BY <1>3 DEF Resending
  <2>2. LayersAre(layers')
    BY <1>1, <1>3 DEF CacheOK
  <2>3. QED
    BY <1>1, <1>3, <1>10, <2>1, <2>2, CacheRest
<1>13. PeekOK'
  BY <1>3 DEF PeekOK
<1>14. AckOK'
  <2>1. ~benchMode
    BY <1>1, <1>3 DEF AckOK
  <2>2. QED
    BY <1>1, <1>3, <2>1, AckRest
<1>15. RetryBudget' /\ PayloadIntact'
  BY <1>1, <1>3 DEF RetryBudget, PayloadIntact
<1>16. ForgottenForAnother'
  <2>1. GivenUp \subseteq GivenUp'
    <3>1. GivenUp = reportedLost \cup {k}
      BY <1>3, <1>7 DEF GivenUp, PeekKeys
    <3>2. QED
      BY <3>1, <1>6 DEF GivenUp
  <2>2. \A id \in IDs : AcksHandled(id)' = AcksHandled(id)
    BY <1>3 DEF AcksHandled
  <2>3. QED
    BY <1>1, <1>3, <1>8, <1>10, <2>1, <2>2, CaresOn
<1>17. QED
  BY <1>8, <1>9, <1>11, <1>12, <1>13, <1>14, <1>15, <1>16 DEF ClientInv

\* A unit of time passes.
LEMMA TimeInv ==
  ASSUME ClientInv, TimePasses
  PROVE  ClientInv'
<1>1. /\ Plain /\ LinesOK /\ GenOK /\ CacheOK /\ PeekOK /\ AckOK
      /\ RetryBudget /\ PayloadIntact /\ ForgottenForAnother
  BY DEF ClientInv
<1>2. /\ Tick /\ dmnWake' = (IF dmnWake > 0 THEN dmnWake - 1 ELSE 0)
      /\ UNCHANGED <<benchMode, nextID, buffer, genPC, genID, ackPC, ackID, ackOut, ackCount,
                     dmnPC, peeked, dmnData, dmnOut, lostCount, reportedLost, runPC,
                     datagrams, transmitted, accepted, ackIssued, ackInFlight, printed>>
  BY DEF TimePasses, orderVars, genVars, ackVars, netVars, serverVars
<1>3. /\ LayersAre(layers') /\ Items' = Items
      /\ \A i \in Layer, x \in IDs : HeadIs(layers[i], x) => HeadIs(layers'[i], x)
  BY <1>1, <1>2, ItemsTick DEF CacheOK, Items
<1>4. Registered' = Registered /\ PeekKeys' = PeekKeys /\ Held' = Held
  <2>1. Registered' = Registered
    BY <1>1, <1>3, RegisteredIs DEF CacheOK, Items
  <2>2. QED
    BY <1>2, <2>1 DEF PeekKeys, Held
<1>5. Plain'
  <2>1. dmnWake' \in 0..LongestTTL
    BY <1>1, <1>2, Longest DEF Plain
  <2>2. QED
    BY <1>1, <1>2, <2>1 DEF Plain
<1>6. LinesOK'
  BY <1>1, <1>2, LinesRest
<1>7. GenOK'
  BY <1>1, <1>2, <1>4, GenRest
<1>8. CacheOK'
  <2>1. Resending' = Resending
    BY <1>2, <1>4 DEF Resending
  <2>2. QED
    BY <1>1, <1>2, <1>3, <2>1, CacheRest
<1>9. \A id \in IDs : AcksHandled(id)' = AcksHandled(id)
  BY <1>2 DEF AcksHandled
<1>10. PeekOK'
  <2>1. \A p \in peeked : p.key \in IDs /\ p.layer \in Layer
    BY <1>1, ClientParams DEF PeekOK, PeekedOK, Peek
  <2>2. \A p \in peeked : Gone(p.key) => Gone(p.key)'
    BY <1>4, <1>9, <2>1 DEF Gone
  <2>3. QED
    BY <1>1, <1>2, <1>3, <2>1, <2>2, PeekRest
<1>11. AckOK'
  BY <1>1, <1>2, AckRest DEF AckOK
<1>12. RetryBudget' /\ PayloadIntact'
  BY <1>1, <1>2 DEF RetryBudget, PayloadIntact
<1>13. ForgottenForAnother'
  <2>1. GivenUp' = GivenUp /\ \A id \in IDs : HasStatus(id)' <=> HasStatus(id)
    BY <1>2 DEF GivenUp, HasStatus
  <2>2. QED
    BY <1>1, <1>2, <1>4, <1>9, <2>1, CaresOn
<1>14. QED
  BY <1>5, <1>6, <1>7, <1>8, <1>10, <1>11, <1>12, <1>13 DEF ClientInv

\* The daemon sends what it has promoted once more, unless Shutdown was faster.
LEMMA DmnResendInv ==
  ASSUME ClientInv, DmnResend
  PROVE  ClientInv'
<1>1. /\ Plain /\ LinesOK /\ GenOK /\ CacheOK /\ PeekOK /\ AckOK
      /\ RetryBudget /\ PayloadIntact /\ ForgottenForAnother
  BY DEF ClientInv
<1>2. PICK p \in peeked : Transmit(p.key, dmnData)
  BY DEF DmnResend
<1>3. /\ dmnPC = "resend" /\ dmnPC' = "scan" /\ peeked' = {} /\ dmnData' = None
      /\ UNCHANGED <<benchMode, layers, nextID, buffer, genPC, genID, ackPC, ackID, ackOut,
                     ackCount, dmnWake, dmnOut, lostCount, reportedLost, runPC,
                     accepted, ackIssued, ackInFlight, printed>>
  BY DEF DmnResend, cacheVars, orderVars, genVars, ackVars, serverVars
<1> DEFINE k == p.key
           i == p.layer
<1>4. /\ k \in IDs /\ i \in Nat /\ PeekKeys = {k} /\ PeekKeys' = {}
      /\ transmitted[k] \in 1..i+1 /\ i + 1 < NumLayers /\ NumLayers \in Nat
      /\ dmnData \in IDs /\ (dmnData = k \/ accepted[k] # None)
  <2>1. PeekedOK(p) /\ peeked = {p}
    BY <1>1 DEF PeekOK
  <2>2. k \in IDs /\ i \in Nat /\ NumLayers \in Nat
    BY <2>1, ClientParams DEF PeekedOK, Peek
  <2>3. PeekKeys = {k} /\ PeekKeys' = {}
    BY <1>3, <2>1 DEF PeekKeys
  <2>4. QED
    BY <1>3, <2>1, <2>2, <2>3 DEF PeekedOK
<1>5. /\ datagrams' \subseteq datagrams \cup {[id |-> k, data |-> dmnData]}
      /\ transmitted' \in [IDs -> Nat]
      /\ \A id \in IDs : id # k => transmitted'[id] = transmitted[id]
      /\ transmitted'[k] = transmitted[k] \/ transmitted'[k] = transmitted[k] + 1
  <2>1. transmitted \in [IDs -> Nat] /\ Transmit(k, dmnData)
    BY <1>1, <1>2 DEF Plain
  <2>2. CASE Open
    BY <1>4, <2>1, <2>2 DEF Transmit
  <2>3. CASE ~Open
    BY <1>4, <2>1, <2>3 DEF Transmit, netVars
  <2>4. QED
    BY <2>2, <2>3
<1> HIDE DEF k, i
<1>6. Plain'
  <2>1. datagrams' \subseteq [id : IDs, data : IDs]
    BY <1>1, <1>4, <1>5 DEF Plain
  <2>2. dmnData' \in {None} \cup IDs /\ transmitted' \in [IDs -> Nat]
    BY <1>3, <1>5
  <2>3. QED
    BY <1>1, <1>3, <2>1, <2>2 DEF Plain
<1>7. LinesOK'
  BY <1>1, <1>3, LinesRest
<1>8. Registered' = Registered /\ Items' = Items /\ k \in Held /\ Held' \subseteq Held
  BY <1>3, <1>4 DEF Registered, Items, Held
<1>9. GenOK'
  <2>1. \A h \in Generators : Due(h)' = Due(h) /\ \A id \in IDs : SentBy(h, id)' = SentBy(h, id)
    BY <1>3 DEF Due, SentBy
  <2>2. \A h, j \in Generators : h # j => Due(h)' \cap Due(j)' = {}
    BY <1>1, <2>1 DEF GenOK
  <2>3. ASSUME NEW h \in Generators, NEW id \in Due(h)' \cap IDs
        PROVE  transmitted'[id] = SentBy(h, id)'
    <3>1. id \in IDs /\ transmitted[id] = SentBy(h, id)
      BY <1>1, <2>1, <2>3 DEF GenOK
    <3>2. id # k
      <4>1. SUFFICES ASSUME id = k PROVE FALSE
        OBVIOUS
      <4>2. transmitted[k] # 0
        BY <1>4
      <4>3. genID[h] = k /\ genPC[h] = "register"
        BY <3>1, <4>1, <4>2 DEF SentBy
      <4>4. QED
        BY <1>1, <1>8, <4>3 DEF GenOK
    <3>3. QED
      BY <1>5, <2>1, <3>1, <3>2
  <2>4. \A h \in Generators : genPC'[h] = "register" =>
           genID'[h] \in IDs /\ genID'[h] \notin Held' /\ ~benchMode'
    BY <1>1, <1>3, <1>8 DEF GenOK
  <2>5. QED
    BY <2>2, <2>3, <2>4 DEF GenOK
<1>10. CacheOK'
  <2>1. Resending = {k} /\ Resending' = {}
    BY <1>3, <1>4 DEF Resending
  <2>2. \A q \in Items : q.key \in IDs /\ q.layer \in Nat
    BY ItemTypes
  <2>3. ASSUME NEW q \in Items PROVE ItemOK(q)'
    <3>1. ItemOK(q)
      BY <1>1 DEF CacheOK
    <3>2. CASE q.key = k
      <4>1. transmitted[k] \in 1..q.layer
        BY <2>1, <3>1, <3>2 DEF ItemOK
      <4>2. transmitted'[k] \in 1..q.layer+1
        BY <1>5, <2>2, <4>1
      <4>3. QED
        BY <1>3, <2>1, <3>1, <3>2, <4>2 DEF ItemOK
    <3>3. CASE q.key # k
      BY <1>3, <1>5, <2>1, <2>2, <3>1, <3>3 DEF ItemOK
    <3>4. QED
      BY <3>2, <3>3
  <2>4. LayersAre(layers')
    BY <1>1, <1>3 DEF CacheOK
  <2>5. QED
    BY <1>1, <1>8, <2>3, <2>4 DEF CacheOK
<1>11. PeekOK'
  BY <1>3 DEF PeekOK
<1>12. AckOK'
  <2>1. ~benchMode
    BY <1>1, <1>3 DEF AckOK
  <2>2. \A d \in datagrams' : d \in datagrams \/ d.data = d.id \/ accepted[d.id] # None
    BY <1>4, <1>5
  <2>3. QED
    BY <1>1, <1>3, <2>1, <2>2, AckRest
<1>13. RetryBudget'
  <2>1. transmitted'[k] <= NumLayers
    BY <1>4, <1>5
  <2>2. QED
    BY <1>1, <1>5, <2>1 DEF RetryBudget
<1>14. PayloadIntact'
  BY <1>1, <1>3 DEF PayloadIntact
<1>15. ForgottenForAnother'
  <2>1. GivenUp \subseteq GivenUp'
    BY <1>3 DEF GivenUp
  <2>2. \A id \in IDs : (HasStatus(id)' <=> HasStatus(id)) /\ AcksHandled(id)' = AcksHandled(id)
    BY <1>3 DEF HasStatus, AcksHandled
  <2>3. transmitted[k] > 0
    BY <1>4
  <2>4. \A id \in IDs : transmitted'[id] > 0 => transmitted[id] > 0
    BY <1>5, <2>3
  <2>5. QED
    BY <1>1, <1>3, <1>8, <2>1, <2>2, <2>4, CaresOn
<1>16. QED
  BY <1>6, <1>7, <1>9, <1>10, <1>11, <1>12, <1>13, <1>14, <1>15 DEF ClientInv

\* What a promotion does, if the peek is still right or an ACK has come.
LEMMA PromoteIs ==
  ASSUME CacheOK, PeekOK, AckOK, Plain, dmnPC = "promote",
         NEW p \in peeked, PromoteLayer(p.key, p.layer),
         NEW new, new = [layer |-> p.layer + 1, key |-> p.key, value |-> PromotedValue(p.layer)]
  PROVE  /\ LayersAre(layers')
         /\ \A q \in Items' : (q \in Items /\ q.key # p.key) \/ (PromoteAlive(p.layer) /\ q = new)
         /\ \A q \in Items : q \in Items' \/ q.key = p.key \/ Gone(p.key)
         /\ PromoteAlive(p.layer) =>
              /\ new \in Items' /\ p.layer + 1 < NumLayers /\ PromotedValue(p.layer) \in IDs
              /\ PromotedValue(p.layer) = p.key \/ accepted[p.key] # None
<1> DEFINE k == p.key
           i == p.layer
           h == Head(layers[i]).key
           v == PromotedValue(i)
           head == [layer |-> i, key |-> h, value |-> v]
<1>1. /\ LayersAre(layers) /\ \A q, r \in Items : q.key = r.key => q.layer = r.layer
      /\ \A q \in Items : ItemOK(q)
  BY DEF CacheOK
<1>2. k \in IDs /\ i \in Layer /\ i \in Nat /\ (HeadIs(layers[i], k) \/ Gone(k))
  BY ClientParams DEF PeekOK, PeekedOK, Peek
<1>3. Registered = {q.key : q \in Items}
  BY <1>1, RegisteredIs
<1>4. Gone(k) => accepted[k] # None
  <2>1. SUFFICES ASSUME Gone(k) PROVE accepted[k] # None
    OBVIOUS
  <2>2. ackIssued[k] \in Nat /\ ackInFlight[k] \in Nat
    <3>1. ackIssued[k] \in 0..MaxAcks /\ ackInFlight[k] \in 0..MaxAcks
      BY <1>2 DEF Plain
    <3>2. QED
      BY <3>1, ClientParams
  <2>3. ackIssued[k] > 0
    BY <2>1, <2>2 DEF Gone, AcksHandled
  <2>4. QED
    BY <1>2, <2>3 DEF AckOK
<1>5. CASE layers[i] = <<>>
  <2>1. layers' = layers
    BY <1>5 DEF PromoteLayer
  <2>2. Items' = Items /\ ~PromoteAlive(i) /\ Gone(k)
    BY <1>2, <1>5, <2>1 DEF Items, PromoteAlive, HeadIs
  <2>3. \A q \in Items : q.key # k
    BY <1>3, <2>2 DEF Gone
  <2>4. QED
    BY <1>1, <2>1, <2>2, <2>3
<1>6. CASE layers[i] # <<>>
  <2>1. head \in Items /\ v \in IDs
    BY <1>1, <1>2, <1>6, HeadItem DEF Items, PromotedValue
  <2>2. \A q \in Items : q.key = k => q.layer = i /\ h = k
    <3>1. CASE HeadIs(layers[i], k)
      BY <1>1, <2>1, <3>1 DEF HeadIs
    <3>2. CASE Gone(k)
      BY <1>3, <3>2 DEF Gone
    <3>3. QED
      BY <1>2, <3>1, <3>2
  <2>3. /\ LayersAre(layers')
        /\ \A q \in Item : q \in Items' <=>
               \/ q \in Items /\ (q.layer # i \/ q.key # h)
               \/ i + 1 < NumLayers /\ q = [layer |-> i + 1, key |-> k, value |-> v]
    BY <1>1, <1>2, <1>6, <2>2, ItemsPromote DEF Items
  <2>4. PromoteAlive(i) <=> i + 1 < NumLayers
    BY <1>6 DEF PromoteAlive
  <2>5. \A q \in Items' : (q \in Items /\ q.key # k) \/ (PromoteAlive(i) /\ q = new)
    BY <2>2, <2>3, <2>4, ItemTypes
  <2>6. ASSUME NEW q \in Items PROVE q \in Items' \/ q.key = k \/ Gone(k)
    <3>1. CASE HeadIs(layers[i], k)
      <4>1. h = k
        BY <3>1 DEF HeadIs
      <4>2. QED
        BY <2>3, <4>1, ItemTypes
    <3>2. QED
      BY <1>2, <3>1
  <2>7. ASSUME PromoteAlive(i) PROVE new \in Items'
    <3>1. i + 1 \in Layer
      BY <1>2, <2>4, <2>7, ClientParams DEF Layer
    <3>2. new \in Item
      BY <1>2, <2>1, <3>1 DEF Item
    <3>3. QED
      BY <2>3, <2>4, <2>7, <3>2
  <2>8. v = k \/ accepted[k] # None
    <3>1. CASE HeadIs(layers[i], k)
      <4>1. h = k /\ ItemOK(head)
        BY <1>1, <2>1, <3>1 DEF HeadIs
      <4>2. QED
        BY <4>1 DEF ItemOK
    <3>2. QED
      BY <1>2, <1>4, <3>1
  <2>9. QED
    BY <2>1, <2>3, <2>4, <2>5, <2>6, <2>7, <2>8
<1>7. QED
  BY <1>5, <1>6

\* A promotion under the key of the peek.
LEMMA DmnPromoteInv ==
  ASSUME ClientInv, DmnPromote
  PROVE  ClientInv'
<1>1. /\ Plain /\ LinesOK /\ GenOK /\ CacheOK /\ PeekOK /\ AckOK
      /\ RetryBudget /\ PayloadIntact /\ ForgottenForAnother
  BY DEF ClientInv
<1>2. PICK p \in peeked :
         /\ PromoteLayer(p.key, p.layer)
         /\ IF PromoteAlive(p.layer)
            THEN dmnPC' = "resend" /\ dmnData' = PromotedValue(p.layer)
            ELSE dmnPC' = "lost" /\ dmnData' = dmnData
  BY DEF DmnPromote
<1>3. /\ dmnPC = "promote"
      /\ UNCHANGED <<benchMode, nextID, buffer, genPC, genID, ackPC, ackID, ackOut, ackCount,
                     peeked, dmnWake, dmnOut, lostCount, reportedLost, runPC,
                     datagrams, transmitted, accepted, ackIssued, ackInFlight, printed>>
  BY DEF DmnPromote, orderVars, genVars, ackVars, netVars, serverVars
<1> DEFINE k == p.key
           i == p.layer
           v == PromotedValue(i)
           new == [layer |-> i + 1, key |-> k, value |-> v]
           alive == PromoteAlive(i)
<1>4. /\ LayersAre(layers')
      /\ \A q \in Items' : (q \in Items /\ q.key # k) \/ (alive /\ q = new)
      /\ \A q \in Items : q \in Items' \/ q.key = k \/ Gone(k)
      /\ alive => /\ new \in Items' /\ i + 1 < NumLayers /\ v \in IDs
                  /\ v = k \/ accepted[k] # None
  BY <1>1, <1>2, <1>3, PromoteIs
<1>5. /\ peeked = {p} /\ p \in Peek /\ k \in IDs /\ i \in Nat /\ transmitted[k] \in 1..i+1
      /\ PeekKeys = {k} /\ PeekKeys' = {k}
  <2>1. PeekedOK(p) /\ peeked = {p}
    BY <1>1 DEF PeekOK
  <2>2. k \in IDs /\ i \in Nat
    BY <2>1, ClientParams DEF PeekedOK, Peek
  <2>3. PeekKeys = {k} /\ PeekKeys' = {k}
    BY <1>3, <2>1 DEF PeekKeys
  <2>4. QED
    BY <2>1, <2>2, <2>3 DEF PeekedOK
<1>6. IF alive THEN dmnPC' = "resend" /\ dmnData' = v ELSE dmnPC' = "lost" /\ dmnData' = dmnData
  BY <1>2
<1>7. new.key = k /\ new.layer = i + 1 /\ new.value = v
  OBVIOUS
<1> HIDE DEF k, i, v, new, alive
<1>8. Registered = {q.key : q \in Items} /\ Registered' = {q.key : q \in Items'}
  BY <1>1, <1>4, RegisteredIs DEF CacheOK, Items
<1>9. Registered' \subseteq Registered \cup {k} /\ Held' \subseteq Held
  <2>1. Registered' \subseteq Registered \cup {k}
    BY <1>4, <1>7, <1>8
  <2>2. QED
    BY <1>5, <2>1 DEF Held
<1>10. Plain'
  BY <1>1, <1>3, <1>4, <1>6 DEF Plain
<1>11. LinesOK'
  <2>1. dmnPC' # "print"
    BY <1>6
  <2>2. QED
    BY <1>1, <1>3, <2>1, LinesRest
<1>12. GenOK'
  BY <1>1, <1>3, <1>9, GenRest
<1>13. CacheOK'
  <2>1. Resending = {} /\ Resending' = IF alive THEN {k} ELSE {}
    BY <1>3, <1>5, <1>6 DEF Resending
  <2>2. ASSUME NEW q \in Items', NEW r \in Items', q.key = r.key PROVE q.layer = r.layer
    <3>1. CASE q.key = k
      BY <1>4, <2>2, <3>1
    <3>2. CASE q.key # k
      BY <1>1, <1>4, <1>7, <2>2, <3>2 DEF CacheOK
    <3>3. QED
      BY <3>1, <3>2
  <2>3. ASSUME NEW q \in Items' PROVE ItemOK(q)'
    <3>1. CASE q \in Items /\ q.key # k
      <4>1. ItemOK(q) /\ q.key \notin Resending /\ q.key \notin Resending'
        BY <1>1, <2>1, <3>1 DEF CacheOK
      <4>2. QED
        BY <1>3, <4>1 DEF ItemOK
    <3>2. CASE alive /\ q = new
      <4>1. q.key \in Resending' /\ q.layer = i + 1 /\ transmitted'[q.key] \in 1..q.layer
        BY <1>3, <1>5, <1>7, <2>1, <3>2
      <4>2. q.value = q.key \/ accepted'[q.key] # None
        BY <1>3, <1>4, <1>7, <3>2
      <4>3. QED
        BY <4>1, <4>2 DEF ItemOK
    <3>3. QED
      BY <1>4, <3>1, <3>2
  <2>4. QED
    BY <1>4, <2>2, <2>3 DEF CacheOK
<1>14. PeekOK'
  <2>1. ASSUME NEW r \in peeked' PROVE PeekedOK(r)'
    <3>1. r = p /\ r.key = k /\ r.layer = i
      BY <1>3, <1>5 DEF k, i
    <3>2. dmnPC' = "resend" => /\ i + 1 < NumLayers /\ dmnData' \in IDs
                               /\ dmnData' = k \/ accepted'[k] # None
      BY <1>3, <1>4, <1>6
    <3>3. dmnPC' # "promote" /\ transmitted'[k] \in 1..i+1 /\ r \in Peek
      BY <1>3, <1>5, <1>6, <3>1
    <3>4. QED
      BY <3>1, <3>2, <3>3 DEF PeekedOK
  <2>2. dmnPC' \in {"promote", "resend", "lost"} /\ peeked' # {}
    BY <1>3, <1>5, <1>6
  <2>3. QED
    BY <1>3, <1>5, <2>1, <2>2 DEF PeekOK
<1>15. AckOK'
  <2>1. ~benchMode
    BY <1>1, <1>3 DEF AckOK
  <2>2. QED
    BY <1>1, <1>3, <2>1, AckRest
<1>16. RetryBudget' /\ PayloadIntact'
  BY <1>1, <1>3 DEF RetryBudget, PayloadIntact
<1>17. ForgottenForAnother'
  <2>1. k \in Registered' \cup GivenUp' /\ GivenUp \subseteq GivenUp'
    <3>1. alive => k \in Registered'
      BY <1>4, <1>7, <1>8
    <3>2. ~alive => k \in GivenUp'
      BY <1>5, <1>6 DEF GivenUp, PeekKeys
    <3>3. GivenUp \subseteq GivenUp'
      BY <1>3 DEF GivenUp
    <3>4. QED
      BY <3>1, <3>2, <3>3
  <2>2. ~benchMode /\ benchMode' = benchMode
    BY <1>1, <1>3 DEF AckOK
  <2>3. \A id \in IDs : (HasStatus(id)' <=> HasStatus(id)) /\ AcksHandled(id)' = AcksHandled(id)
    BY <1>3 DEF HasStatus, AcksHandled
  <2>4. Gone(k) => Witness(k)'
    BY <1>5, <2>1, <2>2, <2>3 DEF Gone, Witness, AckHandled
  <2>5. \A id \in Registered : id \in Registered' \cup GivenUp' \/ Gone(k)
    BY <1>4, <1>8, <2>1
  <2>6. ASSUME NEW id \in IDs, Cared(id) PROVE Cared(id)' \/ \E o \in IDs : Witness(o)'
    <3>1. CASE id \in Registered
      BY <1>5, <2>4, <2>5, <3>1 DEF Cared, Tended
    <3>2. CASE id \notin Registered
      <4>1. Cared(id)'
        BY <1>3, <2>1, <2>3, <2>6, <3>2 DEF Cared, Tended
      <4>2. QED
        BY <4>1
    <3>3. QED
      BY <3>1, <3>2
  <2>7. ASSUME NEW o \in IDs, Witness(o) PROVE \E r \in IDs : Witness(r)'
    <3>1. CASE Gone(k)
      BY <1>5, <2>4, <3>1
    <3>2. CASE ~Gone(k)
      <4>1. Witness(o)'
        BY <2>1, <2>2, <2>3, <2>5, <2>7, <3>2 DEF Witness, AckHandled
      <4>2. QED
        BY <4>1
    <3>3. QED
      BY <3>1, <3>2
  <2>8. QED
    BY <1>1, <1>3, <2>2, <2>6, <2>7, ForgottenStep
<1>18. QED
  BY <1>10, <1>11, <1>12, <1>13, <1>14, <1>15, <1>16, <1>17 DEF ClientInv

-----------------------------------------------------------------------------
(* The start, every step, and the theorems *)

\* At the start nothing is sent; generator g owns the ids g+1, g+1+Workers, ...
LEMMA ClientStart == ClientInit => ClientInv
<1> SUFFICES ASSUME ClientInit PROVE ClientInv
  OBVIOUS
<1>1. /\ benchMode \in BOOLEAN /\ layers = [i \in Layer |-> <<>>] /\ nextID = 1
      /\ DOMAIN buffer = {}
      /\ genPC = [g \in Generators |-> "send"] /\ genID = [g \in Generators |-> g + 1]
      /\ ackPC = "receive" /\ ackID = None /\ ackOut = <<>>
      /\ dmnPC = (IF benchMode THEN "done" ELSE "scan") /\ peeked = {} /\ dmnData = None
      /\ dmnWake = 0 /\ dmnOut = <<>> /\ ackCount = 0 /\ lostCount = 0 /\ runPC = "generate"
      /\ datagrams = {} /\ transmitted = [id \in IDs |-> 0]
      /\ accepted = [id \in IDs |-> None]
      /\ ackIssued = [id \in IDs |-> 0] /\ ackInFlight = [id \in IDs |-> 0]
      /\ reportedLost = {} /\ printed = <<>>
  BY DEF ClientInit
<1>2. /\ NumLayers \in Nat \ {0} /\ Layer \subseteq Nat /\ 0 \in Layer
      /\ Workers \in Nat \ {0} /\ TotalPackets \in Nat /\ MaxAcks \in Nat
      /\ None = 0 /\ LongestTTL \in Nat
  BY ClientParams, Longest
<1>3. Plain
  <2>1. genID \in [Generators -> 1..TotalPackets+Workers]
    BY <1>1, <1>2 DEF Generators
  <2>2. ackIssued \in [IDs -> 0..MaxAcks] /\ ackInFlight \in [IDs -> 0..MaxAcks]
    BY <1>1, <1>2
  <2>3. dmnPC \in {"scan", "promote", "resend", "lost", "print", "deadline", "sleep", "done"}
    BY <1>1
  <2>4. QED
    BY <1>1, <1>2, <2>1, <2>2, <2>3 DEF Plain
<1>4. LinesOK
  <2>1. LineIDs(<<>>) = {}
    BY DEF LineIDs
  <2>2. printed \in Seq(Lines) /\ ackOut \in Seq(Lines) /\ dmnOut \in Seq(Lines) /\ Len(<<>>) = 0
    BY <1>1
  <2>3. 1..nextID-1 = {} /\ 0 = nextID - 1 /\ nextID \in 1..TotalPackets+1
    BY <1>1, <1>2
  <2>4. dmnPC # "print"
    BY <1>1
  <2>5. Len(printed) + Len(ackOut) + Len(dmnOut) = nextID - 1
    BY <1>1, <2>2
  <2>6. QED
    BY <1>1, <2>1, <2>2, <2>3, <2>4, <2>5 DEF LinesOK
<1>5. LayersAre(layers) /\ Items = {}
  <2>1. PairsOf(<<>>) = {} /\ IsLayer(<<>>)
    BY DEF PairsOf, IsLayer, KeysDiffer
  <2>2. LayersAre(layers)
    BY <1>1, <2>1 DEF LayersAre
  <2>3. \A q \in Item : q.layer \in Layer
    BY DEF Item
  <2>4. Items = {}
    BY <1>1, <2>1, <2>3 DEF Items, ItemsOf
  <2>5. QED
    BY <2>2, <2>4
<1>6. Registered = {} /\ Held = {}
  <2>1. Registered = {}
    BY <1>5, RegisteredIs
  <2>2. QED
    BY <1>1, <2>1 DEF Held, PeekKeys
<1>7. GenOK
  <2>1. ASSUME NEW g \in Generators, NEW h \in Generators, NEW c \in Nat, NEW d \in Nat,
               (g + 1) + c * Workers = (h + 1) + d * Workers
        PROVE  g = h
    <3>1. /\ g \in Int /\ h \in Int /\ 0 <= g /\ g < Workers /\ 0 <= h /\ h < Workers
          /\ c * Workers \in Int /\ d * Workers \in Int
      BY <1>2 DEF Generators
    <3>2. CASE c = d
      BY <2>1, <3>1, <3>2
    <3>3. CASE c < d
      <4>1. (c + 1) * Workers <= d * Workers /\ (c + 1) * Workers = c * Workers + Workers
        BY <1>2, <3>3
      <4>2. QED
        BY <1>2, <2>1, <3>1, <4>1
    <3>4. CASE d < c
      <4>1. (d + 1) * Workers <= c * Workers /\ (d + 1) * Workers = d * Workers + Workers
        BY <1>2, <3>4
      <4>2. QED
        BY <1>2, <2>1, <3>1, <4>1
    <3>5. QED
      BY <3>2, <3>3, <3>4
  <2>2. \A g \in Generators : Due(g) = {(g + 1) + c * Workers : c \in Nat}
    BY <1>1 DEF Due
  <2>3. \A g, h \in Generators : g # h => Due(g) \cap Due(h) = {}
    BY <2>1, <2>2
  <2>4. \A g \in Generators : \A id \in Due(g) \cap IDs : transmitted[id] = SentBy(g, id)
    BY <1>1 DEF SentBy
  <2>5. QED
    BY <1>1, <2>3, <2>4 DEF GenOK
<1>8. CacheOK /\ PeekOK
  BY <1>1, <1>5 DEF CacheOK, PeekOK
<1>9. AckOK
  <2>1. HandledPairs = {}
    BY <1>1, <1>2 DEF HandledPairs
  <2>2. Cardinality({}) = 0
    BY FS_EmptySet
  <2>3. QED
    BY <1>1, <1>2, <2>1, <2>2 DEF AckOK
<1>10. RetryBudget /\ PayloadIntact
  BY <1>1, <1>2 DEF RetryBudget, PayloadIntact
<1>11. ForgottenForAnother
  BY <1>1 DEF ForgottenForAnother
<1>12. QED
  BY <1>3, <1>4, <1>7, <1>8, <1>9, <1>10, <1>11 DEF ClientInv

\* Every step of the client keeps the invariant.
LEMMA ClientStep == ClientInv /\ [ClientNext]_clientVars => ClientInv'
<1> SUFFICES ASSUME ClientInv, [ClientNext]_clientVars PROVE ClientInv'
  OBVIOUS
<1>1. ASSUME NEW g \in Generators, Generator(g) PROVE ClientInv'
  BY <1>1, GenSendInv, GenRegisterInv, GenDoneInv DEF Generator
<1>2. ASSUME NEW d \in datagrams, ServerAck(d) PROVE ClientInv'
  BY <1>2, ServerAckInv
<1>3. ASSUME NEW id \in IDs, AckReceive(id) PROVE ClientInv'
  BY <1>3, AckReceiveInv
<1>4. CASE AckReceiver
  BY <1>4, AckDeleteInv, AckInsertInv, AckPrintInv, AckStopInv DEF AckReceiver
<1>5. CASE Daemon
  <2>1. CASE DmnScan
    BY <2>1, DmnFoundInv, DmnIdleInv
  <2>2. CASE DmnDeadline \/ DmnWakeUp
    BY <2>2, DmnIdleInv
  <2>3. QED
    BY <1>5, <2>1, <2>2, DmnPromoteInv, DmnResendInv, DmnLostInv, DmnPrintInv DEF Daemon
<1>6. CASE TimePasses
  BY <1>6, TimeInv
<1>7. CASE Main \/ RunTimeout \/ UNCHANGED clientVars
  BY <1>7, MainInv
<1>8. QED
  BY <1>1, <1>2, <1>3, <1>4, <1>5, <1>6, <1>7 DEF ClientNext

\* The layers stay a function.
LayersFun == layers = [i \in Layer |-> layers[i]]

\* Every step leaves a function from the layers.
LEMMA FunStep == LayersFun /\ [ClientNext]_clientVars => LayersFun'
<1> SUFFICES ASSUME LayersFun, [ClientNext]_clientVars PROVE LayersFun'
  OBVIOUS
<1>1. \A f : f = [i \in Layer |-> f[i]] =>
         \A j, x : LET e == [f EXCEPT ![j] = x] IN e = [i \in Layer |-> e[i]]
  OBVIOUS
<1>2. ASSUME NEW k, NEW v, Set(k, v) PROVE LayersFun'
  BY <1>1, <1>2 DEF Set, LayersFun
<1>3. ASSUME NEW k, Delete(k) PROVE LayersFun'
  BY <1>3 DEF Delete, LayersFun
<1>4. ASSUME NEW k, NEW i, PromoteLayer(k, i) PROVE LayersFun'
  <2>1. CASE layers[i] = <<>>
    BY <1>4, <2>1 DEF PromoteLayer, LayersFun
  <2>2. CASE layers[i] # <<>> /\ i + 1 < NumLayers
    BY <1>4, <2>2 DEF PromoteLayer, LayersFun
  <2>3. CASE layers[i] # <<>> /\ ~(i + 1 < NumLayers)
    BY <1>1, <1>4, <2>3 DEF PromoteLayer, LayersFun
  <2>4. QED
    BY <2>1, <2>2, <2>3
<1>5. CASE Tick
  BY <1>5 DEF Tick, LayersFun
<1>6. CASE layers' = layers
  BY <1>6 DEF LayersFun
<1>7. ASSUME NEW g \in Generators, Generator(g) PROVE LayersFun'
  BY <1>2, <1>6, <1>7 DEF Generator, GenSend, GenRegister, GenDone, cacheVars
<1>8. ASSUME NEW d \in datagrams, ServerAck(d) PROVE LayersFun'
  BY <1>6, <1>8 DEF ServerAck, cacheVars
<1>9. ASSUME NEW id \in IDs, AckReceive(id) PROVE LayersFun'
  BY <1>6, <1>9 DEF AckReceive, cacheVars
<1>10. CASE AckReceiver
  BY <1>3, <1>6, <1>10 DEF AckReceiver, AckDelete, AckInsert, AckPrint, AckStop, cacheVars
<1>11. CASE Daemon
  <2>1. CASE DmnPromote
    BY <1>4, <2>1 DEF DmnPromote
  <2>2. CASE ~DmnPromote
    BY <1>6, <1>11, <2>2 DEF Daemon, DmnScan, DmnResend, DmnLost, DmnPrint, DmnDeadline,
       DmnWakeUp, cacheVars
  <2>3. QED
    BY <2>1, <2>2
<1>12. CASE TimePasses
  BY <1>5, <1>12 DEF TimePasses
<1>13. CASE Main \/ RunTimeout
  BY <1>6, <1>13 DEF Main, RunTimeout, RunWaitGenerators, RunComplete, ShutdownStop,
     ShutdownClose, RunStep, cacheVars
<1>14. CASE UNCHANGED clientVars
  BY <1>6, <1>14 DEF clientVars, cacheVars
<1>15. QED
  BY <1>7, <1>8, <1>9, <1>10, <1>11, <1>12, <1>13, <1>14 DEF ClientNext

\* No more ACKs are counted than the network may deliver.
LEMMA AckBound == Plain /\ AckOK => ackCount \in 0..TotalPackets*MaxAcks
<1> SUFFICES ASSUME Plain, AckOK PROVE ackCount \in 0..TotalPackets*MaxAcks
  OBVIOUS
<1> DEFINE P == IDs \X (1..MaxAcks)
<1>1. MaxAcks \in Nat /\ TotalPackets \in Nat
  BY ClientParams
<1>2. /\ IsFiniteSet(IDs) /\ Cardinality(IDs) = TotalPackets
      /\ IsFiniteSet(1..MaxAcks) /\ Cardinality(1..MaxAcks) = MaxAcks
  <2>1. ASSUME NEW n \in Nat PROVE IsFiniteSet(1..n) /\ Cardinality(1..n) = n
    <3>1. IsFiniteSet(1..n) /\ Cardinality(1..n) = IF 1 > n THEN 0 ELSE n - 1 + 1
      BY FS_Interval
    <3>2. QED
      BY <3>1
  <2>2. QED
    BY <1>1, <2>1 DEF IDs
<1>3. IsFiniteSet(P) /\ Cardinality(P) = TotalPackets * MaxAcks
  BY <1>2, FS_Product
<1>4. HandledPairs \in SUBSET P
  BY DEF HandledPairs
<1>5. Cardinality(HandledPairs) <= Cardinality(P) /\ IsFiniteSet(HandledPairs)
  BY <1>3, <1>4, FS_Subset
<1>6. Cardinality(HandledPairs) \in Nat
  BY <1>5, FS_CardinalityType
<1>7. TotalPackets * MaxAcks \in Nat
  BY <1>1
<1>8. QED
  BY <1>3, <1>5, <1>6, <1>7 DEF AckOK

\* The inductive invariant of the client.
THEOREM ClientCorrect == ClientSpec => []ClientInv
BY ClientStart, ClientStep, PTL DEF ClientSpec

\* Every variable keeps its type (client.go:29-60).
THEOREM ClientTypes == ClientSpec => []TypeOK
<1>1. ClientInit => LayersFun
  BY DEF ClientInit, LayersFun
<1>2. ClientInv /\ LayersFun => TypeOK
  <2> SUFFICES ASSUME ClientInv, LayersFun PROVE TypeOK
    OBVIOUS
  <2>1. Plain /\ LinesOK /\ CacheOK /\ PeekOK /\ AckOK
    BY DEF ClientInv
  <2>2. \A i \in Layer : layers[i] \in Seq(Entry)
    BY <2>1 DEF CacheOK, LayersAre, IsLayer
  <2>3. layers \in [Layer -> Seq(Entry)]
    BY <2>2 DEF LayersFun
  <2>4. peeked \subseteq Peek
    BY <2>1 DEF PeekOK, PeekedOK
  <2>5. ackCount \in 0..TotalPackets*MaxAcks
    BY <2>1, AckBound
  <2>6. QED
    BY <2>1, <2>3, <2>4, <2>5 DEF TypeOK, Plain, LinesOK
<1>3. QED
  BY <1>1, <1>2, FunStep, ClientCorrect, PTL DEF ClientSpec

\* No status line is lost or repeated between the ordered buffer and the screen
\* (client.go:238-240, 266-268).
THEOREM ClientLines == ClientSpec => []LinesConserved
<1>1. ClientInv => LinesConserved
  BY LinesAre DEF ClientInv
<1>2. QED
  BY <1>1, ClientCorrect, PTL

\* No packet is sent more often than there are layers (client.go:256-282).
THEOREM ClientRetries == ClientSpec => []RetryBudget
<1>1. ClientInv => RetryBudget
  BY DEF ClientInv
<1>2. QED
  BY <1>1, ClientCorrect, PTL

\* An id waits in one layer at most, once (client.go:204, layer.go:118-142).
THEOREM ClientOneDeadline == ClientSpec => []OneDeadlinePerID
<1>1. ClientInv => OneDeadlinePerID
  <2> SUFFICES ASSUME ClientInv, NEW i \in Layer, NEW j \in Layer,
                      NEW m \in 1..Len(layers[i]), NEW n \in 1..Len(layers[j]),
                      layers[i][m].key = layers[j][n].key
               PROVE  i = j /\ m = n
    BY DEF OneDeadlinePerID
  <2>1. LayersAre(layers) /\ \A q, r \in Items : q.key = r.key => q.layer = r.layer
    BY DEF ClientInv, CacheOK
  <2>2. /\ [layer |-> i, key |-> layers[i][m].key, value |-> layers[i][m].value] \in Items
        /\ [layer |-> j, key |-> layers[j][n].key, value |-> layers[j][n].value] \in Items
    BY <2>1, ItemsAre DEF Items
  <2>3. i = j
    BY <2>1, <2>2
  <2>4. m = n
    BY <2>1, <2>3 DEF LayersAre, IsLayer, KeysDiffer
  <2>5. QED
    BY <2>3, <2>4
<1>2. QED
  BY <1>1, ClientCorrect, PTL

\* The server accepts no packet with the payload of another (client.go:273-282).
THEOREM ClientPayloads == ClientSpec => []PayloadIntact
<1>1. ClientInv => PayloadIntact
  BY DEF ClientInv
<1>2. QED
  BY <1>1, ClientCorrect, PTL

\* A packet without a status is only forgotten for another one, popped in its
\* place (layer.go:118-142, client.go:252-268).
THEOREM ClientForgets == ClientSpec => []ForgottenForAnother
<1>1. ClientInv => ForgottenForAnother
  BY DEF ClientInv
<1>2. QED
  BY <1>1, ClientCorrect, PTL

-----------------------------------------------------------------------------
(* The client and its cache *)

LEMMA CachedStarts == ClientInit => Cached!Init
  BY DEF ClientInit, Cached!Init, Cached!Layer, Layer, AtHand

\* A step of the LayerCache is the step of the client that makes it.
LEMMA CachedSet ==
  ASSUME NEW k, NEW v, Set(k, v) PROVE Cached!Set(k, v)
  BY DEF Set, Put, Without, Cached!Set, Cached!Put, Cached!Without, Cached!RemoveAt, RemoveAt

LEMMA CachedDelete ==
  ASSUME NEW k, Delete(k) PROVE Cached!Delete(k)
  BY SMTT(30) DEF Delete, Without, Layer, Cached!Delete, Cached!Without, Cached!RemoveAt, Cached!Layer, RemoveAt

LEMMA CachedTick ==
  ASSUME Tick PROVE Cached!Tick
  BY DEF Tick, Layer, Max, Cached!Tick, Cached!Layer, Cached!Max

LEMMA CachedPromote ==
  ASSUME NEW k, NEW i, PromoteLayer(k, i) PROVE Cached!PromoteLayer(k, i)
  BY DEF PromoteLayer, PromotedValue, Put, Without, RemoveAt, BackoffNext, Min,
     Cached!PromoteLayer, Cached!PromotedValue, Cached!Put, Cached!Without, Cached!RemoveAt,
     Cached!BackoffNext, Cached!Min

LEMMA CachedPeek ==
  /\ FoundExpired => Cached!FoundExpired
  /\ PeekExpiredScan = Cached!PeekExpiredScan
  /\ TimeMatters => Cached!TimeMatters
  BY DEF FoundExpired, PeekExpiredScan, ExpiredTails, Expired, Layer, Min, TimeMatters,
     Cached!FoundExpired, Cached!PeekExpiredScan, Cached!ExpiredTails, Cached!Expired,
     Cached!Layer, Cached!Min, Cached!TimeMatters

\* Time that passes when every deadline has passed changes nothing.
LEMMA TickIsIdle ==
  ASSUME LayersFun, LayersAre(layers), Tick, ~TimeMatters
  PROVE  layers' = layers
<1>1. \A i \in Layer : layers[i] \in Seq(Entry)
  BY DEF LayersAre, IsLayer
<1>2. LongestTTL \in Nat /\ Max({-2, -1}) = -1
  BY TTLs DEF Max
<1>3. ASSUME NEW e \in Entry, Expired(e) PROVE [e EXCEPT !.left = Max({@ - 1, -1})] = e
  <2>1. e.left = -1 /\ e.left - 1 = -2
    BY <1>2, <1>3 DEF Entry, Expired
  <2>2. e = [key |-> e.key, value |-> e.value, left |-> e.left]
    BY DEF Entry
  <2>3. [e EXCEPT !.left = -1] = e
    BY <2>1, <2>2
  <2>4. QED
    BY <1>2, <2>1, <2>3
<1>4. ASSUME NEW i \in Layer
      PROVE  [n \in 1..Len(layers[i]) |-> [layers[i][n] EXCEPT !.left = Max({@ - 1, -1})]] = layers[i]
  <2>1. layers[i] = [n \in 1..Len(layers[i]) |-> layers[i][n]]
    BY <1>1
  <2>2. \A n \in 1..Len(layers[i]) : layers[i][n] \in Entry /\ Expired(layers[i][n])
    BY <1>1 DEF TimeMatters
  <2>3. \A n \in 1..Len(layers[i]) :
           [layers[i][n] EXCEPT !.left = Max({@ - 1, -1})] = layers[i][n]
    BY <1>3, <2>2
  <2>4. QED
    BY <2>1, <2>3
<1>5. layers' = [i \in Layer |-> layers[i]]
  BY <1>4 DEF Tick
<1>6. QED
  BY <1>5 DEF LayersFun

\* What the client's step is to the cache.
LEMMA CachedStep ==
  ASSUME ClientInv, LayersFun, [ClientNext]_clientVars
  PROVE  [Cached!Next]_(Cached!vars)
<1>1. /\ Plain /\ GenOK /\ CacheOK /\ PeekOK /\ AckOK /\ LayersAre(layers)
      /\ Keys = IDs /\ Values = IDs /\ None \notin IDs
  BY ClientParams DEF ClientInv, CacheOK
<1>2. ASSUME layers' = layers, AtHand' = AtHand PROVE [Cached!Next]_(Cached!vars)
  BY <1>2 DEF Cached!vars
<1>3. CASE UNCHANGED <<layers, peeked, dmnPC>>
  BY <1>2, <1>3 DEF AtHand
<1>4. ASSUME NEW g \in Generators, Generator(g) PROVE [Cached!Next]_(Cached!vars)
  <2>1. CASE GenRegister(g)
    <3>1. Set(genID[g], genID[g]) /\ genID[g] \in IDs /\ AtHand' = AtHand
      BY <1>1, <2>1 DEF GenRegister, GenOK, dmnVars, AtHand
    <3>2. Cached!Set(genID[g], genID[g])
      BY <3>1, CachedSet
    <3>3. Cached!Callers
      BY <1>1, <3>1, <3>2 DEF Cached!Callers
    <3>4. QED
      BY <3>3 DEF Cached!Next
  <2>2. CASE GenSend(g) \/ GenDone(g)
    BY <1>3, <2>2 DEF GenSend, GenDone, cacheVars, dmnVars
  <2>3. QED
    BY <1>4, <2>1, <2>2 DEF Generator
<1>5. CASE AckReceiver
  <2>1. CASE AckDelete
    <3>1. Delete(ackID) /\ ackID \in IDs /\ AtHand' = AtHand
      BY <1>1, <2>1 DEF AckDelete, AckOK, Plain, dmnVars, AtHand
    <3>2. Cached!Delete(ackID)
      BY <3>1, CachedDelete
    <3>3. Cached!Callers
      BY <1>1, <3>1, <3>2 DEF Cached!Callers
    <3>4. QED
      BY <3>3 DEF Cached!Next
  <2>2. CASE AckInsert \/ AckPrint \/ AckStop
    BY <1>3, <2>2 DEF AckInsert, AckPrint, AckStop, cacheVars, dmnVars
  <2>3. QED
    BY <1>5, <2>1, <2>2 DEF AckReceiver
<1>6. CASE Daemon
  <2>1. CASE DmnScan
    <3>1. dmnPC = "scan" /\ AtHand = {} /\ layers' = layers
      BY <2>1 DEF DmnScan, AtHand, cacheVars
    <3>2. CASE dmnPC' = "promote"
      <4>1. FoundExpired /\ peeked' = {PeekExpiredScan} /\ AtHand' = peeked'
        BY <2>1, <3>2 DEF DmnScan, AtHand
      <4>2. Cached!FoundExpired /\ PeekExpiredScan = Cached!PeekExpiredScan
        BY <4>1, CachedPeek
      <4>3. Cached!DaemonPeek
        BY <3>1, <4>1, <4>2 DEF Cached!DaemonPeek
      <4>4. QED
        BY <4>3 DEF Cached!Next
    <3>3. CASE dmnPC' # "promote"
      <4>1. AtHand' = {}
        BY <3>3 DEF AtHand
      <4>2. QED
        BY <1>2, <3>1, <4>1
    <3>4. QED
      BY <3>2, <3>3
  <2>2. CASE DmnPromote
    <3>1. PICK p \in peeked : PromoteLayer(p.key, p.layer)
      BY <2>2 DEF DmnPromote
    <3>2. AtHand = peeked /\ AtHand' = {}
      BY <2>2 DEF DmnPromote, AtHand
    <3>3. Cached!PromoteLayer(p.key, p.layer)
      BY <3>1, CachedPromote
    <3>4. Cached!DaemonPromote
      BY <3>1, <3>2, <3>3 DEF Cached!DaemonPromote
    <3>5. QED
      BY <3>4 DEF Cached!Next
  <2>3. CASE DmnResend \/ DmnLost \/ DmnPrint \/ DmnDeadline \/ DmnWakeUp
    <3>1. layers' = layers /\ dmnPC # "promote" /\ dmnPC' # "promote"
      BY <2>3 DEF DmnResend, DmnLost, DmnPrint, DmnDeadline, DmnWakeUp, cacheVars
    <3>2. AtHand = {} /\ AtHand' = {}
      BY <3>1 DEF AtHand
    <3>3. QED
      BY <1>2, <3>1, <3>2
  <2>4. QED
    BY <1>6, <2>1, <2>2, <2>3 DEF Daemon
<1>7. CASE TimePasses
  <2>1. Tick /\ AtHand' = AtHand
    BY <1>7 DEF TimePasses, AtHand
  <2>2. CASE TimeMatters
    <3>1. Cached!Tick /\ Cached!TimeMatters
      BY <2>1, <2>2, CachedTick, CachedPeek
    <3>2. Cached!Passing
      BY <2>1, <3>1 DEF Cached!Passing
    <3>3. QED
      BY <3>2 DEF Cached!Next
  <2>3. CASE ~TimeMatters
    BY <1>1, <1>2, <2>1, <2>3, TickIsIdle
  <2>4. QED
    BY <2>2, <2>3
<1>8. ASSUME NEW d \in datagrams, ServerAck(d) PROVE [Cached!Next]_(Cached!vars)
  BY <1>3, <1>8 DEF ServerAck, cacheVars, dmnVars
<1>9. ASSUME NEW id \in IDs, AckReceive(id) PROVE [Cached!Next]_(Cached!vars)
  BY <1>3, <1>9 DEF AckReceive, cacheVars, dmnVars
<1>10. CASE Main \/ RunTimeout
  BY <1>3, <1>10 DEF Main, RunTimeout, RunWaitGenerators, RunComplete, ShutdownStop,
     ShutdownClose, RunStep, cacheVars, dmnVars
<1>11. CASE UNCHANGED clientVars
  BY <1>3, <1>11 DEF clientVars, cacheVars, dmnVars
<1>12. QED
  BY <1>4, <1>5, <1>6, <1>7, <1>8, <1>9, <1>10, <1>11 DEF ClientNext

\* To its LayerCache the client is one more user: generators, ackReceiver and
\* daemon only do what the LayerCache alone is checked under, its daemon's peek
\* being held until it is promoted (client.go:204, 230, 256-260).
THEOREM ClientUsesLayerCache == ClientSpec => UsesLayerCache
<1>1. ClientInit => LayersFun
  BY DEF ClientInit, LayersFun
<1>2. ClientSpec => []LayersFun
  BY <1>1, FunStep, ClientCorrect, PTL DEF ClientSpec
<1>3. ClientInv /\ LayersFun /\ [ClientNext]_clientVars => [Cached!Next]_(Cached!vars)
  BY CachedStep
<1>4. QED
  BY <1>2, <1>3, CachedStarts, ClientCorrect, PTL DEF ClientSpec, UsesLayerCache, Cached!Spec

\* What the client does to its cache are calls of the LayerCache.
LEMMA ClientMoves ==
  ASSUME ClientInv, [ClientNext]_clientVars
  PROVE  CacheMoves
<1>1. /\ Plain /\ GenOK /\ PeekOK /\ AckOK /\ Keys = IDs /\ Values = IDs /\ None \notin IDs
  BY ClientParams DEF ClientInv
<1>2. CASE layers' = layers
  BY <1>2 DEF CacheMoves
<1>3. ASSUME NEW g \in Generators, Generator(g) PROVE CacheMoves
  <2>1. CASE GenRegister(g)
    <3>1. Set(genID[g], genID[g]) /\ genID[g] \in IDs
      BY <1>1, <2>1 DEF GenRegister, GenOK
    <3>2. QED
      BY <1>1, <3>1 DEF CacheMoves
  <2>2. CASE GenSend(g) \/ GenDone(g)
    BY <1>2, <2>2 DEF GenSend, GenDone, cacheVars
  <2>3. QED
    BY <1>3, <2>1, <2>2 DEF Generator
<1>4. CASE AckReceiver
  <2>1. CASE AckDelete
    <3>1. Delete(ackID) /\ ackID \in IDs
      BY <1>1, <2>1 DEF AckDelete, AckOK, Plain
    <3>2. QED
      BY <1>1, <3>1 DEF CacheMoves
  <2>2. CASE AckInsert \/ AckPrint \/ AckStop
    BY <1>2, <2>2 DEF AckInsert, AckPrint, AckStop, cacheVars
  <2>3. QED
    BY <1>4, <2>1, <2>2 DEF AckReceiver
<1>5. CASE Daemon
  <2>1. CASE DmnPromote
    <3>1. PICK p \in peeked : PromoteLayer(p.key, p.layer)
      BY <2>1 DEF DmnPromote
    <3>2. p \in Peek
      BY <1>1 DEF PeekOK, PeekedOK
    <3>3. QED
      BY <3>1, <3>2 DEF CacheMoves
  <2>2. CASE ~DmnPromote
    BY <1>2, <1>5, <2>2 DEF Daemon, DmnScan, DmnResend, DmnLost, DmnPrint, DmnDeadline,
       DmnWakeUp, cacheVars
  <2>3. QED
    BY <2>1, <2>2
<1>6. CASE TimePasses
  BY <1>6 DEF TimePasses, CacheMoves
<1>7. ASSUME NEW d \in datagrams, ServerAck(d) PROVE CacheMoves
  BY <1>2, <1>7 DEF ServerAck, cacheVars
<1>8. ASSUME NEW id \in IDs, AckReceive(id) PROVE CacheMoves
  BY <1>2, <1>8 DEF AckReceive, cacheVars
<1>9. CASE Main \/ RunTimeout \/ UNCHANGED clientVars
  BY <1>2, <1>9 DEF Main, RunTimeout, RunWaitGenerators, RunComplete, ShutdownStop,
     ShutdownClose, RunStep, cacheVars, clientVars
<1>10. QED
  BY <1>3, <1>4, <1>5, <1>6, <1>7, <1>8, <1>9 DEF ClientNext

\* In the client too a look at the tails answers for the whole cache: what the
\* daemon does not find has not expired, and it sleeps past no deadline that it
\* could see (client.go:245-301, pkg/lru/layer.go:75-114).
THEOREM ClientTails == ClientSpec => [](DeadlineOrder /\ TailsDecide)
<1>1. ClientInit => AllSorted
  BY DEF ClientInit, AllSorted, Sorted
<1>2. ClientInv /\ AllSorted /\ [ClientNext]_clientVars => AllSorted'
  BY ClientMoves, CacheSorted
<1>3. QED
  BY <1>1, <1>2, SortedDecides, ClientCorrect, PTL DEF ClientSpec
=============================================================================
