---------------------------- MODULE CacheProofs ----------------------------
(***************************************************************************)
(* The cache keeps its invariants for every number of keys, nodes and      *)
(* workers and every capacity of the channel, and is what a layer of       *)
(* LayerCache says it is.                                                  *)
(***************************************************************************)
EXTENDS CacheLayer, CountingProofs, SequenceTheorems

\* The list in order: s[0] is the head, s[n-1] the tail, and s[i] is Nil beyond.
Order(l, n, s) ==
    /\ n \in Nat /\ s \in [Int -> Ref]
    /\ \A i \in Int : s[i] # Nil <=> 0 <= i /\ i < n
    /\ \A i, j \in Int : s[i] = s[j] /\ s[i] # Nil => i = j
    /\ l.head = s[0] /\ l.tail = s[n - 1]
    /\ \A i \in Int : s[i] # Nil => l.next[s[i]] = s[i + 1] /\ l.prev[s[i]] = s[i - 1]
    /\ \A m \in Nodes : (\A i \in Int : s[i] # m) => l.next[m] = Nil /\ l.prev[m] = Nil

Lists == [head : Ref, tail : Ref, prev : [Nodes -> Ref], next : [Nodes -> Ref]]

-----------------------------------------------------------------------------
(* The list *)

LEMMA Refs == MaxNodes \in Nat /\ Nil \notin Nodes /\ Nodes \subseteq Nat /\ Ref = Nodes \cup {Nil} /\ Nil = 0
BY CacheAssumption DEF Nodes, Nil, Ref

\* A new head.
LEMMA InsertOrder ==
  ASSUME NEW l \in Lists, NEW n, NEW s, Order(l, n, s),
         NEW x \in Nodes, \A i \in Int : s[i] # x
  PROVE  /\ InsertHead(l, x) \in Lists
         /\ Order(InsertHead(l, x), n + 1, [i \in Int |-> IF i = 0 THEN x ELSE s[i - 1]])
<1> DEFINE t == [i \in Int |-> IF i = 0 THEN x ELSE s[i - 1]]
           h == InsertHead(l, x)
<1>0. /\ n \in Nat /\ s \in [Int -> Ref]
      /\ x # Nil /\ l.head = s[0]
      /\ \A i \in Int : s[i] # Nil <=> 0 <= i /\ i < n
  BY Refs DEF Order
<1>1. l.next[x] = Nil /\ l.prev[x] = Nil
  BY DEF Order
<1>2. h \in Lists
  BY <1>0, Refs DEF Lists, InsertHead
<1>3. t \in [Int -> Ref] /\ \A i \in Int : t[i] = IF i = 0 THEN x ELSE s[i - 1]
  BY <1>0, Refs
<1>4. h.head = x /\ h.tail = IF n = 0 THEN x ELSE l.tail
  BY <1>0 DEF Lists, InsertHead
<1>5. h.next[x] = l.head /\ \A m \in Nodes : m # x => h.next[m] = l.next[m]
  BY <1>0, <1>1 DEF Lists, InsertHead
<1>6. /\ h.prev[x] = Nil
      /\ s[0] # Nil => h.prev[s[0]] = x
      /\ \A m \in Nodes : m # s[0] => h.prev[m] = l.prev[m]
  BY <1>0, <1>1 DEF Lists, InsertHead, Ref
<1> HIDE DEF t, h
<1>7. \A i \in Int : t[i] # Nil <=> 0 <= i /\ i < n + 1
  BY <1>0, <1>3
<1>8. \A i, j \in Int : t[i] = t[j] /\ t[i] # Nil => i = j
  <2>1. \A i, j \in Int : s[i] = s[j] /\ s[i] # Nil => i = j
    BY DEF Order
  <2>2. QED
    BY <2>1, <1>0, <1>3
<1>9. h.head = t[0] /\ h.tail = t[n]
  <2>1. l.tail = s[n - 1]
    BY DEF Order
  <2>2. QED
    BY <2>1, <1>0, <1>3, <1>4
<1>10. ASSUME NEW i \in Int, t[i] # Nil
       PROVE  h.next[t[i]] = t[i + 1] /\ h.prev[t[i]] = t[i - 1]
  <2>1. CASE i = 0
    <3>1. t[i] = x /\ t[i + 1] = s[0] /\ t[i - 1] = Nil
      BY <2>1, <1>0, <1>3
    <3>2. QED
      BY <3>1, <1>5, <1>6, <1>0
  <2>2. CASE i # 0
    <3> DEFINE j == i - 1
    <3>1. j \in Int /\ j + 1 = i /\ t[i] = s[j] /\ t[i + 1] = s[j + 1] /\ s[j] \in Nodes /\ s[j] # x
      BY <2>2, <1>0, <1>3, <1>10, Refs
    <3>2. t[i - 1] = IF j = 0 THEN x ELSE s[j - 1]
      BY <3>1, <1>3
    <3> HIDE DEF j
    <3>3. l.next[s[j]] = s[j + 1] /\ l.prev[s[j]] = s[j - 1]
      BY <3>1, <1>10 DEF Order
    <3>4. s[j] = s[0] <=> j = 0
      BY <3>1, <1>10 DEF Order
    <3>5. QED
      BY <3>1, <3>2, <3>3, <3>4, <1>5, <1>6, <1>10
  <2>3. QED
    BY <2>1, <2>2
<1>11. ASSUME NEW m \in Nodes, \A i \in Int : t[i] # m
       PROVE  h.next[m] = Nil /\ h.prev[m] = Nil
  <2>1. m # x
    BY <1>11, <1>3
  <2>2. ASSUME NEW i \in Int PROVE s[i] # m
    <3>1. i + 1 \in Int /\ (i + 1) - 1 = i
      OBVIOUS
    <3>2. CASE i + 1 = 0
      BY <3>2, <1>0, Refs
    <3>3. CASE i + 1 # 0
      BY <3>1, <3>3, <1>3, <1>11
    <3>4. QED
      BY <3>2, <3>3
  <2>3. l.next[m] = Nil /\ l.prev[m] = Nil
    BY <2>2 DEF Order
  <2>4. QED
    BY <2>1, <2>2, <2>3, <1>5, <1>6
<1>12. QED
  <2>1. n + 1 \in Nat /\ (n + 1) - 1 = n
    BY <1>0
  <2>2. h \in Lists /\ Order(h, n + 1, t)
    BY <2>1, <1>2, <1>3, <1>7, <1>8, <1>9, <1>10, <1>11 DEF Order
  <2>3. QED
    BY <2>2 DEF h, t

\* A node goes, from wherever it is.
LEMMA RemoveOrder ==
  ASSUME NEW l \in Lists, NEW n, NEW s, Order(l, n, s),
         NEW k \in Int, s[k] # Nil
  PROVE  /\ RemoveNode(l, s[k]) \in Lists
         /\ Order(RemoveNode(l, s[k]), n - 1, [i \in Int |-> IF i < k THEN s[i] ELSE s[i + 1]])
<1> DEFINE t == [i \in Int |-> IF i < k THEN s[i] ELSE s[i + 1]]
           h == RemoveNode(l, s[k])
           x == s[k]
<1>0. /\ n \in Nat /\ s \in [Int -> Ref]
      /\ l.head = s[0] /\ l.tail = s[n - 1]
      /\ \A i \in Int : s[i] # Nil <=> 0 <= i /\ i < n
      /\ \A i, j \in Int : s[i] = s[j] /\ s[i] # Nil => i = j
  BY DEF Order
<1>1. /\ x \in Nodes /\ x # Nil /\ 0 <= k /\ k < n
      /\ l.next[x] = s[k + 1] /\ l.prev[x] = s[k - 1]
      /\ s[k + 1] \in Ref /\ s[k - 1] \in Ref /\ k + 1 \in Int /\ k - 1 \in Int
  BY <1>0, Refs DEF Order
<1>2. x # s[k - 1] /\ x # s[k + 1]
  <2>1. k # k - 1 /\ k # k + 1
    OBVIOUS
  <2>2. QED
    BY <2>1, <1>0, <1>1
<1>3. /\ h = [head |-> h.head, tail |-> h.tail, prev |-> h.prev, next |-> h.next]
      /\ h.head = IF s[k - 1] = Nil THEN s[k + 1] ELSE s[0]
      /\ h.tail = IF s[k + 1] = Nil THEN s[k - 1] ELSE s[n - 1]
      /\ h.next = [m \in Nodes |-> IF m = x THEN Nil ELSE IF m = s[k - 1] THEN s[k + 1] ELSE l.next[m]]
      /\ h.prev = [m \in Nodes |-> IF m = x THEN Nil ELSE IF m = s[k + 1] THEN s[k - 1] ELSE l.prev[m]]
  BY <1>0, <1>1, <1>2 DEF RemoveNode
<1>4. h \in Lists
  BY <1>0, <1>1, <1>3, Refs DEF Lists
<1>5. t \in [Int -> Ref] /\ \A i \in Int : t[i] = IF i < k THEN s[i] ELSE s[i + 1]
  BY <1>0, Refs
<1> HIDE DEF t, h, x
<1>7. \A i \in Int : t[i] # Nil <=> 0 <= i /\ i < n - 1
  BY <1>0, <1>1, <1>5
<1>8. ASSUME NEW i \in Int, NEW j \in Int, t[i] = t[j], t[i] # Nil
      PROVE i = j
  <2>1. PICK a \in Int : t[i] = s[a] /\ a = IF i < k THEN i ELSE i + 1
    BY <1>5
  <2>2. PICK b \in Int : t[j] = s[b] /\ b = IF j < k THEN j ELSE j + 1
    BY <1>5
  <2>3. a = b
    BY <2>1, <2>2, <1>8, <1>0
  <2>4. QED
    BY <2>1, <2>2, <2>3
<1>9. h.head = t[0]
  <2>1. CASE k = 0
    BY <2>1, <1>0, <1>1, <1>3, <1>5
  <2>2. CASE k # 0
    <3>1. s[k - 1] # Nil
      BY <2>2, <1>0, <1>1
    <3>2. t[0] = s[0]
      BY <2>2, <1>1, <1>5
    <3>3. QED
      BY <3>1, <3>2, <1>3
  <2>3. QED
    BY <2>1, <2>2
<1>10. h.tail = t[(n - 1) - 1]
  <2>1. CASE k = n - 1
    <3>1. s[k + 1] = Nil
      BY <2>1, <1>0, <1>1
    <3>2. t[(n - 1) - 1] = s[k - 1]
      BY <2>1, <1>0, <1>1, <1>5
    <3>3. QED
      BY <3>1, <3>2, <1>3
  <2>2. CASE k # n - 1
    <3>1. s[k + 1] # Nil
      BY <2>2, <1>0, <1>1
    <3>2. t[(n - 1) - 1] = s[n - 1]
      BY <2>2, <1>0, <1>1, <1>5
    <3>3. QED
      BY <3>1, <3>2, <1>3
  <2>3. QED
    BY <2>1, <2>2
<1>11. ASSUME NEW i \in Int, t[i] # Nil
       PROVE  h.next[t[i]] = t[i + 1] /\ h.prev[t[i]] = t[i - 1]
  <2>1. PICK a \in Int : t[i] = s[a] /\ a = IF i < k THEN i ELSE i + 1
    BY <1>5
  <2>2. a # k /\ s[a] # Nil /\ s[a] \in Nodes /\ s[a] # x
    BY <2>1, <1>0, <1>1, <1>11, Refs DEF x
  <2>3. l.next[s[a]] = s[a + 1] /\ l.prev[s[a]] = s[a - 1]
    BY <2>2 DEF Order
  <2>4. (s[a] = s[k - 1] <=> a = k - 1) /\ (s[a] = s[k + 1] <=> a = k + 1)
    BY <2>2, <1>0, <1>1
  <2>5. /\ h.next[s[a]] = IF a = k - 1 THEN s[k + 1] ELSE s[a + 1]
        /\ h.prev[s[a]] = IF a = k + 1 THEN s[k - 1] ELSE s[a - 1]
    BY <2>2, <2>3, <2>4, <1>3
  <2>6. t[i + 1] = IF a = k - 1 THEN s[k + 1] ELSE s[a + 1]
    BY <2>1, <2>2, <1>5
  <2>7. t[i - 1] = IF a = k + 1 THEN s[k - 1] ELSE s[a - 1]
    BY <2>1, <2>2, <1>5
  <2>8. QED
    BY <2>1, <2>5, <2>6, <2>7
<1>12. ASSUME NEW m \in Nodes, \A i \in Int : t[i] # m
       PROVE  h.next[m] = Nil /\ h.prev[m] = Nil
  <2>1. CASE m = x
    BY <2>1, <1>3
  <2>2. CASE m # x
    <3>1. ASSUME NEW i \in Int PROVE s[i] # m
      <4>1. CASE i < k
        BY <4>1, <1>5, <1>12
      <4>2. CASE i = k
        BY <4>2, <2>2 DEF x
      <4>3. CASE i > k
        <5>1. i - 1 \in Int /\ (i - 1) + 1 = i /\ ~(i - 1 < k)
          BY <4>3
        <5>2. QED
          BY <5>1, <1>5, <1>12
      <4>4. QED
        BY <4>1, <4>2, <4>3
    <3>2. l.next[m] = Nil /\ l.prev[m] = Nil
      BY <3>1 DEF Order
    <3>3. QED
      BY <3>1, <3>2, <2>2, <1>1, <1>3
  <2>3. QED
    BY <2>1, <2>2
<1>13. QED
  <2>1. n - 1 \in Nat
    BY <1>0, <1>1
  <2>2. h \in Lists /\ Order(h, n - 1, t)
    BY <2>1, <1>4, <1>5, <1>7, <1>8, <1>9, <1>10, <1>11, <1>12 DEF Order
  <2>3. QED
    BY <2>2 DEF h, t

\* What is at p is left out; nothing is there twice; x is somewhere.
Skips(t, s, p) == \A i \in Int : t[i] = IF i < p THEN s[i] ELSE s[i + 1]
Injective(s) == \A i, j \in Int : s[i] = s[j] /\ s[i] # Nil => i = j
IsIn(x, s) == \E i \in Int : s[i] = x

\* An order without one of its nodes goes through the others.
LEMMA Skipped ==
  ASSUME NEW s, NEW t, NEW p \in Int, s[p] # Nil, Injective(s), Skips(t, s, p), NEW x
  PROVE  IsIn(x, t) <=> IsIn(x, s) /\ x # s[p]
<1>1. \A i \in Int : t[i] = IF i < p THEN s[i] ELSE s[i + 1]
  BY DEF Skips
<1>2. ASSUME NEW i \in Int, t[i] = x PROVE x # s[p] /\ \E a \in Int : s[a] = x
  <2>1. PICK a \in Int : a # p /\ s[a] = x
    <3>1. i + 1 \in Int /\ (i < p => i # p) /\ (~(i < p) => i + 1 # p)
      OBVIOUS
    <3>2. QED
      BY <3>1, <1>1, <1>2
  <2>2. QED
    BY <2>1 DEF Injective
<1>3. ASSUME NEW a \in Int, s[a] = x, x # s[p] PROVE \E i \in Int : t[i] = x
  <2>1. CASE a < p
    BY <2>1, <1>1, <1>3
  <2>2. CASE ~(a < p)
    <3>1. a - 1 \in Int /\ ~(a - 1 < p) /\ (a - 1) + 1 = a
      BY <1>3, <2>2
    <3>2. QED
      BY <3>1, <1>1, <1>3
  <2>3. QED
    BY <2>1, <2>2
<1>4. QED
  BY <1>2, <1>3 DEF IsIn

\* Following the pointers of a list from its head goes through it in order.
LEMMA FollowsOrder ==
  ASSUME NEW l, NEW n, NEW s, Order(l, n, s), NEW f,
         f = [i \in Nat |-> IF i = 0 THEN l.head
                            ELSE IF f[i - 1] = Nil THEN Nil ELSE l.next[f[i - 1]]]
  PROVE  \A i \in Nat : f[i] = s[i]
<1> DEFINE S == {i \in Nat : f[i] = s[i]}
<1>0. /\ n \in Nat /\ l.head = s[0]
      /\ \A i \in Int : s[i] # Nil <=> 0 <= i /\ i < n
      /\ \A i \in Int : s[i] # Nil => l.next[s[i]] = s[i + 1]
  BY DEF Order
<1>1. 0 \in S
  BY <1>0
<1>2. ASSUME NEW i \in Nat, i \in S PROVE i + 1 \in S
  <2>1. i + 1 \in Nat /\ i + 1 # 0 /\ (i + 1) - 1 = i /\ f[i] = s[i]
    BY <1>2
  <2>2. f[i + 1] = IF s[i] = Nil THEN Nil ELSE l.next[s[i]]
    BY <2>1
  <2>3. s[i] = Nil => s[i + 1] = Nil
    BY <1>0
  <2>4. QED
    BY <2>1, <2>2, <2>3, <1>0
<1>3. Nat \subseteq S
  <2> HIDE DEF S
  <2>1. QED
    BY <1>1, <1>2, InductionOnNat
<1>4. QED
  BY <1>3

LEMMA ForwardInOrder ==
  ASSUME NEW n, NEW s, Order(list, n, s)
  PROVE  \A i \in Nat : Forward[i] = s[i]
<1> DEFINE g == [i \in Nat |-> s[i]]
<1>0. /\ n \in Nat /\ list.head = s[0]
      /\ \A i \in Int : s[i] # Nil <=> 0 <= i /\ i < n
      /\ \A i \in Int : s[i] # Nil => list.next[s[i]] = s[i + 1]
  BY DEF Order
<1>1. g = [i \in Nat |-> IF i = 0 THEN list.head
                         ELSE IF g[i - 1] = Nil THEN Nil ELSE list.next[g[i - 1]]]
  <2>1. ASSUME NEW i \in Nat
        PROVE  g[i] = IF i = 0 THEN list.head
                      ELSE IF g[i - 1] = Nil THEN Nil ELSE list.next[g[i - 1]]
    <3>1. CASE i = 0
      BY <3>1, <1>0
    <3>2. CASE i # 0
      <4>1. i - 1 \in Nat /\ (i - 1) + 1 = i /\ g[i - 1] = s[i - 1]
        BY <3>2
      <4>2. s[i - 1] = Nil => s[i] = Nil
        <5>1. i \in Int /\ i - 1 \in Int /\ 0 <= i - 1 /\ (i < n => i - 1 < n)
          BY <3>2, <1>0
        <5>2. QED
          BY ONLY <1>0, <5>1
      <4>3. s[i - 1] # Nil => list.next[s[i - 1]] = s[i]
        BY ONLY <1>0, <4>1, i - 1 \in Int
      <4>4. QED
        BY <3>2, <4>1, <4>2, <4>3
    <3>3. QED
      BY <3>1, <3>2
  <2>2. QED
    BY <2>1
<1> HIDE DEF g
<1>2. Forward = [i \in Nat |-> IF i = 0 THEN list.head
                               ELSE IF Forward[i - 1] = Nil THEN Nil
                                    ELSE list.next[Forward[i - 1]]]
  BY <1>1 DEF Forward
<1>3. QED
  BY <1>2, FollowsOrder
-----------------------------------------------------------------------------
(* The inductive invariant *)

\* The list has an order, and its nodes are those of the map.
Linked == \E n, s : /\ Order(list, n, s)
                    /\ \A m \in Nodes : (\E i \in Int : s[i] = m) <=> m \in Mapped

\* The map has a node made for its key.
KeysFit == \A k \in Keys : items[k] # Nil => items[k] \in 1..made /\ key[items[k]] = k

\* Where a node is, with the map instead of the list; one not made yet is nowhere.
PlacesByMap(n) == finalized[n] + Occurs(finalizeCh, n) + Holders(hand, n)
                  + (IF n \in Mapped THEN 1 ELSE 0) + (IF n \in unlinked THEN 1 ELSE 0)
Conserved == crashed \/ mu = "stuck"
             \/ \A n \in Nodes : PlacesByMap(n) = IF n <= made THEN 1 ELSE 0

CacheInv == TypeOK /\ Linked /\ KeysFit /\ Conserved

\* The list, as the property sees it, is the list in order.
LEMMA LinkedIsListed ==
  ASSUME TypeOK, Linked, KeysFit
  PROVE  Listed = Mapped /\ ListIsMap
<1>1. PICK n, s : /\ Order(list, n, s)
                  /\ \A m \in Nodes : (\E i \in Int : s[i] = m) <=> m \in Mapped
  BY DEF Linked
<1>2. /\ n \in Nat /\ s \in [Int -> Ref]
      /\ list.head = s[0] /\ list.tail = s[n - 1]
      /\ \A i \in Int : s[i] # Nil <=> 0 <= i /\ i < n
      /\ \A i, j \in Int : s[i] = s[j] /\ s[i] # Nil => i = j
      /\ \A i \in Int : s[i] # Nil => list.next[s[i]] = s[i + 1] /\ list.prev[s[i]] = s[i - 1]
  BY <1>1 DEF Order
<1>3. \A i \in Nat : Forward[i] = s[i]
  BY <1>1, ForwardInOrder
<1>4. made \in Nat /\ made <= MaxNodes /\ MaxNodes \in Nat /\ 1..made \subseteq Nodes
  BY Refs DEF TypeOK, Nodes
<1>5. Mapped \subseteq 1..made /\ Mapped \subseteq Nodes
  BY <1>4 DEF KeysFit, Mapped
<1>6. n <= made
  <2> DEFINE I == 0..(n - 1)
             f == [i \in I |-> s[i]]
  <2>1. SUFFICES ASSUME made < n PROVE FALSE
    BY <1>2, <1>4
  <2>2. n - 1 \in Int /\ 0 \in Int /\ 1 \in Int /\ made \in Int
    BY <1>2, <1>4
  <2>3. IsFiniteSet(I) /\ Cardinality(I) = IF 0 > n - 1 THEN 0 ELSE (n - 1) - 0 + 1
    BY <2>2, FS_Interval
  <2>4. IsFiniteSet(1..made) /\ Cardinality(1..made) = IF 1 > made THEN 0 ELSE made - 1 + 1
    BY <2>2, FS_Interval
  <2>5. Cardinality(1..made) < Cardinality(I)
    BY <2>1, <2>3, <2>4, <1>2, <1>4
  <2>6. f \in [I -> 1..made]
    <3>1. ASSUME NEW i \in I PROVE s[i] \in 1..made
      <4>1. i \in Int /\ 0 <= i /\ i < n
        BY <1>2
      <4>2. s[i] \in Nodes
        BY <4>1, <1>2, Refs
      <4>3. QED
        BY <4>1, <4>2, <1>1, <1>5
    <3>2. QED
      BY <3>1
  <2> HIDE DEF I, f
  <2>7. PICK i, j \in I : i # j /\ f[i] = f[j]
    BY <2>3, <2>4, <2>5, <2>6, FS_PigeonHole
  <2>8. i \in Int /\ j \in Int /\ s[i] = s[j] /\ s[i] # Nil
    BY <2>7, <1>2 DEF I, f
  <2>9. QED
    BY <2>7, <2>8, <1>2
<1>7. \A m : m \in Mapped <=> m # Nil /\ \E i \in Int : s[i] = m
  <2>1. Nil \notin Mapped
    BY DEF Mapped
  <2>2. QED
    BY <2>1, <1>1, <1>2, <1>5, Refs
<1>8. Listed = Mapped
  <2>1. \A i \in Int : s[i] # Nil => i \in 0..made /\ i \in Nat
    BY <1>2, <1>4, <1>6
  <2>2. \A i \in 0..made : i \in Nat /\ i \in Int
    BY <1>4
  <2>3. QED
    BY <2>1, <2>2, <1>3, <1>7 DEF Listed
<1>9. Forward[made] = Nil
  <2>1. made \in Int /\ ~(made < n)
    BY <1>2, <1>4, <1>6
  <2>2. QED
    BY <2>1, <1>2, <1>3, <1>4
<1>10. \A k \in Keys : items[k] # Nil => key[items[k]] = k
  BY DEF KeysFit
<1>11. list.head # Nil => list.prev[list.head] = Nil /\ list.next[list.tail] = Nil
  <2>1. ASSUME s[0] # Nil
        PROVE  list.prev[s[0]] = s[0 - 1] /\ list.next[s[n - 1]] = s[(n - 1) + 1]
    <3>1. n - 1 \in Int /\ s[n - 1] # Nil
      BY <2>1, <1>2
    <3>2. QED
      BY <2>1, <3>1, <1>2
  <2>2. s[0 - 1] = Nil /\ s[(n - 1) + 1] = Nil
    BY <1>2
  <2>3. QED
    BY <2>1, <2>2, <1>2
<1>12. (list.head = Nil) <=> (list.tail = Nil)
  BY <1>2
<1>13. ASSUME NEW m \in Listed, NEW x \in Listed
       PROVE  list.next[m] = x <=> list.prev[x] = m
  <2>1. PICK i \in Int : s[i] = m /\ m # Nil
    BY <1>7, <1>8
  <2>2. PICK j \in Int : s[j] = x /\ x # Nil
    BY <1>7, <1>8
  <2>3. list.next[m] = s[i + 1] /\ list.prev[x] = s[j - 1]
    BY <2>1, <2>2, <1>2
  <2>4. s[i + 1] = s[j] <=> i + 1 = j
    BY <2>2, <1>2
  <2>5. s[j - 1] = s[i] <=> j - 1 = i
    BY <2>1, <1>2
  <2>6. QED
    BY <2>1, <2>2, <2>3, <2>4, <2>5
<1>14. QED
  BY <1>8, <1>9, <1>10, <1>11, <1>12, <1>13 DEF ListIsMap


-----------------------------------------------------------------------------
(* The steps *)

\* A new cache satisfies the invariant.
LEMMA InitCacheInv == Init => CacheInv
<1> SUFFICES ASSUME Init PROVE CacheInv
  OBVIOUS
<1>1. TypeOK
  <2>1. key \in [Nodes -> Keys]
    <3> DEFINE k0 == CHOOSE k \in Keys : TRUE
    <3>1. k0 \in Keys
      BY CacheAssumption
    <3>2. key = [n \in Nodes |-> k0]
      BY DEF Init
    <3> HIDE DEF k0
    <3>3. QED
      BY <3>1, <3>2
  <2>2. finalizeCh \in Seq(Nodes) /\ Len(finalizeCh) = 0 /\ made \in 0..MaxNodes /\ Buf \in Nat
    BY Refs, CacheAssumption DEF Init
  <2>3. list \in Lists /\ items \in [Keys -> Ref] /\ hand \in [Workers -> Ref]
    BY Refs DEF Init, Lists
  <2>4. left \in [Nodes -> Int] /\ finalized \in [Nodes -> Nat]
    BY DEF Init
  <2>5. /\ reentrant \in BOOLEAN /\ wake \in BOOLEAN /\ loopDone \in BOOLEAN /\ crashed \in BOOLEAN
        /\ mu = "free" /\ closePC = "no" /\ unlinked = {} /\ gone = {}
    BY DEF Init
  <2>6. QED
    BY <2>1, <2>2, <2>3, <2>4, <2>5, CacheAssumption DEF TypeOK, Lists
<1>2. Mapped = {}
  BY DEF Init, Mapped
<1>3. Linked
  <2> DEFINE s == [i \in Int |-> Nil]
  <2>1. s \in [Int -> Ref] /\ \A i \in Int : s[i] = Nil
    BY Refs
  <2>2. Order(list, 0, s)
    <3> HIDE DEF s
    <3>1. QED
      BY <2>1, Refs DEF Init, Order
  <2>3. \A m \in Nodes : (\E i \in Int : s[i] = m) <=> m \in Mapped
    BY <1>2, Refs
  <2>4. QED
    BY <2>2, <2>3 DEF Linked
<1>4. KeysFit
  BY DEF Init, KeysFit
<1>5. Conserved
  <2>1. ASSUME NEW n \in Nodes PROVE PlacesByMap(n) = IF n <= made THEN 1 ELSE 0
    <3>1. finalized[n] = 0 /\ finalizeCh = <<>> /\ n \notin unlinked /\ n \notin Mapped /\ ~(n <= made)
      BY <1>2, Refs DEF Init, Nodes
    <3>2. Occurs(finalizeCh, n) = 0
      BY <3>1, OccursEmpty
    <3>3. Holders(hand, n) = 0
      <4>1. DOMAIN hand = Workers /\ (\A w \in Workers : hand[w] # n) /\ IsFiniteSet(Workers)
        BY Refs, CacheAssumption DEF Init
      <4>2. QED
        BY <4>1, HoldersNat
    <3>4. QED
      BY <3>1, <3>2, <3>3 DEF PlacesByMap
  <2>2. QED
    BY <2>1 DEF Conserved
<1>6. QED
  BY <1>1, <1>3, <1>4, <1>5 DEF CacheInv

\* The counts are natural numbers.
LEMMA CountsAreNat ==
  ASSUME TypeOK, NEW n
  PROVE  Occurs(finalizeCh, n) \in Nat /\ Holders(hand, n) \in Nat
BY OccursNat, HoldersNat, CacheAssumption DEF TypeOK

\* Every node of the map is in the list, and is of one key.
LEMMA TakesOut ==
  ASSUME TypeOK, Linked, KeysFit, NEW m \in Mapped, TakeOut(m), UNCHANGED <<made, key>>
  PROVE  /\ list' \in Lists /\ items' \in [Keys -> Ref] /\ left' \in [Nodes -> Int]
         /\ m \in Nodes /\ m <= made
         /\ Mapped' = Mapped \ {m}
         /\ Linked' /\ KeysFit'
<1>1. list \in Lists /\ items \in [Keys -> Ref] /\ left \in [Nodes -> Int]
  BY DEF TypeOK, Lists
<1>2. made \in Nat /\ 1..made \subseteq Nodes
  BY Refs DEF TypeOK, Nodes
<1>3. PICK k \in Keys : items[k] = m /\ m # Nil
  BY DEF Mapped
<1>4. m \in Nodes /\ m <= made /\ m \in 1..made /\ key[m] = k
  BY <1>2, <1>3 DEF KeysFit
<1>5. /\ list' = RemoveNode(list, m)
      /\ items' = [items EXCEPT ![k] = Nil]
      /\ left' = [left EXCEPT ![m] = -1]
  BY <1>4 DEF TakeOut
<1>6. items' \in [Keys -> Ref] /\ left' \in [Nodes -> Int]
  <2>1. items' \in [Keys -> Ref]
    BY <1>1, <1>5, Refs
  <2>2. -1 \in Int
    OBVIOUS
  <2>3. QED
    BY <1>1, <1>5, <2>1, <2>2
<1>7. \A j \in Keys : items[j] = m => j = k
  BY <1>3, <1>4 DEF KeysFit
<1>8. \A j \in Keys : items'[j] = IF j = k THEN Nil ELSE items[j]
  BY <1>1, <1>5
<1>9. Mapped' = Mapped \ {m}
  BY <1>3, <1>7, <1>8 DEF Mapped
<1>10. KeysFit'
  BY <1>8 DEF KeysFit
<1>11. PICK n, s : /\ Order(list, n, s)
                   /\ \A x \in Nodes : (\E i \in Int : s[i] = x) <=> x \in Mapped
  BY DEF Linked
<1>12. PICK p \in Int : s[p] = m
  BY <1>4, <1>11
<1> DEFINE t == [i \in Int |-> IF i < p THEN s[i] ELSE s[i + 1]]
<1>13. list' \in Lists /\ Order(list', n - 1, t)
  BY <1>1, <1>3, <1>5, <1>11, <1>12, RemoveOrder
<1>14. ASSUME NEW x \in Nodes
       PROVE  (\E i \in Int : t[i] = x) <=> x \in Mapped'
  <2>1. Injective(s) /\ s[p] # Nil /\ Skips(t, s, p)
    BY <1>3, <1>11, <1>12 DEF Order, Injective, Skips
  <2> HIDE DEF t
  <2>2. IsIn(x, t) <=> IsIn(x, s) /\ x # s[p]
    BY <2>1, Skipped
  <2>3. QED
    BY <2>2, <1>9, <1>11, <1>12 DEF IsIn
<1>15. Linked'
  <2> HIDE DEF t
  <2>1. QED
    BY <1>13, <1>14 DEF Linked
<1>16. QED
  BY <1>4, <1>6, <1>9, <1>10, <1>13, <1>15

\* The tail of the list is a node of the map.
LEMMA TailIsMapped ==
  ASSUME TypeOK, Linked, list.tail # Nil
  PROVE  list.tail \in Mapped
<1>1. PICK n, s : /\ Order(list, n, s)
                  /\ \A m \in Nodes : (\E i \in Int : s[i] = m) <=> m \in Mapped
  BY DEF Linked
<1>2. n - 1 \in Int /\ list.tail = s[n - 1] /\ list.tail \in Nodes
  BY <1>1, Refs DEF Order, TypeOK
<1>3. QED
  BY <1>1, <1>2

\* What leaves the map is finalized or queued, or the cache comes to a stop.
LEMMA Schedules ==
  ASSUME CacheInv, NEW m \in Mapped, TakeOut(m), NEW next \in {"free", "cleanup"},
         ~crashed, mu # "stuck", ScheduleFinalize(m, next),
         UNCHANGED <<reentrant, made, key, loopVars, workerVars, closePC, unlinked>>
  PROVE  CacheInv'
<1>1. TypeOK /\ Linked /\ KeysFit /\ Conserved
  BY DEF CacheInv
<1>2. UNCHANGED <<made, key, reentrant, wake, loopDone, hand, gone, closePC, unlinked>>
  BY DEF loopVars, workerVars
<1>3. /\ list' \in Lists /\ items' \in [Keys -> Ref] /\ left' \in [Nodes -> Int]
      /\ m \in Nodes /\ m <= made
      /\ Mapped' = Mapped \ {m}
      /\ Linked' /\ KeysFit'
  BY <1>1, <1>2, TakesOut
<1>4. \/ /\ crashed' = TRUE /\ mu' = next /\ finalizeCh' = finalizeCh /\ finalized' = finalized
      \/ /\ crashed' = FALSE /\ mu' = next /\ finalized' = finalized
         /\ Len(finalizeCh) < Buf /\ finalizeCh' = Append(finalizeCh, m)
      \/ /\ crashed' = FALSE /\ mu' = "stuck" /\ finalizeCh' = finalizeCh /\ finalized' = finalized
      \/ /\ crashed' = FALSE /\ mu' = next /\ finalizeCh' = finalizeCh
         /\ finalized' = [finalized EXCEPT ![m] = @ + 1]
  BY <1>1 DEF ScheduleFinalize, finalVars, TypeOK
<1>5. TypeOK'
  <2>1. finalizeCh \in Seq(Nodes) /\ Len(finalizeCh) <= Buf /\ finalized \in [Nodes -> Nat]
           /\ Len(finalizeCh) \in Nat /\ Buf \in Nat
    BY <1>1, CacheAssumption DEF TypeOK
  <2>2. finalizeCh' \in Seq(Nodes) /\ Len(finalizeCh') <= Buf
    <3>1. Append(finalizeCh, m) \in Seq(Nodes) /\ Len(Append(finalizeCh, m)) = Len(finalizeCh) + 1
      BY <2>1, <1>3
    <3>2. QED
      BY <3>1, <2>1, <1>4, SMTT(30)
  <2>3. finalized' \in [Nodes -> Nat]
    BY <2>1, <1>3, <1>4
  <2>4. mu' \in {"free", "cleanup", "stuck"} /\ crashed' \in BOOLEAN
    BY <1>4
  <2>5. QED
    BY <2>2, <2>3, <2>4, <1>1, <1>2, <1>3 DEF TypeOK, Lists
<1>6. Conserved'
  <2>1. CASE crashed' = TRUE \/ mu' = "stuck"
    BY <2>1 DEF Conserved
  <2>2. CASE crashed' = FALSE /\ mu' # "stuck"
    <3>1. ASSUME NEW n \in Nodes
          PROVE  PlacesByMap(n)' = PlacesByMap(n)
      <4>1. /\ Occurs(finalizeCh, n) \in Nat /\ Holders(hand, n) \in Nat
            /\ finalizeCh \in Seq(Nodes) /\ finalized \in [Nodes -> Nat]
        BY <1>1, CountsAreNat DEF TypeOK
      <4>2. Occurs(Append(finalizeCh, m), n) = Occurs(finalizeCh, n) + IF m = n THEN 1 ELSE 0
        BY <4>1, <1>3, OccursAppend
      <4>3. /\ PlacesByMap(n) = finalized[n] + Occurs(finalizeCh, n) + Holders(hand, n)
                  + (IF n \in Mapped THEN 1 ELSE 0) + (IF n \in unlinked THEN 1 ELSE 0)
            /\ PlacesByMap(n)' = finalized'[n] + Occurs(finalizeCh', n) + Holders(hand, n)
                  + (IF n \in Mapped \ {m} THEN 1 ELSE 0) + (IF n \in unlinked THEN 1 ELSE 0)
        BY <1>2, <1>3 DEF PlacesByMap
      <4>4. CASE finalizeCh' = finalizeCh /\ finalized' = [finalized EXCEPT ![m] = @ + 1]
        <5>1. finalized'[n] = finalized[n] + IF m = n THEN 1 ELSE 0
          BY <4>1, <4>4, <1>3
        <5>2. Occurs(finalizeCh', n) = Occurs(finalizeCh, n)
          BY <4>4
        <5>3. finalized[n] \in Nat
          BY <4>1
        <5>4. QED
          BY <5>1, <5>2, <5>3, <4>1, <4>3
      <4>5. CASE finalizeCh' = Append(finalizeCh, m) /\ finalized' = finalized
        <5>1. Occurs(finalizeCh', n) = Occurs(finalizeCh, n) + IF m = n THEN 1 ELSE 0
          BY <4>2, <4>5
        <5>2. finalized'[n] = finalized[n] /\ finalized[n] \in Nat
          BY <4>1, <4>5
        <5>3. QED
          BY <5>1, <5>2, <4>1, <4>3
      <4>6. QED
        BY <2>2, <4>4, <4>5, <1>4
    <3>2. QED
      BY <3>1, <1>1, <1>2 DEF Conserved
  <2>3. QED
    BY <2>1, <2>2, <1>4
<1>7. QED
  BY <1>3, <1>5, <1>6 DEF CacheInv

\* A Set puts a new node at the head; the old one of its key is gone.
LEMMA Puts ==
  ASSUME CacheInv, NEW k \in Keys, NEW ttl \in Nat, Put(k, ttl)
  PROVE  CacheInv'
<1> DEFINE x == made + 1
           old == items[k]
<1>1. TypeOK /\ Linked /\ KeysFit /\ Conserved
  BY DEF CacheInv
<1>2. /\ ~crashed /\ mu = "free" /\ x \in Nodes
      /\ made' = x
      /\ key' = [key EXCEPT ![x] = k]
      /\ left' = [m \in Nodes |-> CASE m = x -> ttl [] m = old -> -1 [] OTHER -> left[m]]
      /\ list' = InsertHead(IF old = Nil THEN list ELSE RemoveNode(list, old), x)
      /\ unlinked' = IF old = Nil THEN unlinked ELSE unlinked \cup {old}
      /\ items' = [items EXCEPT ![k] = x]
  BY DEF Put, Free
<1>3. UNCHANGED <<reentrant, mu, wake, loopDone, finalizeCh, finalized, hand, gone, closePC, crashed>>
  BY DEF Put, loopVars, finalVars, workerVars
<1>4. /\ made \in Nat /\ 1..made \subseteq Nodes /\ x \in Nat /\ x # Nil /\ x \notin 1..made
      /\ old \in Ref /\ (old # Nil => old \in 1..made /\ key[old] = k)
      /\ items \in [Keys -> Ref] /\ key \in [Nodes -> Keys] /\ left \in [Nodes -> Int]
      /\ list \in Lists
  BY <1>1, <1>2, Refs, SMTT(30) DEF TypeOK, KeysFit, Nodes, Lists
<1> HIDE DEF x, old
<1>5. /\ items' \in [Keys -> Ref] /\ \A j \in Keys : items'[j] = IF j = k THEN x ELSE items[j]
  BY <1>2, <1>4, Refs
<1>6. key' \in [Nodes -> Keys] /\ \A m \in Nodes : key'[m] = IF m = x THEN k ELSE key[m]
  BY <1>2, <1>4
<1>7. Mapped' = (Mapped \ {old}) \cup {x}
  <2>1. \A j \in Keys : items[j] = old /\ old # Nil => j = k
    BY <1>1, <1>4 DEF KeysFit
  <2>2. \A j \in Keys : items[j] = old /\ j # k => old = Nil
    BY <2>1
  <2>3. items[k] = old
    BY DEF old
  <2>4. QED
    BY <2>2, <2>3, <1>4, <1>5 DEF Mapped
<1>8. Mapped \subseteq 1..made
  BY <1>1 DEF Mapped, KeysFit
<1>9. old # Nil => old \in Mapped
  BY DEF Mapped, old
<1>10. KeysFit'
  <2>1. ASSUME NEW j \in Keys, items'[j] # Nil
        PROVE  items'[j] \in 1..x /\ key'[items'[j]] = j
    <3>1. CASE j = k
      <4>1. x \in 1..x
        BY <1>4, Refs
      <4>2. items'[j] = x /\ key'[x] = k
        BY <3>1, <1>2, <1>5, <1>6
      <4>3. QED
        BY <3>1, <4>1, <4>2
    <3>2. CASE j # k
      <4>1. items'[j] = items[j] /\ items[j] \in 1..made /\ key[items[j]] = j
        BY <2>1, <3>2, <1>1, <1>5 DEF KeysFit
      <4>2. items[j] # x /\ items[j] \in Nodes /\ 1..made \subseteq 1..x
        BY <4>1, <1>4 DEF x
      <4>3. QED
        BY <4>1, <4>2, <1>6
    <3>3. QED
      BY <3>1, <3>2
  <2>2. QED
    BY <2>1, <1>2 DEF KeysFit
<1>11. PICK l, n, s : /\ l = IF old = Nil THEN list ELSE RemoveNode(list, old)
                      /\ l \in Lists /\ Order(l, n, s)
                      /\ \A m \in Nodes : (\E i \in Int : s[i] = m) <=> m \in Mapped \ {old}
  <2>1. PICK n, s : /\ Order(list, n, s)
                    /\ \A m \in Nodes : (\E i \in Int : s[i] = m) <=> m \in Mapped
    BY <1>1 DEF Linked
  <2>2. CASE old = Nil
    <3>1. Mapped \ {old} = Mapped
      BY <2>2 DEF Mapped
    <3>2. QED
      BY <2>1, <2>2, <3>1, <1>4
  <2>3. CASE old # Nil
    <3>1. PICK p \in Int : s[p] = old
      BY <2>1, <2>3, <1>4, <1>9
    <3> DEFINE t == [i \in Int |-> IF i < p THEN s[i] ELSE s[i + 1]]
    <3>2. RemoveNode(list, old) \in Lists /\ Order(RemoveNode(list, old), n - 1, t)
      BY <2>1, <2>3, <3>1, <1>4, RemoveOrder
    <3>3. Injective(s) /\ s[p] # Nil /\ Skips(t, s, p)
      BY <2>1, <2>3, <3>1 DEF Order, Injective, Skips
    <3> HIDE DEF t
    <3>4. ASSUME NEW m \in Nodes
          PROVE  (\E i \in Int : t[i] = m) <=> m \in Mapped \ {old}
      <4>1. IsIn(m, t) <=> IsIn(m, s) /\ m # s[p]
        BY <3>3, Skipped
      <4>2. QED
        BY <4>1, <3>1, <2>1 DEF IsIn
    <3>5. QED
      BY <2>3, <3>2, <3>4
  <2>4. QED
    BY <2>2, <2>3
<1>12. \A i \in Int : s[i] # x
  BY <1>2, <1>4, <1>8, <1>11
<1> DEFINE t == [i \in Int |-> IF i = 0 THEN x ELSE s[i - 1]]
<1>13. list' \in Lists /\ Order(list', n + 1, t)
  BY <1>2, <1>11, <1>12, InsertOrder
<1>14. Linked'
  <2>1. \A i \in Int : t[i] = IF i = 0 THEN x ELSE s[i - 1]
    OBVIOUS
  <2> HIDE DEF t
  <2>2. ASSUME NEW m \in Nodes
        PROVE  (\E i \in Int : t[i] = m) <=> m \in Mapped'
    <3>1. CASE m = x
      BY <3>1, <2>1, <1>7
    <3>2. CASE m # x
      <4>1. m \in Mapped' <=> \E i \in Int : s[i] = m
        BY <3>2, <1>7, <1>11
      <4>2. ASSUME NEW i \in Int, t[i] = m PROVE \E j \in Int : s[j] = m
        <5>1. i - 1 \in Int /\ s[i - 1] = m
          BY <4>2, <3>2, <2>1
        <5>2. QED
          BY <5>1
      <4>3. ASSUME NEW i \in Int, s[i] = m PROVE \E j \in Int : t[j] = m
        <5>1. 0 <= i
          BY <4>3, <1>11, Refs DEF Order
        <5>2. i + 1 \in Int /\ i + 1 # 0 /\ (i + 1) - 1 = i
          BY <5>1
        <5>3. t[i + 1] = m
          BY <5>2, <2>1, <4>3
        <5>4. QED
          BY <5>2, <5>3
      <4>4. QED
        BY <4>1, <4>2, <4>3
    <3>3. QED
      BY <3>1, <3>2
  <2>3. QED
    BY <2>2, <1>13 DEF Linked
<1>15. TypeOK'
  <2>1. left' \in [Nodes -> Int]
    <3>1. ASSUME NEW m \in Nodes
          PROVE  (CASE m = x -> ttl [] m = old -> -1 [] OTHER -> left[m]) \in Int
      <4>1. x # old
        BY <1>4
      <4>2. CASE m = x
        BY <4>1, <4>2
      <4>3. CASE m # x
        BY <4>1, <4>3, <1>4
      <4>4. QED
        BY <4>2, <4>3
    <3>2. QED
      BY <3>1, <1>2
  <2>2. made' \in 0..MaxNodes /\ unlinked' \subseteq Nodes
    BY <1>1, <1>2, <1>4 DEF TypeOK, Nodes
  <2>3. QED
    BY <2>1, <2>2, <1>1, <1>3, <1>5, <1>6, <1>13 DEF TypeOK, Lists
<1>16. Conserved'
  <2>1. ASSUME NEW n_ \in Nodes
        PROVE  PlacesByMap(n_)' = IF n_ <= made' THEN 1 ELSE 0
    <3>1. PlacesByMap(n_) = IF n_ <= made THEN 1 ELSE 0
      BY <1>1, <1>2 DEF Conserved
    <3>2. /\ Occurs(finalizeCh, n_) \in Nat /\ Holders(hand, n_) \in Nat /\ finalized[n_] \in Nat
      BY <1>1, CountsAreNat DEF TypeOK
    <3>3. /\ PlacesByMap(n_) = finalized[n_] + Occurs(finalizeCh, n_) + Holders(hand, n_)
                  + (IF n_ \in Mapped THEN 1 ELSE 0) + (IF n_ \in unlinked THEN 1 ELSE 0)
          /\ PlacesByMap(n_)' = finalized[n_] + Occurs(finalizeCh, n_) + Holders(hand, n_)
                  + (IF n_ \in Mapped' THEN 1 ELSE 0) + (IF n_ \in unlinked' THEN 1 ELSE 0)
      BY <1>3 DEF PlacesByMap
    <3>4. n_ \in Nat
      BY Refs
    <3>5. CASE n_ = x
      <4>1. n_ \notin Mapped /\ n_ \in Mapped' /\ n_ # old /\ (n_ \in unlinked' <=> n_ \in unlinked)
        BY <3>5, <1>2, <1>4, <1>7, <1>8
      <4>2. ~(n_ <= made) /\ n_ <= made'
        BY <3>5, <1>2, <1>4 DEF x
      <4>3. QED
        BY <3>1, <3>2, <3>3, <4>1, <4>2
    <3>6. CASE n_ = old
      <4>1. n_ \in Mapped /\ n_ \notin Mapped' /\ n_ \in unlinked' /\ n_ <= made /\ n_ <= made'
        <5>1. n_ # Nil /\ n_ \in 1..made /\ n_ # x /\ made <= x
          BY <3>6, <1>4, Refs DEF x
        <5>2. QED
          BY <5>1, <3>6, <1>2, <1>4, <1>7, <1>9
      <4>2. QED
        BY <3>1, <3>2, <3>3, <4>1
    <3>7. CASE n_ # x /\ n_ # old
      <4>1. (n_ \in Mapped' <=> n_ \in Mapped) /\ (n_ \in unlinked' <=> n_ \in unlinked)
        BY <3>7, <1>2, <1>7
      <4>2. n_ <= made' <=> n_ <= made
        BY <3>4, <3>7, <1>2, <1>4 DEF x
      <4>3. QED
        BY <3>1, <3>2, <3>3, <4>1, <4>2
    <3>8. QED
      BY <3>5, <3>6, <3>7
  <2>2. QED
    BY <2>1 DEF Conserved
<1>17. QED
  BY <1>10, <1>14, <1>15, <1>16 DEF CacheInv


\* PopTail takes a node out for good.
LEMMA Pops ==
  ASSUME CacheInv, PopTail
  PROVE  CacheInv'
<1> DEFINE m == list.tail
<1>1. TypeOK /\ Linked /\ KeysFit /\ Conserved
  BY DEF CacheInv
<1>2. ~crashed /\ mu = "free" /\ m # Nil /\ TakeOut(m) /\ unlinked' = unlinked \cup {m}
  BY DEF PopTail, Free
<1>3. UNCHANGED <<reentrant, made, key, mu, wake, loopDone, finalizeCh, finalized, hand, gone,
                  closePC, crashed>>
  BY DEF PopTail, loopVars, finalVars, workerVars
<1>4. m \in Mapped
  BY <1>1, <1>2, TailIsMapped
<1> HIDE DEF m
<1>5. /\ list' \in Lists /\ items' \in [Keys -> Ref] /\ left' \in [Nodes -> Int]
      /\ m \in Nodes /\ m <= made
      /\ Mapped' = Mapped \ {m}
      /\ Linked' /\ KeysFit'
  BY <1>1, <1>2, <1>3, <1>4, TakesOut
<1>6. TypeOK'
  BY <1>1, <1>2, <1>3, <1>5 DEF TypeOK, Lists
<1>7. Conserved'
  <2>1. ASSUME NEW n \in Nodes
        PROVE  PlacesByMap(n)' = IF n <= made' THEN 1 ELSE 0
    <3>1. PlacesByMap(n) = IF n <= made THEN 1 ELSE 0
      BY <1>1, <1>2 DEF Conserved
    <3>2. /\ Occurs(finalizeCh, n) \in Nat /\ Holders(hand, n) \in Nat /\ finalized[n] \in Nat
      BY <1>1, CountsAreNat DEF TypeOK
    <3>3. /\ PlacesByMap(n) = finalized[n] + Occurs(finalizeCh, n) + Holders(hand, n)
                  + (IF n \in Mapped THEN 1 ELSE 0) + (IF n \in unlinked THEN 1 ELSE 0)
          /\ PlacesByMap(n)' = finalized[n] + Occurs(finalizeCh, n) + Holders(hand, n)
                  + (IF n \in Mapped \ {m} THEN 1 ELSE 0) + (IF n \in unlinked \cup {m} THEN 1 ELSE 0)
      BY <1>2, <1>3, <1>5 DEF PlacesByMap
    <3>4. CASE n = m
      BY <3>1, <3>2, <3>3, <3>4, <1>3, <1>4, <1>5
    <3>5. CASE n # m
      <4>1. (n \in Mapped \ {m} <=> n \in Mapped) /\ (n \in unlinked \cup {m} <=> n \in unlinked)
        BY <3>5
      <4>2. QED
        BY <3>1, <3>2, <3>3, <4>1, <1>3
    <3>6. QED
      BY <3>4, <3>5
  <2>2. QED
    BY <2>1 DEF Conserved
<1>8. QED
  BY <1>5, <1>6, <1>7 DEF CacheInv

\* A worker passes a node on: from the channel to its hands, and to the finalizer.
LEMMA WorkerSteps ==
  ASSUME CacheInv, NEW w \in Workers, Worker(w)
  PROVE  CacheInv'
<1>1. TypeOK /\ Linked /\ KeysFit /\ Conserved
  BY DEF CacheInv
<1>2. UNCHANGED <<reentrant, made, key, left, items, list, unlinked, mu, wake, loopDone, closePC, crashed>>
  BY DEF Worker, WorkerTake, WorkerFinalizes, WorkerEnd, dataVars, loopVars
<1>3. Mapped' = Mapped
  BY <1>2 DEF Mapped
<1>4. Linked' /\ KeysFit'
  <2>1. Linked'
    BY <1>1, <1>2, <1>3 DEF Linked
  <2>2. KeysFit'
    BY <1>1, <1>2 DEF KeysFit
  <2>3. QED
    BY <2>1, <2>2
<1>5. /\ finalizeCh \in Seq(Nodes) /\ Len(finalizeCh) <= Buf /\ Buf \in Nat
      /\ hand \in [Workers -> Ref] /\ finalized \in [Nodes -> Nat]
      /\ gone \subseteq Workers /\ IsFiniteSet(Workers) /\ Nil \notin Nodes /\ Nil \in Ref
      /\ Nodes \subseteq Ref
  BY <1>1, Refs, CacheAssumption DEF TypeOK
<1>6. ASSUME NEW n \in Nodes
      PROVE  /\ PlacesByMap(n) = finalized[n] + Occurs(finalizeCh, n) + Holders(hand, n)
                  + (IF n \in Mapped THEN 1 ELSE 0) + (IF n \in unlinked THEN 1 ELSE 0)
             /\ PlacesByMap(n)' = finalized'[n] + Occurs(finalizeCh', n) + Holders(hand', n)
                  + (IF n \in Mapped THEN 1 ELSE 0) + (IF n \in unlinked THEN 1 ELSE 0)
             /\ Occurs(finalizeCh, n) \in Nat /\ Holders(hand, n) \in Nat /\ finalized[n] \in Nat
  BY <1>1, <1>2, <1>3, <1>5, CountsAreNat DEF PlacesByMap
<1>7. ASSUME \A n \in Nodes : PlacesByMap(n)' = PlacesByMap(n)
      PROVE  Conserved'
  BY <1>1, <1>2, <1>7 DEF Conserved
<1>8. CASE WorkerTake(w)
  <2>1. /\ hand[w] = Nil /\ finalizeCh # <<>>
        /\ hand' = [hand EXCEPT ![w] = Head(finalizeCh)]
        /\ finalizeCh' = Tail(finalizeCh)
        /\ finalized' = finalized /\ gone' = gone
    BY <1>8 DEF WorkerTake
  <2>2. /\ Head(finalizeCh) \in Nodes
        /\ Tail(finalizeCh) \in Seq(Nodes) /\ Len(Tail(finalizeCh)) <= Buf
    <3>1. Head(finalizeCh) \in Nodes /\ Tail(finalizeCh) \in Seq(Nodes)
            /\ Len(Tail(finalizeCh)) = Len(finalizeCh) - 1
      BY <1>5, <2>1, HeadTailProperties
    <3>2. Len(finalizeCh) \in Nat
      BY <1>5
    <3>3. QED
      BY <3>1, <3>2, <1>5
  <2>3. hand' \in [Workers -> Ref]
    BY <1>5, <2>1, <2>2
  <2>4. TypeOK'
    BY <1>1, <1>2, <2>1, <2>2, <2>3 DEF TypeOK
  <2>5. ASSUME NEW n \in Nodes PROVE PlacesByMap(n)' = PlacesByMap(n)
    <3>1. Occurs(finalizeCh', n) = Occurs(finalizeCh, n) - IF Head(finalizeCh) = n THEN 1 ELSE 0
      BY <1>5, <2>1, OccursTail
    <3>2. Holders(hand', n) = Holders(hand, n) - (IF hand[w] = n THEN 1 ELSE 0)
                                  + (IF Head(finalizeCh) = n THEN 1 ELSE 0)
      <4>1. /\ DOMAIN hand = Workers /\ DOMAIN hand' = Workers /\ hand'[w] = Head(finalizeCh)
            /\ \A u \in Workers : u # w => hand'[u] = hand[u]
        BY <1>5, <2>1
      <4>2. QED
        BY <4>1, <1>5, HoldersExcept
    <3>3. hand[w] # n /\ finalized'[n] = finalized[n]
      BY <1>5, <2>1
    <3>4. QED
      BY <3>1, <3>2, <3>3, <1>6
  <2>6. QED
    BY <1>4, <1>7, <2>4, <2>5 DEF CacheInv
<1>9. CASE WorkerFinalizes(w)
  <2> DEFINE m == hand[w]
  <2>1. /\ m # Nil
        /\ finalized' = [finalized EXCEPT ![m] = @ + 1]
        /\ hand' = [hand EXCEPT ![w] = Nil]
        /\ finalizeCh' = finalizeCh /\ gone' = gone
    BY <1>9 DEF WorkerFinalizes
  <2>2. m \in Nodes
    BY <1>5, <2>1, Refs
  <2>3. hand' \in [Workers -> Ref]
    BY <1>5, <2>1
  <2>4. finalized' \in [Nodes -> Nat]
    BY <1>5, <2>1, <2>2
  <2>5. TypeOK'
    BY <1>1, <1>2, <2>1, <2>3, <2>4 DEF TypeOK
  <2>6. ASSUME NEW n \in Nodes PROVE PlacesByMap(n)' = PlacesByMap(n)
    <3>1. Holders(hand', n) = Holders(hand, n) - (IF m = n THEN 1 ELSE 0) + (IF Nil = n THEN 1 ELSE 0)
      <4>1. /\ DOMAIN hand = Workers /\ DOMAIN hand' = Workers /\ hand'[w] = Nil
            /\ \A u \in Workers : u # w => hand'[u] = hand[u]
        BY <1>5, <2>1
      <4>2. QED
        BY <4>1, <1>5, HoldersExcept
    <3>2. Nil # n /\ Occurs(finalizeCh', n) = Occurs(finalizeCh, n)
            /\ finalized'[n] = finalized[n] + IF m = n THEN 1 ELSE 0
      BY <1>5, <2>1, <2>2
    <3> HIDE DEF m
    <3>3. QED
      BY <3>1, <3>2, <1>6
  <2>7. QED
    BY <1>4, <1>7, <2>5, <2>6 DEF CacheInv
<1>10. CASE WorkerEnd(w)
  <2>1. gone' = gone \cup {w} /\ UNCHANGED <<finalizeCh, finalized, hand>>
    BY <1>10 DEF WorkerEnd, finalVars
  <2>2. TypeOK'
    BY <1>1, <1>2, <1>5, <2>1 DEF TypeOK
  <2>3. ASSUME NEW n \in Nodes PROVE PlacesByMap(n)' = PlacesByMap(n)
    BY <2>1, <1>6
  <2>4. QED
    BY <1>4, <1>7, <2>2, <2>3 DEF CacheInv
<1>11. QED
  BY <1>8, <1>9, <1>10 DEF Worker

\* What moves no node, and keeps a cache that has come to a stop stopped.
LEMMA Stays ==
  ASSUME CacheInv, TypeOK',
         UNCHANGED <<made, key, items, list, unlinked, finalizeCh, finalized, hand>>,
         crashed => crashed', mu = "stuck" => mu' = "stuck" \/ crashed'
  PROVE  CacheInv'
<1>1. Mapped' = Mapped
  BY DEF Mapped
<1>2. Linked' /\ KeysFit'
  BY <1>1 DEF CacheInv, Linked, KeysFit
<1>3. Conserved'
  <2>1. \A n \in Nodes : PlacesByMap(n)' = PlacesByMap(n)
    BY <1>1 DEF PlacesByMap
  <2>2. QED
    BY <2>1 DEF CacheInv, Conserved
<1>4. QED
  BY <1>2, <1>3 DEF CacheInv

\* Every step keeps the invariant.
LEMMA CacheStep == CacheInv /\ [Next]_vars => CacheInv'
<1> SUFFICES ASSUME CacheInv, [Next]_vars PROVE CacheInv'
  OBVIOUS
<1>1. TypeOK /\ Linked /\ KeysFit
  BY DEF CacheInv
<1>2. ASSUME NEW k \in Keys, Set(k) \/ SetWithTTL(k) PROVE CacheInv'
  BY <1>2, CacheAssumption, Puts DEF Set, SetWithTTL
<1>3. ASSUME NEW k \in Keys, Get(k) \/ Delete(k) PROVE CacheInv'
  <2>1. Remove(k)
    BY <1>3 DEF Get, Delete
  <2>2. items[k] \in Mapped
    BY <2>1 DEF Remove, Mapped
  <2>3. QED
    BY <2>1, <2>2, Schedules DEF Remove, Free
<1>4. CASE PopTail
  BY <1>4, Pops
<1>5. CASE CleanupOne
  <2>1. list.tail \in Mapped
    BY <1>1, <1>5, TailIsMapped DEF CleanupOne
  <2>2. QED
    BY <2>1, <1>5, Schedules DEF CleanupOne
<1>6. CASE LoopWakes \/ LoopStops \/ CleanupEnd
  <2>1. /\ UNCHANGED <<reentrant, made, key, left, items, list, unlinked, finalizeCh, finalized,
                       hand, gone, closePC, crashed>>
        /\ mu # "stuck" \/ mu' = mu
        /\ mu' \in {"free", "cleanup", "stuck"} /\ wake' \in BOOLEAN /\ loopDone' \in BOOLEAN
    BY <1>1, <1>6 DEF LoopWakes, LoopStops, CleanupEnd, Free, TypeOK, dataVars, finalVars, workerVars
  <2>2. TypeOK'
    BY <1>1, <2>1 DEF TypeOK
  <2>3. QED
    BY <2>1, <2>2, Stays
<1>7. CASE Close \/ CloseAgain
  <2>1. /\ UNCHANGED <<reentrant, made, key, left, items, list, unlinked, mu, wake, loopDone,
                       finalizeCh, finalized, hand, gone>>
        /\ crashed => crashed'
        /\ crashed' \in BOOLEAN /\ closePC' \in {"no", "stopped", "stopClosed", "closed"}
    BY <1>1, <1>7 DEF Close, CloseAt, CloseAgain, Free, TypeOK, dataVars, loopVars, finalVars, workerVars
  <2>2. TypeOK'
    BY <1>1, <2>1 DEF TypeOK
  <2>3. QED
    BY <2>1, <2>2, Stays
<1>8. CASE Tick
  <2>1. /\ UNCHANGED <<reentrant, made, key, items, list, unlinked, mu, wake, loopDone,
                       finalizeCh, finalized, hand, gone, closePC, crashed>>
        /\ left' = [n \in Nodes |-> IF Expired(n) THEN left[n] ELSE left[n] - 1]
    BY <1>8 DEF Tick, loopVars, finalVars, workerVars
  <2>2. left' \in [Nodes -> Int]
    BY <1>1, <2>1 DEF TypeOK
  <2>3. TypeOK'
    BY <1>1, <2>1, <2>2 DEF TypeOK
  <2>4. QED
    BY <2>1, <2>3, Stays
<1>9. ASSUME NEW w \in Workers, Worker(w) PROVE CacheInv'
  BY <1>9, WorkerSteps
<1>10. CASE UNCHANGED vars
  <2>1. UNCHANGED <<reentrant, made, key, left, items, list, unlinked, mu, wake, loopDone,
                    finalizeCh, finalized, hand, gone, closePC, crashed>>
    BY <1>10 DEF vars, dataVars, loopVars, finalVars, workerVars
  <2>2. TypeOK'
    BY <1>1, <2>1 DEF TypeOK
  <2>3. QED
    BY <2>1, <2>2, Stays
<1>11. QED
  BY <1>2, <1>3, <1>4, <1>5, <1>6, <1>7, <1>8, <1>9, <1>10 DEF Next, Loop

-----------------------------------------------------------------------------
(* The theorems *)

\* The inductive invariant holds throughout.
THEOREM CacheCorrect == Spec => []CacheInv
BY InitCacheInv, CacheStep, PTL DEF Spec

\* The variables of the cache keep their types (pkg/lru/cache.go:20-52).
THEOREM CacheTypes == Spec => []TypeOK
<1>1. CacheInv => TypeOK
  BY DEF CacheInv
<1>2. QED
  BY <1>1, CacheCorrect, PTL

\* The pointers make one list both ways, of the nodes of the map, through every
\* sequence of calls (pkg/lru/cache.go:96-117, 171-196).
THEOREM CacheList == Spec => []ListIsMap
<1>1. CacheInv => ListIsMap
  BY LinkedIsListed DEF CacheInv
<1>2. QED
  BY <1>1, CacheCorrect, PTL

\* No node is lost or finalized twice unless the process panics or a reentrant
\* finalizer keeps the mutex (pkg/lru/cache.go:199-215).
THEOREM CacheNodes == Spec => []NodesConserved
<1>1. CacheInv => NodesConserved
  <2> SUFFICES ASSUME CacheInv PROVE NodesConserved
    OBVIOUS
  <2>1. Listed = Mapped /\ made \in 0..MaxNodes /\ Conserved
    BY LinkedIsListed DEF CacheInv, TypeOK
  <2>2. \A n \in 1..made : n \in Nodes /\ n <= made /\ Places(n) = PlacesByMap(n)
    BY <2>1, Refs DEF Places, PlacesByMap, Nodes
  <2>3. QED
    BY <2>1, <2>2 DEF NodesConserved, Conserved
<1>2. QED
  BY <1>1, CacheCorrect, PTL

-----------------------------------------------------------------------------
(* The cache as LayerCache sees it: the list that CacheLayer reads off the *)
(* pointers, along the order of its nodes                                  *)

LayerEntry == [key : Keys, value : Nodes, left : Int]
EntryOf(m, ky, lf) == [key |-> ky[m], value |-> m, left |-> lf[m]]
Reading(n, s, ky, lf) == [i \in 1..n |-> EntryOf(s[n - i], ky, lf)]

Mirrors == \A n, s : Order(list, n, s) => AsLayer = Reading(n, s, key, left)

\* The list that is read is a list of entries, one per node.
LEMMA ReadingIs ==
  ASSUME NEW l, NEW n, NEW s, Order(l, n, s),
         NEW ky \in [Nodes -> Keys], NEW lf \in [Nodes -> Int]
  PROVE  /\ n \in Nat
         /\ \A i \in 1..n : n - i \in Int /\ s[n - i] \in Nodes /\ s[n - i] # Nil
         /\ Reading(n, s, ky, lf) \in Seq(LayerEntry) /\ Len(Reading(n, s, ky, lf)) = n
         /\ \A i \in 1..n : Reading(n, s, ky, lf)[i] = EntryOf(s[n - i], ky, lf)
<1>1. n \in Nat /\ s \in [Int -> Ref] /\ \A i \in Int : s[i] # Nil <=> 0 <= i /\ i < n
  BY DEF Order
<1>2. ASSUME NEW i \in 1..n PROVE n - i \in Int /\ s[n - i] \in Nodes /\ s[n - i] # Nil
  <2>1. n - i \in Int /\ 0 <= n - i /\ n - i < n
    BY <1>1
  <2>2. QED
    BY <2>1, <1>1, Refs
<1>3. \A m \in Nodes : EntryOf(m, ky, lf) \in LayerEntry
  BY DEF EntryOf, LayerEntry
<1>4. \A i \in 1..n : EntryOf(s[n - i], ky, lf) \in LayerEntry
  BY <1>2, <1>3
<1>5. Reading(n, s, ky, lf) \in [1..n -> LayerEntry]
  BY <1>4 DEF Reading
<1>6. Reading(n, s, ky, lf) \in Seq(LayerEntry) /\ Len(Reading(n, s, ky, lf)) = n
  <2> DEFINE R == Reading(n, s, ky, lf)
  <2>1. R \in [1..n -> LayerEntry]
    BY <1>5
  <2> HIDE DEF R
  <2>2. R \in Seq(LayerEntry) /\ Len(R) = n
    BY <2>1, <1>1
  <2>3. QED
    BY <2>2 DEF R
<1>7. \A i \in 1..n : Reading(n, s, ky, lf)[i] = EntryOf(s[n - i], ky, lf)
  BY DEF Reading
<1>8. QED
  BY <1>1, <1>2, <1>6, <1>7

\* What nodes outside the list say does not matter.
LEMMA ReadingSame ==
  ASSUME NEW l, NEW n, NEW s, Order(l, n, s), NEW ky, NEW lf, NEW ky2, NEW lf2,
         \A i \in Int : s[i] # Nil => ky2[s[i]] = ky[s[i]] /\ lf2[s[i]] = lf[s[i]]
  PROVE  Reading(n, s, ky2, lf2) = Reading(n, s, ky, lf)
<1>1. n \in Nat /\ \A i \in Int : s[i] # Nil <=> 0 <= i /\ i < n
  BY DEF Order
<1>2. ASSUME NEW i \in 1..n PROVE EntryOf(s[n - i], ky2, lf2) = EntryOf(s[n - i], ky, lf)
  <2>1. n - i \in Int /\ 0 <= n - i /\ n - i < n
    BY <1>1
  <2>2. s[n - i] # Nil
    BY <2>1, <1>1
  <2>3. QED
    BY <2>1, <2>2 DEF EntryOf
<1>3. QED
  BY <1>2 DEF Reading

\* Without one of its nodes.
LEMMA ReadingCut ==
  ASSUME NEW l, NEW n, NEW s, Order(l, n, s), NEW t, NEW p \in Int, s[p] # Nil, Skips(t, s, p),
         NEW ky \in [Nodes -> Keys], NEW lf \in [Nodes -> Int],
         NEW ky2 \in [Nodes -> Keys], NEW lf2 \in [Nodes -> Int],
         \A i \in Int : s[i] # Nil /\ i # p => ky2[s[i]] = ky[s[i]] /\ lf2[s[i]] = lf[s[i]],
         NEW h, Order(h, n - 1, t)
  PROVE  /\ n - p \in 1..n
         /\ Reading(n - 1, t, ky2, lf2) = Cut(Reading(n, s, ky, lf), n - p)
<1> DEFINE L == Reading(n, s, ky, lf)
           R == Reading(n - 1, t, ky2, lf2)
           c == n - p
<1>1. n \in Nat /\ \A i \in Int : s[i] # Nil <=> 0 <= i /\ i < n
  BY DEF Order
<1>2. 0 <= p /\ p < n
  BY <1>1
<1>3. c \in 1..n
  BY <1>1, <1>2
<1>4. L \in Seq(LayerEntry) /\ Len(L) = n /\ \A i \in 1..n : L[i] = EntryOf(s[n - i], ky, lf)
  <2>1. Order(l, n, s) /\ ky \in [Nodes -> Keys] /\ lf \in [Nodes -> Int]
    OBVIOUS
  <2> HIDE DEF L
  <2>2. QED
    BY ONLY <2>1, ReadingIs DEF L
<1>5. /\ R \in Seq(LayerEntry) /\ Len(R) = n - 1
      /\ \A i \in 1..(n - 1) : R[i] = EntryOf(t[(n - 1) - i], ky2, lf2)
  BY ReadingIs
<1> HIDE DEF L, R
<1>6. /\ Cut(L, c) \in Seq(LayerEntry)
      /\ Len(Cut(L, c)) = n - 1
      /\ \A m \in 1..(n - 1) : Cut(L, c)[m] = IF m < c THEN L[m] ELSE L[m + 1]
  <2> HIDE DEF c
  <2>1. c \in 1..Len(L)
    BY <1>3, <1>4
  <2>2. QED
    BY <2>1, <1>4, CutOut
<1>7. ASSUME NEW i \in 1..(n - 1) PROVE R[i] = Cut(L, c)[i]
  <2> DEFINE j == (n - 1) - i
  <2>1. j \in Int /\ i \in 1..n /\ i + 1 \in 1..n /\ n - i = j + 1 /\ n - (i + 1) = j
           /\ (j < p <=> ~(i < c)) /\ 0 <= j /\ j + 1 < n
    BY <1>1
  <2>2. R[i] = EntryOf(t[j], ky2, lf2) /\ t[j] = IF j < p THEN s[j] ELSE s[j + 1]
    BY <2>1, <1>5 DEF Skips
  <2>3. Cut(L, c)[i] = IF i < c THEN L[i] ELSE L[i + 1]
    BY <1>6
  <2>4. L[i] = EntryOf(s[j + 1], ky, lf) /\ L[i + 1] = EntryOf(s[j], ky, lf)
    <3>1. L[i] = EntryOf(s[n - i], ky, lf) /\ L[i + 1] = EntryOf(s[n - (i + 1)], ky, lf)
      BY <2>1, <1>4
    <3>2. n - i = j + 1 /\ n - (i + 1) = j
      BY <2>1
    <3> HIDE DEF j
    <3>3. QED
      BY <3>1, <3>2
  <2>5. s[j] # Nil /\ s[j + 1] # Nil /\ j + 1 \in Int
    BY <2>1, <1>1
  <2>6. /\ j < p => EntryOf(s[j], ky2, lf2) = EntryOf(s[j], ky, lf)
        /\ ~(j < p) => EntryOf(s[j + 1], ky2, lf2) = EntryOf(s[j + 1], ky, lf)
    <3>1. (j < p => j # p) /\ (~(j < p) => j + 1 # p)
      BY <2>1
    <3> HIDE DEF j
    <3>2. QED
      BY <3>1, <2>1, <2>5 DEF EntryOf
  <2> HIDE DEF j, c
  <2>7. CASE j < p
    BY <2>7, <2>1, <2>2, <2>3, <2>4, <2>6
  <2>8. CASE ~(j < p)
    BY <2>8, <2>1, <2>2, <2>3, <2>4, <2>6
  <2>9. QED
    BY <2>7, <2>8
<1>8. R = Cut(L, c)
  <2> HIDE DEF c
  <2>1. DOMAIN R = 1..(n - 1) /\ DOMAIN Cut(L, c) = 1..(n - 1)
    BY <1>5, <1>6, LenProperties
  <2>2. QED
    BY <2>1, <1>5, <1>6, <1>7, SeqEqual
<1>9. QED
  BY <1>3, <1>8 DEF L, R

\* With a new head.
Leads(t, x, s) == \A i \in Int : t[i] = IF i = 0 THEN x ELSE s[i - 1]

LEMMA ReadingHead ==
  ASSUME NEW l, NEW n, NEW s, Order(l, n, s), NEW x \in Nodes, NEW t, Leads(t, x, s),
         NEW h, Order(h, n + 1, t),
         NEW ky \in [Nodes -> Keys], NEW lf \in [Nodes -> Int]
  PROVE  Reading(n + 1, t, ky, lf) = Append(Reading(n, s, ky, lf), EntryOf(x, ky, lf))
<1> DEFINE L == Reading(n, s, ky, lf)
           R == Reading(n + 1, t, ky, lf)
           e == EntryOf(x, ky, lf)
<1>1. n \in Nat /\ L \in Seq(LayerEntry) /\ Len(L) = n /\ \A i \in 1..n : L[i] = EntryOf(s[n - i], ky, lf)
  <2>1. Order(l, n, s) /\ ky \in [Nodes -> Keys] /\ lf \in [Nodes -> Int]
    OBVIOUS
  <2> HIDE DEF L
  <2>2. QED
    BY ONLY <2>1, ReadingIs DEF L
<1>2. /\ R \in Seq(LayerEntry) /\ Len(R) = n + 1
      /\ \A i \in 1..(n + 1) : R[i] = EntryOf(t[(n + 1) - i], ky, lf)
  <2>1. Order(h, n + 1, t) /\ ky \in [Nodes -> Keys] /\ lf \in [Nodes -> Int]
    OBVIOUS
  <2> HIDE DEF R
  <2>2. QED
    BY ONLY <2>1, ReadingIs DEF R
<1>3. e \in LayerEntry
  BY DEF EntryOf, LayerEntry
<1> HIDE DEF L, R, e
<1>4. /\ Append(L, e) \in Seq(LayerEntry) /\ Len(Append(L, e)) = n + 1
      /\ \A i \in 1..n : Append(L, e)[i] = L[i]
      /\ Append(L, e)[n + 1] = e
  BY <1>1, <1>3, AppendProperties
<1>5. ASSUME NEW i \in 1..(n + 1) PROVE R[i] = Append(L, e)[i]
  <2>1. CASE i = n + 1
    <3>1. (n + 1) - i = 0 /\ t[0] = x
      BY <2>1, <1>1 DEF Leads
    <3>2. R[i] = EntryOf(x, ky, lf)
      BY <3>1, <1>2
    <3>3. QED
      BY <3>2, <2>1, <1>4 DEF e
  <2>2. CASE i # n + 1
    <3>1. i \in 1..n /\ (n + 1) - i \in Int /\ (n + 1) - i # 0 /\ ((n + 1) - i) - 1 = n - i
      BY <2>2, <1>1
    <3>2. t[(n + 1) - i] = s[n - i]
      BY <3>1 DEF Leads
    <3>3. QED
      BY <3>1, <3>2, <1>1, <1>2, <1>4
  <2>3. QED
    BY <2>1, <2>2
<1>6. R = Append(L, e)
  BY <1>1, <1>2, <1>4, <1>5, SeqEqual
<1>7. QED
  BY <1>6 DEF L, R, e

\* The list that CacheLayer reads is the one along the order.
LEMMA InvMirrors == CacheInv => Mirrors
<1> SUFFICES ASSUME CacheInv, NEW n, NEW s, Order(list, n, s)
             PROVE  AsLayer = Reading(n, s, key, left)
  BY DEF Mirrors
<1>1. \A i \in Nat : Forward[i] = s[i]
  BY ForwardInOrder
<1>2. made \in Nat /\ Forward[made] = Nil
  BY Refs, LinkedIsListed DEF CacheInv, TypeOK, ListIsMap
<1>3. n \in Nat /\ \A i \in Int : s[i] # Nil <=> 0 <= i /\ i < n
  BY DEF Order
<1>4. n \in 0..made
  BY <1>1, <1>2, <1>3
<1>5. Size = n
  <2> DEFINE P(m) == Forward[m] = Nil /\ \A i \in 0..m-1 : Forward[i] # Nil
  <2>1. \A m \in 0..made : P(m) => m = n
    <3>1. SUFFICES ASSUME NEW m \in 0..made, P(m), m # n PROVE FALSE
      OBVIOUS
    <3>2. m \in Nat
      BY <1>2
    <3>3. ~(m < n)
      BY <3>1, <3>2, <1>1, <1>3
    <3>4. n \in 0..m-1
      BY <3>1, <3>2, <3>3, <1>3
    <3>5. Forward[n] = Nil
      BY <1>1, <1>3
    <3>6. QED
      BY <3>1, <3>4, <3>5
  <2>2. P(n)
    <3>1. Forward[n] = Nil
      BY <1>1, <1>3
    <3>2. ASSUME NEW i \in 0..n-1 PROVE Forward[i] # Nil
      BY <1>1, <1>3
    <3>3. QED
      BY <3>1, <3>2
  <2>3. Size = CHOOSE m \in 0..made : P(m)
    BY DEF Size
  <2> HIDE DEF P
  <2>4. QED
    BY <2>1, <2>2, <2>3, <1>4
<1>6. ASSUME NEW i \in 1..n PROVE Forward[n - i] = s[n - i]
  <2>1. n - i \in Nat
    BY <1>3
  <2>2. QED
    BY <2>1, <1>1
<1>7. QED
  BY <1>5, <1>6 DEF AsLayer, Reading, EntryOf

LEMMA InvMirrorsNext == CacheInv' => Mirrors'
BY InvMirrors, PTL

\* The entry of a key is where its node is in the list.
LEMMA WithoutKey ==
  ASSUME CacheInv, NEW n, NEW s, Order(list, n, s),
         \A m \in Nodes : (\E i \in Int : s[i] = m) <=> m \in Mapped,
         NEW k \in Keys
  PROVE  /\ AsLayer \in Seq(LayerEntry)
         /\ items[k] = Nil => LC!Without(AsLayer, k) = AsLayer
         /\ \A p \in Int : s[p] = items[k] /\ items[k] # Nil =>
                n - p \in 1..n /\ LC!Without(AsLayer, k) = Cut(AsLayer, n - p)
<1>1. key \in [Nodes -> Keys] /\ left \in [Nodes -> Int] /\ KeysFit
  BY DEF CacheInv, TypeOK
<1>2. AsLayer = Reading(n, s, key, left)
  BY InvMirrors DEF Mirrors
<1>3. /\ n \in Nat /\ AsLayer \in Seq(LayerEntry) /\ Len(AsLayer) = n
      /\ \A i \in 1..n : /\ n - i \in Int /\ s[n - i] \in Nodes
                         /\ AsLayer[i] = EntryOf(s[n - i], key, left)
  BY <1>1, <1>2, ReadingIs
<1>4. \A i, j \in Int : s[i] = s[j] /\ s[i] # Nil => i = j
  BY DEF Order
<1>5. ASSUME NEW i \in 1..n PROVE AsLayer[i].key = k <=> s[n - i] = items[k]
  <2> DEFINE m == s[n - i]
  <2>1. m \in Mapped /\ m # Nil /\ AsLayer[i].key = key[m]
    <3>1. n - i \in Int /\ m \in Nodes /\ AsLayer[i] = EntryOf(m, key, left)
      BY <1>3
    <3>2. \E j \in Int : s[j] = m
      BY <3>1
    <3> HIDE DEF m
    <3>3. QED
      BY <3>1, <3>2, Refs DEF EntryOf
  <2>2. PICK j \in Keys : items[j] = s[n - i]
    BY <2>1 DEF Mapped
  <2>3. key[s[n - i]] = j
    BY <2>1, <2>2, <1>1 DEF KeysFit
  <2>4. s[n - i] = items[k] => key[s[n - i]] = k
    BY <2>1, <1>1 DEF KeysFit
  <2>5. QED
    BY <2>1, <2>2, <2>3, <2>4
<1>6. ASSUME items[k] = Nil PROVE LC!Without(AsLayer, k) = AsLayer
  <2>1. \A i \in 1..Len(AsLayer) : AsLayer[i].key # k
    BY <1>3, <1>5, <1>6, Refs
  <2>2. QED
    BY <2>1 DEF LC!Without
<1>7. ASSUME NEW p \in Int, s[p] = items[k], items[k] # Nil
      PROVE  n - p \in 1..n /\ LC!Without(AsLayer, k) = Cut(AsLayer, n - p)
  <2> DEFINE c == n - p
  <2>1. c \in 1..n /\ n - c = p
    <3>1. 0 <= p /\ p < n
      BY <1>7 DEF Order
    <3>2. QED
      BY <3>1, <1>3
  <2>2. \A i \in 1..n : AsLayer[i].key = k <=> i = c
    <3>1. ASSUME NEW i \in 1..n PROVE AsLayer[i].key = k <=> i = c
      <4>1. s[n - i] = s[p] <=> n - i = p
        BY <1>3, <1>4, <1>7
      <4>2. n - i = p <=> i = c
        BY <1>3
      <4>3. QED
        BY <4>1, <4>2, <1>5, <1>7
    <3>2. QED
      BY <3>1
  <2> HIDE DEF c
  <2>3. (CHOOSE i \in 1..Len(AsLayer) : AsLayer[i].key = k) = c
    BY <2>1, <2>2, <1>3
  <2>4. LC!Without(AsLayer, k) = LC!RemoveAt(AsLayer, c)
    BY <2>1, <2>2, <2>3, <1>3 DEF LC!Without
  <2>5. LC!RemoveAt(AsLayer, c) = Cut(AsLayer, c)
    BY DEF LC!RemoveAt, Cut
  <2>6. QED
    BY <2>1, <2>4, <2>5 DEF c
<1>8. QED
  BY <1>3, <1>6, <1>7

\* Taking out the tail.
LEMMA CutFirst ==
  ASSUME NEW L \in Seq(LayerEntry), L # <<>>
  PROVE  Cut(L, 1) = Tail(L)
<1>1. Len(L) \in Nat /\ 1 <= Len(L) /\ 1 \in 1..Len(L)
  BY EmptySeq
<1>2. /\ Tail(L) \in Seq(LayerEntry) /\ Len(Tail(L)) = Len(L) - 1
      /\ \A i \in 1..Len(Tail(L)) : Tail(L)[i] = L[i + 1]
  BY HeadTailProperties
<1>3. /\ Cut(L, 1) \in Seq(LayerEntry) /\ Len(Cut(L, 1)) = Len(L) - 1
      /\ \A m \in 1..(Len(L) - 1) : Cut(L, 1)[m] = IF m < 1 THEN L[m] ELSE L[m + 1]
  BY <1>1, CutOut
<1>4. \A i \in 1..(Len(L) - 1) : ~(i < 1)
  BY <1>1
<1>5. QED
  BY <1>2, <1>3, <1>4, SeqEqual

\* A node that goes leaves the list of its place.
LEMMA TakesOutOfLayer ==
  ASSUME CacheInv, CacheInv', NEW n, NEW s, Order(list, n, s), NEW p \in Int, s[p] \in Nodes,
         TakeOut(s[p]), UNCHANGED key
  PROVE  /\ AsLayer' = Cut(AsLayer, n - p)
         /\ n - p \in 1..n
<1> DEFINE t == [i \in Int |-> IF i < p THEN s[i] ELSE s[i + 1]]
<1>1. /\ list \in Lists /\ key \in [Nodes -> Keys] /\ left \in [Nodes -> Int]
      /\ key' \in [Nodes -> Keys] /\ left' \in [Nodes -> Int] /\ s[p] # Nil
  BY Refs DEF CacheInv, TypeOK, Lists
<1>2. list' = RemoveNode(list, s[p]) /\ left' = [left EXCEPT ![s[p]] = -1]
  BY DEF TakeOut
<1>3. Order(list', n - 1, t)
  BY <1>1, <1>2, RemoveOrder
<1>4. Skips(t, s, p)
  BY DEF Skips
<1> HIDE DEF t
<1>5. ASSUME NEW i \in Int, s[i] # Nil, i # p PROVE key'[s[i]] = key[s[i]] /\ left'[s[i]] = left[s[i]]
  <2>1. s[i] # s[p] /\ s[i] \in Nodes
    BY <1>5, Refs DEF Order
  <2>2. QED
    BY <2>1, <1>1, <1>2
<1>6. AsLayer = Reading(n, s, key, left) /\ AsLayer' = Reading(n - 1, t, key', left')
  BY <1>3, InvMirrors, InvMirrorsNext DEF Mirrors
<1>7. QED
  BY <1>1, <1>3, <1>4, <1>5, <1>6, ReadingCut

\* Taking out the node of a key.
LEMMA KeyLeavesLayer ==
  ASSUME CacheInv, CacheInv', NEW k \in Keys, items[k] # Nil, TakeOut(items[k]), UNCHANGED key
  PROVE  AsLayer' = LC!Without(AsLayer, k)
<1>1. PICK n, s : /\ Order(list, n, s)
                  /\ \A m \in Nodes : (\E i \in Int : s[i] = m) <=> m \in Mapped
  BY DEF CacheInv, Linked
<1>2. items[k] \in Nodes /\ items[k] \in Mapped
  BY Refs DEF CacheInv, TypeOK, Mapped
<1>3. PICK p \in Int : s[p] = items[k]
  BY <1>1, <1>2
<1>4. AsLayer' = Cut(AsLayer, n - p)
  BY <1>1, <1>2, <1>3, TakesOutOfLayer
<1>5. QED
  BY <1>1, <1>3, <1>4, WithoutKey

\* Taking out the tail.
LEMMA TailLeavesLayer ==
  ASSUME CacheInv, CacheInv', list.tail # Nil, TakeOut(list.tail), UNCHANGED key
  PROVE  AsLayer # <<>> /\ AsLayer' = Tail(AsLayer)
<1>1. PICK n, s : Order(list, n, s)
  BY DEF CacheInv, Linked
<1>2. n \in Nat /\ n - 1 \in Int /\ s[n - 1] = list.tail /\ list.tail \in Nodes
  BY <1>1, Refs DEF Order, CacheInv, TypeOK
<1>3. AsLayer' = Cut(AsLayer, n - (n - 1)) /\ n - (n - 1) \in 1..n
  BY <1>1, <1>2, TakesOutOfLayer
<1>4. n - (n - 1) = 1 /\ n # 0
  BY <1>2, <1>3
<1>5. AsLayer \in Seq(LayerEntry) /\ Len(AsLayer) = n
  <2>1. key \in [Nodes -> Keys] /\ left \in [Nodes -> Int]
    BY DEF CacheInv, TypeOK
  <2>2. AsLayer = Reading(n, s, key, left)
    BY <1>1, InvMirrors DEF Mirrors
  <2>3. QED
    BY <1>1, <2>1, <2>2, ReadingIs
<1>6. AsLayer # <<>>
  BY <1>4, <1>5
<1>7. QED
  BY <1>3, <1>4, <1>5, <1>6, CutFirst

\* A new node becomes the head, and the old one of its key is gone.
LEMMA PutsInLayer ==
  ASSUME CacheInv, CacheInv', NEW k \in Keys, NEW ttl \in Nat, Put(k, ttl)
  PROVE  AsLayer' = LC!Put(AsLayer, k, made', ttl)
<1> DEFINE x == made + 1
           old == items[k]
           l == IF old = Nil THEN list ELSE RemoveNode(list, old)
           lf == IF old = Nil THEN left ELSE [left EXCEPT ![old] = -1]
<1>1. /\ x \in Nodes /\ made' = x
      /\ key' = [key EXCEPT ![x] = k]
      /\ left' = [m \in Nodes |-> CASE m = x -> ttl [] m = old -> -1 [] OTHER -> left[m]]
      /\ list' = InsertHead(l, x)
  BY DEF Put
<1>2. /\ key \in [Nodes -> Keys] /\ left \in [Nodes -> Int] /\ list \in Lists
      /\ key' \in [Nodes -> Keys] /\ left' \in [Nodes -> Int]
      /\ made \in Nat /\ KeysFit /\ old \in Ref /\ Mapped \subseteq 1..made
  BY Refs DEF CacheInv, TypeOK, Lists, Mapped, KeysFit
<1>3. PICK n, s : /\ Order(list, n, s)
                  /\ \A m \in Nodes : (\E i \in Int : s[i] = m) <=> m \in Mapped
  BY DEF CacheInv, Linked
<1>4. AsLayer = Reading(n, s, key, left)
  BY <1>3, InvMirrors DEF Mirrors
<1>5. x \notin 1..made /\ x # old /\ x # Nil
  <2>1. x \notin 1..made /\ x # Nil
    BY <1>2, Refs
  <2>2. old # Nil => old \in 1..made
    BY <1>2 DEF KeysFit
  <2> HIDE DEF x, old
  <2>3. QED
    BY <2>1, <2>2
<1>6. \A i \in Int : s[i] # x
  BY <1>1, <1>2, <1>3, <1>5
<1>7. ASSUME NEW n1, NEW s1, Order(l, n1, s1), l \in Lists,
             \A i \in Int : s1[i] # x,
             LC!Without(AsLayer, k) = Reading(n1, s1, key, left')
      PROVE  AsLayer' = LC!Put(AsLayer, k, made', ttl)
  <2> DEFINE t == [i \in Int |-> IF i = 0 THEN x ELSE s1[i - 1]]
  <2>1. Leads(t, x, s1)
    BY DEF Leads
  <2> HIDE DEF l, x
  <2>2. Order(list', n1 + 1, t)
    BY <1>1, <1>7, InsertOrder
  <2> HIDE DEF t
  <2>3. AsLayer' = Reading(n1 + 1, t, key', left')
    BY <2>2, InvMirrorsNext DEF Mirrors
  <2>4. Reading(n1 + 1, t, key', left') = Append(Reading(n1, s1, key', left'), EntryOf(x, key', left'))
    <3>1. Order(l, n1, s1) /\ x \in Nodes
      BY <1>1, <1>7
    <3>2. ASSUME NEW l1, NEW x1 \in Nodes, NEW t1, NEW h1, NEW ky \in [Nodes -> Keys], NEW lf1 \in [Nodes -> Int],
                 Order(l1, n1, s1), Leads(t1, x1, s1), Order(h1, n1 + 1, t1)
          PROVE  Reading(n1 + 1, t1, ky, lf1) = Append(Reading(n1, s1, ky, lf1), EntryOf(x1, ky, lf1))
      BY ONLY <3>2, ReadingHead
    <3>3. QED
      BY <3>1, <3>2, <2>1, <2>2, <1>2
  <2>5. Reading(n1, s1, key', left') = Reading(n1, s1, key, left')
    <3>1. ASSUME NEW i \in Int, s1[i] # Nil PROVE key'[s1[i]] = key[s1[i]]
      <4>1. s1[i] # x /\ s1[i] \in Nodes
        BY <3>1, <1>7, Refs DEF Order
      <4>2. QED
        BY <4>1, <1>1, <1>2
    <3>2. QED
      BY <3>1, <1>7, ReadingSame
  <2>6. EntryOf(x, key', left') = [key |-> k, value |-> made', left |-> ttl]
    <3>1. key'[x] = k /\ left'[x] = ttl
      BY <1>1, <1>2, <1>5
    <3>2. QED
      BY <3>1, <1>1 DEF EntryOf
  <2>7. QED
    BY <2>3, <2>4, <2>5, <2>6, <1>7 DEF LC!Put
<1>8. CASE old = Nil
  <2>1. LC!Without(AsLayer, k) = AsLayer
    BY <1>3, <1>8, WithoutKey
  <2>2. l = list
    BY <1>8
  <2>3. Reading(n, s, key, left) = Reading(n, s, key, left')
    <3>1. ASSUME NEW i \in Int, s[i] # Nil PROVE left'[s[i]] = left[s[i]]
      <4>1. s[i] # x /\ s[i] # old /\ s[i] \in Nodes
        BY <3>1, <1>3, <1>6, <1>8, Refs DEF Order
      <4> HIDE DEF x, old
      <4>2. QED
        BY <4>1, <1>1, <1>2
    <3>2. QED
      BY <3>1, <1>3, ReadingSame
  <2>4. QED
    BY <2>1, <2>2, <2>3, <1>2, <1>3, <1>4, <1>6, <1>7
<1>9. CASE old # Nil
  <2> DEFINE lfo == [left EXCEPT ![old] = -1]
  <2>1. old \in Mapped /\ old \in Nodes
    BY <1>2, <1>9, Refs DEF Mapped
  <2>2. PICK p \in Int : s[p] = old
    BY <2>1, <1>3
  <2> DEFINE u == [i \in Int |-> IF i < p THEN s[i] ELSE s[i + 1]]
  <2>3. LC!Without(AsLayer, k) = Cut(AsLayer, n - p)
    BY <2>2, <1>3, <1>9, WithoutKey
  <2>4. l = RemoveNode(list, s[p]) /\ s[p] # Nil
    BY <2>2, <1>9
  <2> HIDE DEF old, l
  <2>5. l \in Lists /\ Order(l, n - 1, u)
    BY <2>4, <1>2, <1>3, RemoveOrder
  <2>6. Skips(u, s, p)
    BY DEF Skips
  <2> HIDE DEF u
  <2>7. \A i \in Int : u[i] # x
    BY <2>6, <1>6 DEF Skips
  <2>8. ASSUME NEW i \in Int, s[i] # Nil, i # p PROVE left'[s[i]] = left[s[i]]
    <3>1. s[i] # old /\ s[i] # x /\ s[i] \in Nodes
      BY <2>2, <2>8, <1>3, <1>6, Refs DEF Order
    <3> HIDE DEF x
    <3>2. QED
      BY <3>1, <1>1, <1>2
  <2>9. Reading(n - 1, u, key, left') = Cut(Reading(n, s, key, left), n - p)
    BY <2>4, <2>5, <2>6, <2>8, <1>2, <1>3, ReadingCut
  <2>10. QED
    BY <2>3, <2>5, <2>7, <2>9, <1>4, <1>7
<1>10. QED
  BY <1>8, <1>9

\* The list changes with its nodes only.
LEMMA LayerStays ==
  ASSUME CacheInv, CacheInv', UNCHANGED <<key, left, list>>
  PROVE  UNCHANGED AsLayer
<1>1. PICK n, s : Order(list, n, s)
  BY DEF CacheInv, Linked
<1>2. Order(list', n, s)
  BY <1>1
<1>3. AsLayer = Reading(n, s, key, left) /\ AsLayer' = Reading(n, s, key', left')
  BY <1>1, <1>2, InvMirrors, InvMirrorsNext DEF Mirrors
<1>4. QED
  BY <1>3

\* Deadlines that have passed are all the same.
Deadlines == \A n \in Nodes : left[n] >= -1

LEMMA OneLayer == LC!Layer = {0} /\ [i \in {0} |-> AsLayer][0] = AsLayer
BY DEF LC!Layer

LEMMA MaxIs == \A x \in Int : LC!Max({x - 1, -1}) = IF x - 1 >= -1 THEN x - 1 ELSE -1
<1>1. SUFFICES ASSUME NEW x \in Int
               PROVE  LC!Max({x - 1, -1}) = IF x - 1 >= -1 THEN x - 1 ELSE -1
  OBVIOUS
<1>2. CASE x - 1 >= -1
  BY <1>2 DEF LC!Max
<1>3. CASE ~(x - 1 >= -1)
  BY <1>3 DEF LC!Max
<1>4. QED
  BY <1>2, <1>3

LEMMA TicksInLayer ==
  ASSUME CacheInv, CacheInv', Deadlines, Tick
  PROVE  LC!Tick /\ Deadlines'
<1>1. /\ left' = [n \in Nodes |-> IF Expired(n) THEN left[n] ELSE left[n] - 1]
      /\ UNCHANGED <<key, list>>
  BY DEF Tick
<1>2. /\ key \in [Nodes -> Keys] /\ left \in [Nodes -> Int]
      /\ key' \in [Nodes -> Keys] /\ left' \in [Nodes -> Int]
  BY DEF CacheInv, TypeOK
<1>3. PICK n, s : Order(list, n, s)
  BY DEF CacheInv, Linked
<1>4. Order(list', n, s)
  BY <1>1, <1>3
<1>5. AsLayer = Reading(n, s, key, left) /\ AsLayer' = Reading(n, s, key', left')
  BY <1>3, <1>4, InvMirrors, InvMirrorsNext DEF Mirrors
<1>6. /\ n \in Nat /\ Len(AsLayer) = n
      /\ \A i \in 1..n : s[n - i] \in Nodes /\ AsLayer[i] = EntryOf(s[n - i], key, left)
  BY <1>2, <1>3, <1>5, ReadingIs
<1>7. \A m \in Nodes : left'[m] = IF left[m] - 1 >= -1 THEN left[m] - 1 ELSE -1
  BY <1>1, <1>2 DEF Expired, Deadlines
<1> DEFINE T == [i \in 1..Len(AsLayer) |-> [AsLayer[i] EXCEPT !.left = LC!Max({@ - 1, -1})]]
<1>8. AsLayer' = T
  <2>1. ASSUME NEW i \in 1..n
        PROVE  EntryOf(s[n - i], key', left')
                 = [AsLayer[i] EXCEPT !.left = LC!Max({AsLayer[i].left - 1, -1})]
    <3> DEFINE m == s[n - i]
    <3>1. m \in Nodes /\ AsLayer[i] = [key |-> key[m], value |-> m, left |-> left[m]]
      BY <1>6 DEF EntryOf
    <3> HIDE DEF m
    <3>2. left[m] \in Int /\ left'[m] = LC!Max({left[m] - 1, -1})
      <4>1. left[m] \in Int
        BY <3>1, <1>2
      <4>2. QED
        BY <4>1, <3>1, <1>7, MaxIs
    <3>3. EntryOf(m, key', left') = [key |-> key[m], value |-> m, left |-> left'[m]]
      BY <1>1 DEF EntryOf
    <3>4. AsLayer[i].left = left[m]
      BY <3>1
    <3>5. QED
      BY <3>1, <3>2, <3>3, <3>4 DEF m
  <2>2. Reading(n, s, key', left')
          = [i \in 1..n |-> [AsLayer[i] EXCEPT !.left = LC!Max({AsLayer[i].left - 1, -1})]]
    BY <2>1 DEF Reading
  <2>3. QED
    BY <2>2, <1>5, <1>6
<1>9. LC!Tick
  <2> HIDE DEF T
  <2>1. [i \in {0} |-> AsLayer'] = [i \in {0} |-> T]
    BY <1>8
  <2>2. LC!Tick <=> [i \in {0} |-> AsLayer'] = [i \in {0} |-> T]
    BY OneLayer DEF LC!Tick, T
  <2>3. QED
    BY <2>1, <2>2
<1>10. Deadlines'
  <2>1. \A m \in Nodes : left[m] \in Int
    BY <1>2
  <2>2. QED
    BY <2>1, <1>7 DEF Deadlines
<1>11. QED
  BY <1>9, <1>10

\* What the calls find is what the list has.
LEMMA InvFinds == CacheInv => FindsAsLayer
<1> SUFFICES ASSUME CacheInv PROVE FindsAsLayer
  OBVIOUS
<1>1. /\ key \in [Nodes -> Keys] /\ left \in [Nodes -> Int] /\ items \in [Keys -> Ref]
      /\ KeysFit
  BY DEF CacheInv, TypeOK
<1>2. PICK n, s : /\ Order(list, n, s)
                  /\ \A m \in Nodes : (\E i \in Int : s[i] = m) <=> m \in Mapped
  BY DEF CacheInv, Linked
<1>3. /\ n \in Nat /\ AsLayer \in Seq(LayerEntry) /\ Len(AsLayer) = n
      /\ \A i \in 1..n : /\ n - i \in Int /\ s[n - i] \in Nodes /\ s[n - i] # Nil
                         /\ AsLayer[i] = EntryOf(s[n - i], key, left)
  <2>1. AsLayer = Reading(n, s, key, left)
    BY <1>2, InvMirrors DEF Mirrors
  <2>2. QED
    BY <2>1, <1>1, <1>2, ReadingIs
<1>4. /\ s \in [Int -> Ref] /\ list.tail = s[n - 1]
      /\ \A i \in Int : s[i] # Nil <=> 0 <= i /\ i < n
  BY <1>2 DEF Order
<1>5. ASSUME NEW k \in Keys
      PROVE  LC!HasLive(AsLayer, k) <=> items[k] # Nil /\ ~Expired(items[k])
  <2>1. ASSUME NEW i \in 1..n, AsLayer[i].key = k PROVE items[k] = s[n - i]
    <3> DEFINE m == s[n - i]
    <3>1. n - i \in Int /\ m \in Nodes /\ m # Nil /\ AsLayer[i].key = key[m]
      BY <1>3 DEF EntryOf
    <3>2. \E j \in Int : s[j] = m
      BY <3>1
    <3> HIDE DEF m
    <3>3. PICK j \in Keys : items[j] = m
      BY <3>1, <3>2, <1>2 DEF Mapped
    <3>4. key[m] = j
      BY <3>1, <3>3, <1>1 DEF KeysFit
    <3>5. QED
      BY <2>1, <3>1, <3>3, <3>4 DEF m
  <2>2. ASSUME items[k] # Nil
        PROVE  \E i \in 1..n : AsLayer[i].key = k /\ AsLayer[i].left = left[items[k]]
    <3>1. items[k] \in Nodes /\ items[k] \in Mapped
      BY <2>2, <1>1, Refs DEF Mapped
    <3>2. PICK p \in Int : s[p] = items[k]
      BY <3>1, <1>2
    <3>3. 0 <= p /\ p < n
      BY <3>2, <2>2, <1>4
    <3>4. n - p \in 1..n /\ n - (n - p) = p
      BY <3>3, <1>3
    <3> DEFINE c == n - p
    <3>5. c \in 1..n /\ s[n - c] = items[k]
      BY <3>2, <3>4
    <3> HIDE DEF c
    <3>6. AsLayer[c] = EntryOf(items[k], key, left)
      BY <3>5, <1>3
    <3>7. AsLayer[c].key = k /\ AsLayer[c].left = left[items[k]]
      BY <3>6, <2>2, <1>1 DEF EntryOf, KeysFit
    <3>8. QED
      BY <3>5, <3>7
  <2>3. \A i \in 1..n : AsLayer[i].left = left[s[n - i]]
    BY <1>3 DEF EntryOf
  <2>4. LC!HasLive(AsLayer, k) <=> \E i \in 1..n : AsLayer[i].key = k /\ ~(AsLayer[i].left < 0)
    BY <1>3 DEF LC!HasLive, LC!Expired
  <2>5. ASSUME LC!HasLive(AsLayer, k) PROVE items[k] # Nil /\ ~Expired(items[k])
    <3>1. PICK i \in 1..n : AsLayer[i].key = k /\ ~(AsLayer[i].left < 0)
      BY <2>4, <2>5
    <3>2. items[k] = s[n - i] /\ s[n - i] # Nil
      BY <3>1, <2>1, <1>3
    <3>3. QED
      BY <3>1, <3>2, <2>3 DEF Expired
  <2>6. ASSUME items[k] # Nil, ~Expired(items[k]) PROVE LC!HasLive(AsLayer, k)
    BY <2>2, <2>4, <2>6 DEF Expired
  <2>7. QED
    BY <2>5, <2>6
<1>6. LC!FoundExpired <=> list.tail # Nil /\ Expired(list.tail)
  <2>1. LC!FoundExpired <=> AsLayer # <<>> /\ LC!Expired(Head(AsLayer))
    BY OneLayer DEF LC!FoundExpired, LC!ExpiredTails
  <2>2. CASE n = 0
    <3>1. AsLayer = <<>> /\ list.tail = Nil
      BY <2>2, <1>3, <1>4, EmptySeq
    <3>2. QED
      BY <3>1, <2>1
  <2>3. CASE n # 0
    <3>1. AsLayer # <<>> /\ 1 \in 1..n /\ n - 1 \in Int /\ 0 <= n - 1 /\ n - 1 < n
      BY <2>3, <1>3
    <3>2. Head(AsLayer) = EntryOf(list.tail, key, left) /\ list.tail # Nil
      <4>1. AsLayer[1] = EntryOf(s[n - 1], key, left) /\ s[n - 1] # Nil
        BY <3>1, <1>3
      <4>2. Head(AsLayer) = AsLayer[1]
        BY <3>1, <1>3
      <4>3. QED
        BY <4>1, <4>2, <1>4
    <3>3. LC!Expired(Head(AsLayer)) <=> Expired(list.tail)
      BY <3>2 DEF LC!Expired, Expired, EntryOf
    <3>4. QED
      BY <3>1, <3>2, <3>3, <2>1
  <2>4. QED
    BY <2>2, <2>3
<1>7. QED
  BY <1>5, <1>6 DEF FindsAsLayer

\* A layer that is replaced as a whole.
LEMMA OneLayerNext ==
  ASSUME NEW T
  PROVE  /\ AsLayer' = T <=> [i \in {0} |-> AsLayer'] = [[i \in {0} |-> AsLayer] EXCEPT ![0] = T]
         /\ AsLayer' = T <=> [i \in {0} |-> AsLayer'] = [i \in {0} |-> T]
<1>1. [[i \in {0} |-> AsLayer] EXCEPT ![0] = T] = [i \in {0} |-> T]
  OBVIOUS
<1>2. [i \in {0} |-> AsLayer'][0] = AsLayer' /\ [i \in {0} |-> T][0] = T
  OBVIOUS
<1>3. QED
  BY <1>1, <1>2

\* Every step does to the list what LayerCache says.
LEMMA StepInLayer == CacheInv /\ CacheInv' /\ Deadlines /\ [Next]_vars => [ActsAsLayer]_vars /\ Deadlines'
<1> SUFFICES ASSUME CacheInv, CacheInv', Deadlines, [Next]_vars
             PROVE  [ActsAsLayer]_vars /\ Deadlines'
  OBVIOUS
<1>1. /\ left \in [Nodes -> Int] /\ left' \in [Nodes -> Int]
      /\ TTL \in Nat /\ CustomTTLs \subseteq Nat
  BY CacheAssumption DEF CacheInv, TypeOK
<1>2. ASSUME NEW k \in Keys
      PROVE  /\ Set(k) => LC!Set(k, made')
             /\ SetWithTTL(k) => \E ttl \in CustomTTLs : AsLayer' = LC!Put(AsLayer, k, made', ttl)
  <2>1. ASSUME Set(k) PROVE LC!Set(k, made')
    <3>1. AsLayer' = LC!Put(AsLayer, k, made', TTL)
      BY <2>1, <1>1, PutsInLayer DEF Set
    <3>2. QED
      BY <3>1, OneLayer, OneLayerNext DEF LC!Set
  <2>2. ASSUME SetWithTTL(k)
        PROVE  \E ttl \in CustomTTLs : AsLayer' = LC!Put(AsLayer, k, made', ttl)
    <3>1. PICK ttl \in CustomTTLs : Put(k, ttl)
      BY <2>2 DEF SetWithTTL
    <3>2. AsLayer' = LC!Put(AsLayer, k, made', ttl)
      BY <3>1, <1>1, PutsInLayer
    <3>3. QED
      BY <3>2
  <2>3. QED
    BY <2>1, <2>2
<1>3. ASSUME NEW k \in Keys, Remove(k)
      PROVE  items[k] # Nil /\ AsLayer' = LC!Without(AsLayer, k)
  BY <1>3, KeyLeavesLayer DEF Remove
<1>4. ASSUME NEW k \in Keys PROVE (Get(k) => LC!Get(k)) /\ (Delete(k) => LC!Delete(k))
  <2>1. ASSUME Get(k) PROVE LC!Get(k)
    <3>1. AsLayer' = LC!Without(AsLayer, k) /\ Expired(items[k])
      BY <2>1, <1>3 DEF Get
    <3>2. ~LC!HasLive(AsLayer, k)
      BY <3>1, InvFinds DEF FindsAsLayer
    <3>3. LC!Get(k) <=> [i \in {0} |-> AsLayer'] = [i \in {0} |-> LC!Without(AsLayer, k)]
      <4>1. ASSUME NEW i \in {0}
            PROVE  (IF \E j \in 0..i : LC!HasLive([m \in {0} |-> AsLayer][j], k)
                    THEN [m \in {0} |-> AsLayer][i]
                    ELSE LC!Without([m \in {0} |-> AsLayer][i], k)) = LC!Without(AsLayer, k)
        <5>1. i = 0 /\ 0..0 = {0}
          OBVIOUS
        <5>2. QED
          BY <5>1, <3>2, OneLayer
      <4>2. [i \in {0} |-> IF \E j \in 0..i : LC!HasLive([m \in {0} |-> AsLayer][j], k)
                           THEN [m \in {0} |-> AsLayer][i]
                           ELSE LC!Without([m \in {0} |-> AsLayer][i], k)]
              = [i \in {0} |-> LC!Without(AsLayer, k)]
        BY <4>1
      <4>3. QED
        BY <4>2, OneLayer DEF LC!Get
    <3>4. QED
      BY <3>1, <3>3
  <2>2. ASSUME Delete(k) PROVE LC!Delete(k)
    <3>1. AsLayer' = LC!Without(AsLayer, k)
      BY <2>2, <1>3 DEF Delete
    <3>2. QED
      BY <3>1, OneLayer DEF LC!Delete
  <2>3. QED
    BY <2>1, <2>2
<1>5. PopTail => AsLayer # <<>> /\ \A k \in Keys : LC!PromoteLayer(k, 0)
  <2>1. SUFFICES ASSUME PopTail PROVE AsLayer # <<>> /\ \A k \in Keys : LC!PromoteLayer(k, 0)
    OBVIOUS
  <2>2. AsLayer # <<>> /\ AsLayer' = Tail(AsLayer)
    BY <2>1, TailLeavesLayer DEF PopTail
  <2>3. ~(0 + 1 < 1)
    OBVIOUS
  <2>4. \A k \in Keys : LC!PromoteLayer(k, 0)
    BY <2>2, <2>3, OneLayer, OneLayerNext DEF LC!PromoteLayer
  <2>5. QED
    BY <2>2, <2>4
<1>6. CleanupOne => LC!FoundExpired /\ AsLayer' = Tail(AsLayer)
  <2>1. SUFFICES ASSUME CleanupOne PROVE LC!FoundExpired /\ AsLayer' = Tail(AsLayer)
    OBVIOUS
  <2>2. list.tail # Nil /\ Expired(list.tail) /\ TakeOut(list.tail) /\ UNCHANGED key
    BY <2>1 DEF CleanupOne
  <2>3. QED
    BY <2>2, TailLeavesLayer, InvFinds DEF FindsAsLayer
<1>7. Tick => LC!Tick
  BY TicksInLayer
<1>8. ASSUME Close \/ CloseAgain \/ LoopWakes \/ LoopStops \/ CleanupEnd \/ \E w \in Workers : Worker(w)
      PROVE  UNCHANGED AsLayer
  <2>1. UNCHANGED <<key, left, list>>
    BY <1>8 DEF Close, CloseAt, CloseAgain, LoopWakes, LoopStops, CleanupEnd, Worker, WorkerTake,
                WorkerFinalizes, WorkerEnd, dataVars
  <2>2. QED
    BY <2>1, LayerStays
<1>9. ActsAsLayer
  BY <1>2, <1>4, <1>5, <1>6, <1>7, <1>8 DEF ActsAsLayer
<1>10. Deadlines'
  <2>1. ASSUME NEW k \in Keys, NEW ttl \in Nat, Put(k, ttl) PROVE Deadlines'
    <3> DEFINE x == made + 1
    <3>1. left' = [m \in Nodes |-> CASE m = x -> ttl [] m = items[k] -> -1 [] OTHER -> left[m]]
      BY <2>1 DEF Put
    <3> HIDE DEF x
    <3>2. x # items[k]
      <4>1. made \in Nat /\ (items[k] # Nil => items[k] \in 1..made)
        BY Refs DEF CacheInv, TypeOK, KeysFit
      <4>2. QED
        BY <4>1, Refs DEF x
    <3>3. ASSUME NEW m \in Nodes PROVE left'[m] >= -1
      <4>1. left'[m] = IF m = x THEN ttl ELSE IF m = items[k] THEN -1 ELSE left[m]
        BY <3>1, <3>2
      <4>2. left[m] >= -1
        BY DEF Deadlines
      <4>3. QED
        BY <4>1, <4>2
    <3>4. QED
      BY <3>3 DEF Deadlines
  <2>2. ASSUME NEW m \in Nodes, left' = [left EXCEPT ![m] = -1] PROVE Deadlines'
    <3>1. \A n \in Nodes : left'[n] = IF n = m THEN -1 ELSE left[n]
      BY <2>2, <1>1
    <3>2. QED
      BY <3>1 DEF Deadlines
  <2>3. ASSUME NEW m, TakeOut(m), m \in Mapped PROVE Deadlines'
    <3>1. m \in Nodes
      BY <2>3, Refs DEF Mapped, CacheInv, TypeOK
    <3>2. QED
      BY <2>2, <2>3, <3>1 DEF TakeOut
  <2>4. ASSUME NEW k \in Keys, Set(k) \/ SetWithTTL(k) PROVE Deadlines'
    BY <2>1, <2>4, <1>1 DEF Set, SetWithTTL
  <2>5. ASSUME NEW k \in Keys, Get(k) \/ Delete(k) PROVE Deadlines'
    BY <2>3, <2>5 DEF Get, Delete, Remove, Mapped
  <2>6. CASE PopTail \/ CleanupOne
    <3>1. list.tail # Nil /\ TakeOut(list.tail)
      BY <2>6 DEF PopTail, CleanupOne
    <3>2. QED
      BY <3>1, <2>3, TailIsMapped DEF CacheInv
  <2>7. CASE Tick
    BY <2>7, TicksInLayer
  <2>8. CASE LoopWakes \/ LoopStops \/ CleanupEnd \/ Close \/ CloseAgain
                \/ (\E w \in Workers : Worker(w)) \/ UNCHANGED vars
    <3>1. left' = left
      BY <2>8 DEF Close, CloseAt, CloseAgain, LoopWakes, LoopStops, CleanupEnd, Worker, WorkerTake,
                  WorkerFinalizes, WorkerEnd, dataVars, vars
    <3>2. QED
      BY <3>1 DEF Deadlines
  <2>9. QED
    BY <2>4, <2>5, <2>6, <2>7, <2>8 DEF Next, Loop
<1>11. QED
  BY <1>9, <1>10

\* A new cache is an empty list.
LEMMA InitInLayer == Init => AsLayer = <<>> /\ Deadlines
<1> SUFFICES ASSUME Init PROVE AsLayer = <<>> /\ Deadlines
  OBVIOUS
<1>1. CacheInv
  BY InitCacheInv
<1>2. PICK n, s : Order(list, n, s)
  BY <1>1 DEF CacheInv, Linked
<1>3. n = 0
  <2>1. n \in Nat /\ s[0] = Nil /\ (s[0] # Nil <=> 0 <= 0 /\ 0 < n)
    BY <1>2 DEF Order, Init
  <2>2. QED
    BY <2>1
<1>4. AsLayer = Reading(n, s, key, left)
  BY <1>1, <1>2, InvMirrors DEF Mirrors
<1>5. AsLayer \in Seq(LayerEntry) /\ Len(AsLayer) = 0
  <2>1. key \in [Nodes -> Keys] /\ left \in [Nodes -> Int]
    BY <1>1 DEF CacheInv, TypeOK
  <2>2. QED
    BY <2>1, <1>2, <1>3, <1>4, ReadingIs
<1>6. Deadlines
  BY DEF Init, Deadlines
<1>7. QED
  BY <1>5, <1>6, EmptySeq

\* A cache is a layer of LayerCache: through every sequence of calls, from any
\* number of callers and with cleanup and Close in between, each call does to the
\* nodes and the map what LayerCache says it does to its list
\* (pkg/lru/cache.go:96-150, 171-196, 234-258, 273-310).
THEOREM CacheActsAsLayer == Spec => IsLayer
<1>1. Init => AsLayer = <<>> /\ Deadlines
  BY InitInLayer
<1>2. CacheInv /\ CacheInv' /\ Deadlines /\ [Next]_vars => [ActsAsLayer]_vars /\ Deadlines'
  BY StepInLayer
<1>3. QED
  BY <1>1, <1>2, CacheCorrect, PTL DEF Spec, IsLayer

\* And the calls find in it what LayerCache says they find: a key that is alive,
\* and a tail that has expired (pkg/lru/cache.go:120-137, 234-246, layer.go:54-94).
THEOREM CacheFindsAsLayer == Spec => []FindsAsLayer
BY CacheCorrect, InvFinds, PTL

=============================================================================
