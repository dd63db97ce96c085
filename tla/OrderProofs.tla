----------------------------- MODULE OrderProofs -----------------------------
(***************************************************************************)
(* OrderedBuffer keeps its invariants and implements InOrderDelivery, for  *)
(* every set of values, every start id and every bound on the ids.  A      *)
(* RingBuffer given the same calls agrees with it up to the end of its     *)
(* window, for every size.                                                 *)
(***************************************************************************)
EXTENDS RingBuffer, CountingProofs, SequenceTheorems

\* The i-th id of a run that starts at a and ends before c.
LEMMA RunMember ==
  ASSUME NEW a \in Int, NEW c \in Int, NEW i \in Int, 1 <= i, i <= c - a
  PROVE  a + i - 1 \in a..c-1
OBVIOUS

\* A length that is the distance from a to c leads from a to c.
LEMMA Distance ==
  ASSUME NEW a \in Int, NEW c \in Int, NEW n, n = c - a
  PROVE  a + n = c
OBVIOUS

\* Where a concatenation reads from its second part.
LEMMA ConcatSecond ==
  ASSUME NEW V, NEW s \in Seq(V), NEW t \in Seq(V),
         NEW n \in 1..Len(s \o t), n > Len(s), NEW i \in Int, i = n - Len(s)
  PROVE  i \in 1..Len(t) /\ (s \o t)[n] = t[i]
OBVIOUS

\* A map over ids 0..MaxID has a smallest missing id from `from' on, and that
\* is where the release loop stops.
LEMMA RunEndIsFirstGap ==
  ASSUME NEW b, DOMAIN b \subseteq Ids, NEW from \in 0..MaxID+1
  PROVE  /\ RunEnd(b, from) \in from..MaxID+1
         /\ RunEnd(b, from) \notin DOMAIN b
         /\ \A k \in from..RunEnd(b, from)-1 : k \in DOMAIN b
<1>1. MaxID \in Nat
  BY ParamAssumption
<1> DEFINE Gaps == {n \in from..MaxID+1 : n \notin DOMAIN b}
<1>2. Gaps \subseteq Nat /\ MaxID + 1 \in Gaps
  BY <1>1 DEF Ids
<1>3. PICK n \in Gaps : \A k \in Gaps : n <= k
  BY <1>2, LeastNatural
<1>4. \A k \in from..n-1 : k \in DOMAIN b
  BY <1>1, <1>3
<1>5. QED
  BY <1>3, <1>4 DEF RunEnd

-----------------------------------------------------------------------------
(* The inductive invariant: the three invariants of the model together.    *)
IInv == TypeOK /\ ReleasedInOrder /\ WaitingExactly

\* A new buffer satisfies the invariant.
LEMMA InitIInv == Init => IInv
<1>1. StartID \in Nat /\ MaxID \in Nat /\ StartID <= MaxID
  BY ParamAssumption
<1>2. SUFFICES ASSUME Init PROVE IInv
  OBVIOUS
<1>3. TypeOK
  BY <1>1, <1>2 DEF Init, TypeOK
<1>4. ReleasedInOrder
  BY <1>1, <1>2 DEF Init, ReleasedInOrder
<1>5. WaitingExactly
  BY <1>1, <1>2 DEF Init, WaitingExactly
<1>6. QED
  BY <1>3, <1>4, <1>5 DEF IInv

\* The map after ob.buffer[id] = value holds only values handed over for
\* their ids, and every id still to come that was handed over.
LEMMA FilledFacts ==
  ASSUME IInv, NEW id \in Ids, NEW value \in Values, id >= nextID
  PROVE  LET b == Filled(id, value)
             now == offered \cup {<<id, value>>}
         IN  /\ DOMAIN b = DOMAIN buffer \cup {id}
             /\ DOMAIN b \subseteq Ids
             /\ \A k \in DOMAIN b : /\ k >= nextID
                                    /\ b[k] \in Values
                                    /\ <<k, b[k]>> \in now
             /\ \A p \in now : p[1] >= nextID => p[1] \in DOMAIN b
<1>1. StartID \in Nat /\ MaxID \in Nat /\ StartID <= MaxID
  BY ParamAssumption
<1> DEFINE b == Filled(id, value)
           now == offered \cup {<<id, value>>}
<1>2. DOMAIN b = DOMAIN buffer \cup {id}
  BY DEF Filled
<1>3. DOMAIN b \subseteq Ids
  BY <1>2 DEF IInv, TypeOK
<1>4. ASSUME NEW k \in DOMAIN b
      PROVE  k >= nextID /\ b[k] \in Values /\ <<k, b[k]>> \in now
  <2>1. CASE k = id
    <3>1. b[k] = value
      BY <2>1 DEF Filled
    <3>2. QED
      BY <2>1, <3>1
  <2>2. CASE k # id
    <3>1. k \in DOMAIN buffer /\ b[k] = buffer[k]
      BY <1>2, <1>4, <2>2 DEF Filled
    <3>2. k > nextID /\ <<k, buffer[k]>> \in offered /\ buffer[k] \in Values
      BY <3>1 DEF IInv, TypeOK, WaitingExactly
    <3>3. k \in Int /\ nextID \in Int
      BY <1>1, <3>1 DEF IInv, TypeOK, Ids
    <3>4. QED
      BY <3>1, <3>2, <3>3
  <2>3. QED
    BY <2>1, <2>2
<1>5. \A p \in now : p[1] >= nextID => p[1] \in DOMAIN b
  BY <1>2 DEF IInv, WaitingExactly
<1>6. QED
  BY <1>2, <1>3, <1>4, <1>5

\* What a call that is not stale returns and leaves behind.
LEMMA ReleaseFacts ==
  ASSUME IInv, NEW id \in Ids, NEW value \in Values, id >= nextID, Insert(id, value)
  PROVE  LET b == Filled(id, value)
             batch == Batch(id, value)
         IN  /\ nextID' \in nextID..MaxID+1
             /\ nextID' \notin DOMAIN b
             /\ \A k \in nextID..nextID'-1 : k \in DOMAIN b
             /\ DOMAIN buffer' = DOMAIN b \ (nextID..nextID'-1)
             /\ \A k \in DOMAIN buffer' : buffer'[k] = b[k]
             /\ batch \in Seq(Values)
             /\ Len(batch) = nextID' - nextID
             /\ \A i \in 1..Len(batch) : batch[i] = b[nextID + i - 1]
<1>1. StartID \in Nat /\ MaxID \in Nat /\ StartID <= MaxID
  BY ParamAssumption
<1> DEFINE b == Filled(id, value)
           end == RunEnd(b, nextID)
<1>2. nextID \in 0..MaxID+1 /\ nextID \in Int /\ id \in Int
  BY <1>1 DEF IInv, TypeOK, Ids
<1>3. DOMAIN b \subseteq Ids /\ \A k \in DOMAIN b : b[k] \in Values
  BY FilledFacts
<1>4. end \in nextID..MaxID+1 /\ end \notin DOMAIN b /\ \A k \in nextID..end-1 : k \in DOMAIN b
  BY <1>2, <1>3, RunEndIsFirstGap
<1>5. ~ (id < nextID)
  BY <1>2
<1>6. nextID' = end /\ buffer' = [k \in DOMAIN b \ (nextID..end-1) |-> b[k]]
  BY <1>5 DEF Insert, InsertBody
<1>7. Batch(id, value) = [i \in 1..(end - nextID) |-> b[nextID + i - 1]]
  BY <1>5 DEF Batch
<1>8. end - nextID \in Nat
  BY <1>1, <1>2, <1>4
<1>9. ASSUME NEW i \in 1..(end - nextID) PROVE b[nextID + i - 1] \in Values
  <2>1. nextID + i - 1 \in nextID..end-1
    BY <1>2, <1>4, <1>8
  <2>2. QED
    BY <1>3, <1>4, <2>1
<1> HIDE DEF b, end
<1>10. Batch(id, value) \in Seq(Values) /\ Len(Batch(id, value)) = end - nextID
  BY <1>7, <1>8, <1>9
<1>11. QED
  BY <1>4, <1>6, <1>7, <1>8, <1>10 DEF b

\* One step of the buffer keeps the invariant.
LEMMA InsertIInv ==
  ASSUME IInv, NEW id \in Ids, NEW value \in Values, Insert(id, value)
  PROVE  IInv'
<1>1. StartID \in Nat /\ MaxID \in Nat /\ StartID <= MaxID
  BY ParamAssumption
<1>2. /\ nextID \in StartID..MaxID+1 /\ nextID \in Int /\ id \in Int
      /\ released \in Seq(Values) /\ Len(released) = nextID - StartID
  BY <1>1 DEF IInv, TypeOK, ReleasedInOrder, Ids
<1>3. offered' = offered \cup {<<id, value>>} /\ offered' \subseteq Ids \X Values
  BY DEF Insert, IInv, TypeOK
<1>4. released' = released \o Batch(id, value)
  BY DEF Insert
<1>5. CASE id < nextID
  <2>1. nextID' = nextID /\ buffer' = buffer
    BY <1>5 DEF Insert, InsertBody
  <2>2. released' = released
    BY <1>2, <1>4, <1>5 DEF Batch
  <2>3. TypeOK'
    BY <1>3, <2>1, <2>2 DEF IInv, TypeOK
  <2>4. ReleasedInOrder'
    BY <1>3, <2>1, <2>2 DEF IInv, ReleasedInOrder
  <2>5. WaitingExactly'
    BY <1>2, <1>3, <1>5, <2>1 DEF IInv, WaitingExactly
  <2>6. QED
    BY <2>3, <2>4, <2>5 DEF IInv
<1>6. CASE id >= nextID
  <2> DEFINE b == Filled(id, value)
             batch == Batch(id, value)
  <2>1. /\ DOMAIN b \subseteq Ids
        /\ \A k \in DOMAIN b : k >= nextID /\ b[k] \in Values /\ <<k, b[k]>> \in offered'
        /\ \A p \in offered' : p[1] >= nextID => p[1] \in DOMAIN b
    BY <1>3, <1>6, FilledFacts
  <2>2. /\ nextID' \in nextID..MaxID+1 /\ nextID' \notin DOMAIN b
        /\ \A k \in nextID..nextID'-1 : k \in DOMAIN b
        /\ DOMAIN buffer' = DOMAIN b \ (nextID..nextID'-1)
        /\ \A k \in DOMAIN buffer' : buffer'[k] = b[k]
        /\ batch \in Seq(Values) /\ Len(batch) = nextID' - nextID
        /\ \A i \in 1..Len(batch) : batch[i] = b[nextID + i - 1]
    BY <1>6, ReleaseFacts
  <2>3. released' = released \o batch
    BY <1>4
  <2> HIDE DEF b, batch
  <2>4. nextID' \in Int /\ nextID <= nextID'
    BY <1>1, <1>2, <2>2
  <2>5. released' \in Seq(Values) /\ Len(released') = Len(released) + Len(batch)
    <3>1. batch \in Seq(Values) /\ released \in Seq(Values)
      BY <1>2, <2>2
    <3>2. QED
      BY <2>3, <3>1
  <2>6. TypeOK'
    <3>1. nextID' \in StartID..MaxID+1
      BY <1>1, <1>2, <2>2, <2>4
    <3>2. DOMAIN buffer' \subseteq Ids /\ \A k \in DOMAIN buffer' : buffer'[k] \in Values
      BY <2>1, <2>2
    <3>3. QED
      BY <1>3, <2>5, <3>1, <3>2 DEF TypeOK
  <2>7. ReleasedInOrder'
    <3>1. Len(released') = nextID' - StartID
      BY <1>1, <1>2, <2>2, <2>4, <2>5
    <3>2. ASSUME NEW n \in 1..Len(released')
          PROVE  <<StartID + n - 1, released'[n]>> \in offered'
      <4>1. CASE n <= Len(released)
        <5>1. released'[n] = released[n] /\ n \in 1..Len(released)
          BY <1>2, <2>2, <2>3, <4>1
        <5>2. <<StartID + n - 1, released[n]>> \in offered
          BY <5>1 DEF IInv, ReleasedInOrder
        <5>3. QED
          BY <1>3, <5>1, <5>2
      <4>2. CASE n > Len(released)
        <5>1. PICK i \in Int : i = n - Len(released)
          BY <1>2
        <5>2. /\ i \in 1..Len(batch) /\ released'[n] = batch[i]
              /\ nextID + i - 1 = StartID + n - 1
              /\ nextID + i - 1 \in nextID..nextID'-1
          <6>1. i \in 1..Len(batch) /\ released'[n] = batch[i]
            <7>1. released \in Seq(Values) /\ batch \in Seq(Values)
              BY <1>2, <2>2
            <7>2. QED
              BY <2>3, <4>2, <5>1, <7>1, ConcatSecond
          <6>2. nextID + i - 1 = StartID + n - 1
            BY <1>1, <1>2, <5>1
          <6>3. 1 <= i /\ i <= nextID' - nextID
            <7>1. Len(batch) = nextID' - nextID
              BY <2>2
            <7>2. QED
              BY <6>1, <7>1
          <6>4. nextID \in Int /\ nextID' \in Int
            BY <1>2, <2>4
          <6>5. nextID + i - 1 \in nextID..nextID'-1
            BY <6>3, <6>4, RunMember
          <6>6. QED
            BY <6>1, <6>2, <6>5
        <5>3. nextID + i - 1 \in DOMAIN b
          BY <2>2, <5>2
        <5>4. <<nextID + i - 1, b[nextID + i - 1]>> \in offered'
          BY <2>1, <5>3
        <5>5. QED
          BY <2>2, <5>1, <5>2, <5>4
      <4>3. QED
        BY <1>2, <4>1, <4>2
    <3>3. QED
      BY <3>1, <3>2 DEF ReleasedInOrder
  <2>8. WaitingExactly'
    <3>1. nextID' \notin DOMAIN buffer'
      BY <2>2
    <3>2. ASSUME NEW k \in DOMAIN buffer'
          PROVE  k > nextID' /\ <<k, buffer'[k]>> \in offered'
      <4>1. k \in DOMAIN b /\ k \notin nextID..nextID'-1 /\ buffer'[k] = b[k] /\ k # nextID'
        BY <2>2, <3>1, <3>2
      <4>2. k >= nextID /\ k \in Int /\ <<k, b[k]>> \in offered'
        BY <1>1, <2>1, <4>1 DEF Ids
      <4>3. QED
        BY <1>2, <2>4, <4>1, <4>2
    <3>3. ASSUME NEW p \in offered', p[1] >= nextID' PROVE p[1] \in DOMAIN buffer'
      <4>1. p[1] \in Int
        BY <1>1, <1>3, <3>3 DEF Ids
      <4>2. p[1] \in DOMAIN b
        BY <1>2, <2>1, <2>4, <3>3, <4>1
      <4>3. QED
        BY <1>2, <2>2, <2>4, <3>3, <4>1, <4>2
    <3>4. QED
      BY <3>1, <3>2, <3>3 DEF WaitingExactly
  <2>9. QED
    BY <2>6, <2>7, <2>8 DEF IInv
<1>7. QED
  BY <1>2, <1>5, <1>6

\* So does every step of the specification, stuttering included.
LEMMA NextIInv == IInv /\ [Next]_vars => IInv'
<1>1. ASSUME IInv, Next PROVE IInv'
  BY <1>1, InsertIInv DEF Next
<1>2. ASSUME IInv, UNCHANGED vars PROVE IInv'
  BY <1>2 DEF IInv, TypeOK, ReleasedInOrder, WaitingExactly, vars
<1>3. QED
  BY <1>1, <1>2

\* The invariant holds in every reachable state.
LEMMA Invariance == Spec => []IInv
BY InitIInv, NextIInv, PTL DEF Spec

\* The buffer's variables always have the shape the code gives them.
THEOREM TypeCorrect == Spec => []TypeOK
<1>1. IInv => TypeOK
  BY DEF IInv
<1>2. QED
  BY <1>1, Invariance, PTL

\* Insert hands back every id once, in order, with a value given for it.
THEOREM InOrder == Spec => []ReleasedInOrder
<1>1. IInv => ReleasedInOrder
  BY DEF IInv
<1>2. QED
  BY <1>1, Invariance, PTL

\* The map holds exactly the ids that arrived early, and nothing ready to go.
THEOREM NothingWithheld == Spec => []WaitingExactly
<1>1. IInv => WaitingExactly
  BY DEF IInv
<1>2. QED
  BY <1>1, Invariance, PTL

-----------------------------------------------------------------------------
(* Refinement: the buffer implements InOrderDelivery.                      *)

\* The slice a call returns is a sequence of values.
LEMMA BatchIsSeq ==
  ASSUME IInv, NEW id \in Ids, NEW value \in Values, Insert(id, value)
  PROVE  Batch(id, value) \in Seq(Values)
<1>1. CASE id < nextID
  BY <1>1 DEF Batch
<1>2. CASE id >= nextID
  BY <1>2, ReleaseFacts
<1>3. nextID \in Int /\ id \in Int
  BY ParamAssumption DEF IInv, TypeOK, Ids
<1>4. QED
  BY <1>1, <1>2, <1>3

\* A call of Insert is an Offer of the abstract specification.
LEMMA InsertIsOffer ==
  ASSUME IInv, IInv', NEW id \in Ids, NEW value \in Values, Insert(id, value)
  PROVE  IOD!Offer(id, value)
<1>1. StartID \in Nat /\ MaxID \in Nat
  BY ParamAssumption
<1>2. offered' = offered \cup {<<id, value>>} /\ released' = released \o Batch(id, value)
  BY DEF Insert
<1>3. released \in Seq(Values) /\ released' \in Seq(Values)
  BY DEF IInv, TypeOK
<1>4. IOD!Extends(released, released')
  BY <1>2, <1>3, BatchIsSeq DEF IOD!Extends
<1>5. IOD!Justified(offered', released')
  BY DEF IInv, ReleasedInOrder, IOD!Justified
<1>6. IOD!Maximal(offered', released')
  <2>1. nextID' \in Int /\ StartID + Len(released') = nextID'
    <3>1. nextID' \in StartID..MaxID+1
      BY DEF IInv, TypeOK
    <3>2. Len(released') = nextID' - StartID
      BY DEF IInv, ReleasedInOrder
    <3>3. nextID' \in Int /\ StartID \in Int
      BY <1>1, <3>1
    <3>4. StartID + Len(released') = nextID'
      BY ONLY <3>2, <3>3, Distance, ZenonT(40)
    <3>5. QED
      BY <3>3, <3>4
  <2>2. ASSUME NEW v \in Values, <<nextID', v>> \in offered' PROVE FALSE
    <3>1. nextID' \in DOMAIN buffer'
      BY <2>1, <2>2 DEF IInv, WaitingExactly
    <3>2. QED
      BY <3>1 DEF IInv, WaitingExactly
  <2>3. QED
    BY <2>1, <2>2 DEF IOD!Maximal
<1>7. QED
  BY <1>2, <1>3, <1>4, <1>5, <1>6 DEF IOD!Offer

\* Whatever the callers insert, in whatever order: what the buffer has handed
\* back is at every moment the longest gap-free run of what it was given.
THEOREM Refinement == Spec => ImplementsInOrderDelivery
<1>1. Init => IOD!Init
  BY DEF Init, IOD!Init
<1>2. ASSUME IInv, IInv', [Next]_vars PROVE [IOD!Next]_(IOD!avars)
  <2>1. CASE Next
    <3>1. PICK id \in Ids, value \in Values : Insert(id, value)
      BY <2>1 DEF Next
    <3>2. IOD!Offer(id, value)
      BY <1>2, <3>1, InsertIsOffer
    <3>3. QED
      BY <3>2 DEF IOD!Next
  <2>2. CASE UNCHANGED vars
    BY <2>2 DEF vars, IOD!avars
  <2>3. QED
    BY <1>2, <2>1, <2>2
<1>3. QED
  BY <1>1, <1>2, Invariance, PTL DEF Spec, ImplementsInOrderDelivery, IOD!Spec
-----------------------------------------------------------------------------
(* What the clients and servers that keep a buffer of their own need: they *)
(* take the calls (InsertBody, Batch) and have no history of them.         *)

\* The map holds ids that are still to come, each with a value.
Waiting ==
    /\ nextID \in 0..MaxID+1
    /\ DOMAIN buffer \subseteq Ids
    /\ \A k \in DOMAIN buffer : k > nextID /\ buffer[k] \in Values

\* A call moves on to the first id that is missing.  It takes out the ids up to
\* there, and returns their values in order.
LEMMA InsertBodyFacts ==
  ASSUME Waiting, NEW id \in Ids, NEW value \in Values, InsertBody(id, value)
  PROVE  /\ Waiting'
         /\ nextID' \in nextID..MaxID+1
         /\ \A k \in Int : (k < nextID' \/ k \in DOMAIN buffer')
                            <=> (k < nextID \/ k \in DOMAIN buffer \/ k = id)
         /\ id < nextID => nextID' = nextID /\ buffer' = buffer /\ Batch(id, value) = <<>>
         /\ \A k \in nextID..nextID'-1 : k \in DOMAIN buffer \cup {id}
         /\ id >= nextID =>
               DOMAIN buffer' = (DOMAIN buffer \cup {id}) \ (nextID..nextID'-1)
         /\ \A k \in DOMAIN buffer' : \/ k \in DOMAIN buffer /\ buffer'[k] = buffer[k]
                                      \/ k = id /\ buffer'[k] = value
         /\ Batch(id, value) \in Seq(Values)
         /\ Len(Batch(id, value)) = nextID' - nextID
         /\ \A i \in 1..Len(Batch(id, value)) :
               \/ nextID + i - 1 = id /\ Batch(id, value)[i] = value
               \/ /\ nextID + i - 1 \in DOMAIN buffer
                  /\ Batch(id, value)[i] = buffer[nextID + i - 1]
<1>1. MaxID \in Nat
  BY ParamAssumption
<1>2. nextID \in Int /\ id \in Int /\ nextID \in 0..MaxID+1
  BY <1>1 DEF Waiting, Ids
<1> DEFINE batch == Batch(id, value)
           b == Filled(id, value)
           end == RunEnd(b, nextID)
<1>3. CASE id < nextID
  <2>1. nextID' = nextID /\ buffer' = buffer /\ batch = <<>>
    BY <1>3 DEF InsertBody, Batch
  <2>2. Waiting'
    BY <2>1 DEF Waiting
  <2> HIDE DEF batch
  <2>3. \A k \in Int : k < nextID' \/ k \in DOMAIN buffer'
                      <=> k < nextID \/ k \in DOMAIN buffer \/ k = id
    BY <1>2, <1>3, <2>1
  <2>4. nextID' \in nextID..MaxID+1 /\ nextID' - nextID = 0 /\ ~(id >= nextID)
    BY <1>1, <1>2, <1>3, <2>1
  <2>5. batch \in Seq(Values) /\ Len(batch) = 0
    BY <2>1
  <2>6. \A k \in DOMAIN buffer' : k \in DOMAIN buffer /\ buffer'[k] = buffer[k]
    BY <2>1
  <2>7. (\A k \in nextID..nextID'-1 : FALSE) /\ (\A i \in 1..Len(batch) : FALSE)
    BY <1>2, <2>1, <2>5
  <2>8. QED
    BY <1>3, <2>1, <2>2, <2>3, <2>4, <2>5, <2>6, <2>7 DEF batch
<1>4. CASE ~(id < nextID)
  <2>1. DOMAIN b = DOMAIN buffer \cup {id} /\ DOMAIN b \subseteq Ids
    BY DEF Filled, Waiting
  <2>2. \A k \in DOMAIN b : /\ b[k] = IF k = id THEN value ELSE buffer[k]
                            /\ b[k] \in Values /\ k >= nextID /\ k \in Int
    <3>1. TAKE k \in DOMAIN b
    <3>2. b[k] = IF k = id THEN value ELSE buffer[k]
      BY DEF Filled
    <3>3. k \in Int
      BY <1>1, <2>1 DEF Ids
    <3>4. CASE k = id
      BY <1>2, <1>4, <3>2, <3>4
    <3>5. CASE k # id
      <4>1. k \in DOMAIN buffer
        BY <2>1, <3>5
      <4>2. k > nextID /\ buffer[k] \in Values
        BY <4>1 DEF Waiting
      <4>3. QED
        BY <1>2, <3>2, <3>3, <3>5, <4>2
    <3>6. QED
      BY <3>4, <3>5
  <2>3. end \in nextID..MaxID+1 /\ end \notin DOMAIN b /\ \A k \in nextID..end-1 : k \in DOMAIN b
    BY <1>2, <2>1, RunEndIsFirstGap
  <2>4. nextID' = end /\ buffer' = [k \in DOMAIN b \ (nextID..end-1) |-> b[k]]
    BY <1>4 DEF InsertBody
  <2>5. batch = [i \in 1..(end - nextID) |-> b[nextID + i - 1]]
    BY <1>4 DEF Batch
  <2> HIDE DEF batch, b, end
  <2>6. end \in Int /\ end - nextID \in Nat
    BY <1>1, <1>2, <2>3
  <2>7. \A i \in 1..(end - nextID) : nextID + i - 1 \in DOMAIN b
    <3>1. TAKE i \in 1..(end - nextID)
    <3>2. nextID + i - 1 \in nextID..end-1
      BY <1>2, <2>6
    <3>3. QED
      BY <2>3, <3>2
  <2>8. batch \in Seq(Values) /\ Len(batch) = end - nextID
    BY <2>2, <2>5, <2>6, <2>7
  <2>9. \A i \in 1..Len(batch) :
           \/ nextID + i - 1 = id /\ batch[i] = value
           \/ nextID + i - 1 \in DOMAIN buffer /\ batch[i] = buffer[nextID + i - 1]
    BY <2>1, <2>2, <2>5, <2>7, <2>8
  <2>10. \A k \in DOMAIN buffer' : \/ k \in DOMAIN buffer /\ buffer'[k] = buffer[k]
                                   \/ k = id /\ buffer'[k] = value
    BY <2>1, <2>2, <2>4
  <2>11. Waiting'
    <3>1. nextID' \in 0..MaxID+1
      BY <1>1, <1>2, <2>3, <2>4
    <3>2. DOMAIN buffer' \subseteq Ids
      BY <2>1, <2>4
    <3>3. ASSUME NEW k \in DOMAIN buffer' PROVE k > nextID' /\ buffer'[k] \in Values
      <4>1. k \in DOMAIN b /\ k \notin nextID..end-1 /\ buffer'[k] = b[k] /\ k # end
        BY <2>3, <2>4
      <4>2. k >= nextID /\ k \in Int /\ b[k] \in Values
        BY <2>2, <4>1
      <4>3. QED
        BY <1>2, <2>4, <2>6, <4>1, <4>2
    <3>4. QED
      BY <3>1, <3>2, <3>3 DEF Waiting
  <2>12. \A k \in Int : k < nextID' \/ k \in DOMAIN buffer'
                       <=> k < nextID \/ k \in DOMAIN buffer \/ k = id
    BY <1>2, <1>4, <2>1, <2>3, <2>4, <2>6
  <2>13. /\ \A k \in nextID..nextID'-1 : k \in DOMAIN buffer \cup {id}
         /\ DOMAIN buffer' = (DOMAIN buffer \cup {id}) \ (nextID..nextID'-1)
         /\ nextID' \in nextID..MaxID+1 /\ Len(batch) = nextID' - nextID
    BY <2>1, <2>3, <2>4, <2>8
  <2>14. QED
    BY <1>4, <2>8, <2>9, <2>10, <2>11, <2>12, <2>13 DEF batch
<1>5. QED
  BY <1>3, <1>4

\* Each value of the slice is the one of its id.
LEMMA BatchValues ==
  ASSUME Waiting, NEW id \in Ids, NEW value \in Values, InsertBody(id, value)
  PROVE  \A i \in 1..Len(Batch(id, value)) :
            \/ nextID + i - 1 = id /\ Batch(id, value)[i] = value
            \/ /\ nextID + i - 1 \in DOMAIN buffer
               /\ Batch(id, value)[i] = buffer[nextID + i - 1]
BY InsertBodyFacts, ZenonT(40)

-----------------------------------------------------------------------------
(* The ring beside the ordered buffer.                                     *)

Window == StartID..WindowEnd-1

\* The inductive invariant, beside the OrderedBuffer's: a filled slot holds a value
\* offered for the id it stands for, and of the ids not yet taken, those offered
\* are the filled ones.
RingInv ==
    /\ ringNext \in StartID..WindowEnd /\ ringNext <= nextID
    /\ taken \in Seq(Values) /\ Len(taken) = ringNext - StartID
    /\ \A n \in 1..Len(taken) : <<StartID + n - 1, taken[n]>> \in offered
    /\ IsFiniteSet(DOMAIN slots) /\ count = Cardinality(DOMAIN slots)
    /\ \A o \in DOMAIN slots : /\ o \in 0..Size-1 /\ slots[o] \in Values
                               /\ <<StartID + o, slots[o]>> \in offered
    /\ \A p \in offered : p[1] \in ringNext..WindowEnd-1 => p[1] - StartID \in DOMAIN slots

\* Within the window, the slot of an id is its distance from the first.
LEMMA SlotOf ==
  ASSUME NEW id \in Window
  PROVE  Offset(id) = id - StartID /\ Offset(id) \in 0..Size-1 /\ StartID + Offset(id) = id
<1>1. StartID \in Nat /\ Size \in Nat \ {0} /\ id \in Int
  BY ParamAssumption, SizeAssumption DEF Window, WindowEnd
<1>2. id - StartID \in Nat /\ id - StartID < Size
  BY <1>1 DEF Window, WindowEnd
<1>3. \A n \in Nat : n < Size => n % Size = n
  BY <1>1
<1>4. QED
  BY <1>1, <1>2, <1>3 DEF Offset

\* Two new buffers satisfy the invariant.
LEMMA InitRing == BothInit => RingInv
<1> SUFFICES ASSUME BothInit PROVE RingInv
  OBVIOUS
<1>1. StartID \in Nat /\ Size \in Nat \ {0}
  BY ParamAssumption, SizeAssumption
<1>2. DOMAIN slots = {} /\ offered = {} /\ taken = <<>> /\ count = 0
         /\ ringNext = StartID /\ nextID = StartID
  BY DEF BothInit, RingInit, Init
<1>3. IsFiniteSet({}) /\ Cardinality({}) = 0
  BY FS_EmptySet
<1>4. taken \in Seq(Values) /\ Len(taken) = 0
  BY <1>2
<1>5. QED
  BY <1>1, <1>2, <1>3, <1>4 DEF RingInv, WindowEnd

\* Insert into both.
LEMMA InsertRing ==
  ASSUME IInv, IInv', RingInv, NEW id \in Ids, NEW value \in Values, InsertBoth(id, value)
  PROVE  RingInv'
<1>1. StartID \in Nat /\ Size \in Nat \ {0} /\ ringNext \in Int /\ nextID \in Int
         /\ nextID' \in Int /\ WindowEnd \in Int
  BY ParamAssumption, SizeAssumption DEF RingInv, WindowEnd, IInv, TypeOK
<1>2. offered' = offered \cup {<<id, value>>} /\ nextID <= nextID'
  <2>1. offered' = offered \cup {<<id, value>>} /\ InsertBody(id, value)
    BY DEF InsertBoth, Insert
  <2>2. CASE id < nextID
    BY <1>1, <2>1, <2>2 DEF InsertBody
  <2>3. CASE id >= nextID
    <3>1. Insert(id, value)
      BY DEF InsertBoth
    <3>2. nextID' \in nextID..MaxID+1
      BY <2>3, <3>1, ReleaseFacts
    <3>3. QED
      BY <1>1, <2>1, <3>2
  <2>4. id \in Int
    BY ParamAssumption DEF Ids
  <2>5. QED
    BY <1>1, <2>1, <2>2, <2>3, <2>4
<1>3. /\ ringNext' \in StartID..WindowEnd /\ ringNext' <= nextID' /\ ringNext' = ringNext
      /\ taken' \in Seq(Values) /\ Len(taken') = ringNext' - StartID
      /\ \A n \in 1..Len(taken') : <<StartID + n - 1, taken'[n]>> \in offered'
  <2>1. ringNext' = ringNext /\ taken' = taken
    BY DEF InsertBoth, RingInsert, RingRefuse, ringVars
  <2>2. \A n \in 1..Len(taken) : <<StartID + n - 1, taken[n]>> \in offered'
    BY <1>2 DEF RingInv
  <2>3. \A n \in 1..Len(taken') : <<StartID + n - 1, taken'[n]>> \in offered'
    BY ONLY <2>1, <2>2, Zenon
  <2>4. /\ ringNext \in StartID..WindowEnd /\ ringNext <= nextID'
        /\ taken \in Seq(Values) /\ Len(taken) = ringNext - StartID
    BY <1>1, <1>2 DEF RingInv
  <2>5. /\ ringNext' \in StartID..WindowEnd /\ ringNext' <= nextID'
        /\ taken' \in Seq(Values) /\ Len(taken') = ringNext' - StartID
    BY ONLY <2>1, <2>4, Zenon
  <2>6. QED
    BY <2>1, <2>3, <2>5
<1>4. CASE RingRefuse(id)
  <2>1. UNCHANGED <<slots, count>> /\ id \notin Window
    BY <1>4 DEF RingRefuse, ringVars, InWindow, Window
  <2>2. \A p \in offered' : p[1] \in ringNext..WindowEnd-1 => p[1] - StartID \in DOMAIN slots
    <3>1. id \notin ringNext..WindowEnd-1
      BY <1>1, <2>1 DEF Window, RingInv
    <3>2. QED
      BY <1>2, <3>1 DEF RingInv
  <2>3. WindowEnd' = WindowEnd /\ \A q \in offered : q \in offered'
    BY <1>2 DEF WindowEnd
  <2>4. \A a \in DOMAIN slots : /\ a \in 0..Size-1 /\ slots[a] \in Values
                                /\ <<StartID + a, slots[a]>> \in offered'
    BY <2>3 DEF RingInv
  <2>5. IsFiniteSet(DOMAIN slots) /\ count = Cardinality(DOMAIN slots)
    BY DEF RingInv
  <2>6. slots' = slots /\ count' = count
    BY <2>1
  <2>7. QED
    BY <1>3, <2>2, <2>3, <2>4, <2>5, <2>6, Zenon DEF RingInv
<1>5. CASE RingInsert(id, value)
  <2> DEFINE o == Offset(id)
  <2>1. o = id - StartID /\ o \in 0..Size-1 /\ StartID + o = id
    BY <1>5, SlotOf DEF RingInsert, InWindow, Window
  <2>2. /\ slots' = [a \in DOMAIN slots \cup {o} |-> IF a = o THEN value ELSE slots[a]]
        /\ count' = IF o \in DOMAIN slots THEN count ELSE count + 1
    BY <1>5 DEF RingInsert
  <2> HIDE DEF o
  <2>3. DOMAIN slots' = DOMAIN slots \cup {o}
    BY <2>2
  <2>4. IsFiniteSet(DOMAIN slots') /\ count' = Cardinality(DOMAIN slots')
    <3>1. /\ IsFiniteSet(DOMAIN slots \cup {o})
          /\ Cardinality(DOMAIN slots \cup {o}) =
                IF o \in DOMAIN slots THEN Cardinality(DOMAIN slots)
                ELSE Cardinality(DOMAIN slots) + 1
      BY FS_AddElement DEF RingInv
    <3>2. QED
      BY <2>2, <2>3, <3>1 DEF RingInv
  <2>5. ASSUME NEW a \in DOMAIN slots'
        PROVE  a \in 0..Size-1 /\ slots'[a] \in Values /\ <<StartID + a, slots'[a]>> \in offered'
    <3>1. CASE a = o
      BY <1>2, <2>1, <2>2, <2>3, <3>1
    <3>2. CASE a # o
      <4>1. a \in DOMAIN slots /\ slots'[a] = slots[a]
        BY <2>2, <2>3, <2>5, <3>2
      <4>2. QED
        BY <1>2, <4>1 DEF RingInv
    <3>3. QED
      BY <3>1, <3>2
  <2>6. \A p \in offered' : p[1] \in ringNext..WindowEnd-1 => p[1] - StartID \in DOMAIN slots'
    <3>1. TAKE p \in offered'
    <3>2. CASE p = <<id, value>>
      BY <2>1, <2>3, <3>2
    <3>3. CASE p \in offered
      BY <2>3, <3>3 DEF RingInv
    <3>4. QED
      BY <1>2, <3>2, <3>3
  <2>7. WindowEnd' = WindowEnd /\ Window' = Window
    BY DEF WindowEnd, Window
  <2>8. QED
    BY <1>3, <2>4, <2>5, <2>6, <2>7, Zenon DEF RingInv
<1>6. QED
  BY <1>4, <1>5 DEF InsertBoth

\* An id has been offered exactly if the OrderedBuffer has released it, at the
\* border between the two.
LEMMA OfferedIsReleased ==
  ASSUME IInv, NEW id \in Int, StartID <= id, id <= nextID
  PROVE  (\E v \in Values : <<id, v>> \in offered) <=> id < nextID
<1>1. StartID \in Nat /\ nextID \in Int /\ released \in Seq(Values)
         /\ Len(released) = nextID - StartID
  BY ParamAssumption DEF IInv, TypeOK, ReleasedInOrder
<1>2. ASSUME id < nextID PROVE \E v \in Values : <<id, v>> \in offered
  <2>1. id - StartID + 1 \in 1..Len(released) /\ StartID + (id - StartID + 1) - 1 = id
    BY <1>1, <1>2
  <2>2. <<id, released[id - StartID + 1]>> \in offered
    BY <2>1 DEF IInv, ReleasedInOrder
  <2>3. released[id - StartID + 1] \in Values
    BY <1>1, <2>1, ElementOfSeq
  <2>4. QED
    BY <2>2, <2>3
<1>3. ASSUME NEW v \in Values, <<id, v>> \in offered, id = nextID PROVE FALSE
  <2>1. id \in DOMAIN buffer
    BY <1>1, <1>3 DEF IInv, WaitingExactly
  <2>2. QED
    BY <1>3, <2>1 DEF IInv, WaitingExactly
<1>4. CASE id < nextID
  BY <1>2, <1>4
<1>5. CASE id = nextID
  <2>1. ~(id < nextID)
    BY <1>1, <1>5
  <2>2. QED
    BY <1>3, <1>5, <2>1
<1>6. id < nextID \/ id = nextID
  BY <1>1
<1>7. QED
  BY <1>4, <1>5, <1>6

\* The invariant says when GetNext has a value.
LEMMA InvCanTake ==
  ASSUME IInv, RingInv
  PROVE  CanTake <=> ringNext < nextID /\ ringNext < WindowEnd
<1>1. StartID \in Nat /\ ringNext \in Int /\ StartID <= ringNext /\ ringNext <= nextID
         /\ WindowEnd \in Int /\ nextID \in Int
  BY ParamAssumption, SizeAssumption DEF RingInv, WindowEnd, IInv, TypeOK
<1>2. CASE ringNext < WindowEnd
  <2>1. Offset(ringNext) = ringNext - StartID /\ StartID + Offset(ringNext) = ringNext
    BY <1>1, <1>2, SlotOf DEF Window
  <2>2. Offset(ringNext) \in DOMAIN slots <=> \E v \in Values : <<ringNext, v>> \in offered
    <3>1. ASSUME Offset(ringNext) \in DOMAIN slots
          PROVE  \E v \in Values : <<ringNext, v>> \in offered
      BY <2>1, <3>1 DEF RingInv
    <3>2. ASSUME NEW v \in Values, <<ringNext, v>> \in offered
          PROVE  Offset(ringNext) \in DOMAIN slots
      <4>1. ringNext \in ringNext..WindowEnd-1
        BY <1>1, <1>2
      <4>2. ringNext - StartID \in DOMAIN slots
        BY <3>2, <4>1 DEF RingInv
      <4>3. QED
        BY <2>1, <4>2
    <3>3. QED
      BY <3>1, <3>2
  <2>3. Offset(ringNext) \in DOMAIN slots <=> ringNext < nextID
    BY <1>1, <2>2, OfferedIsReleased
  <2>4. count = 0 => Offset(ringNext) \notin DOMAIN slots
    BY FS_EmptySet DEF RingInv
  <2>5. QED
    BY <1>2, <2>3, <2>4 DEF CanTake
<1>3. QED
  BY <1>1, <1>2 DEF CanTake

\* GetNext.
LEMMA GetNextRing ==
  ASSUME IInv, RingInv, GetNext, UNCHANGED vars
  PROVE  RingInv'
<1>1. StartID \in Nat /\ ringNext \in Int /\ StartID <= ringNext /\ nextID \in Int
         /\ WindowEnd \in Int
  BY ParamAssumption, SizeAssumption DEF RingInv, WindowEnd, IInv, TypeOK
<1>2. ringNext < nextID /\ ringNext < WindowEnd /\ Offset(ringNext) \in DOMAIN slots
  BY InvCanTake DEF GetNext, CanTake
<1> DEFINE o == Offset(ringNext)
<1>3. o = ringNext - StartID /\ StartID + o = ringNext /\ o \in DOMAIN slots
  BY <1>1, <1>2, SlotOf DEF Window
<1>4. /\ taken' = Append(taken, slots[o])
      /\ slots' = [a \in DOMAIN slots \ {o} |-> slots[a]]
      /\ count' = count - 1 /\ ringNext' = ringNext + 1
      /\ offered' = offered /\ nextID' = nextID
  BY DEF GetNext, vars
<1> HIDE DEF o
<1>5. slots[o] \in Values /\ <<ringNext, slots[o]>> \in offered
  BY <1>3 DEF RingInv
<1>6. /\ taken \in Seq(Values) /\ Len(taken) \in Nat /\ Len(taken) = ringNext - StartID
      /\ taken' \in Seq(Values) /\ Len(taken') = Len(taken) + 1
      /\ taken'[Len(taken) + 1] = slots[o]
      /\ \A n \in 1..Len(taken) : taken'[n] = taken[n]
  <2>1. taken \in Seq(Values) /\ Len(taken) = ringNext - StartID
    BY DEF RingInv
  <2>2. QED
    BY <1>4, <1>5, <2>1, AppendProperties, LenProperties
<1>7. \A n \in 1..Len(taken') : <<StartID + n - 1, taken'[n]>> \in offered'
  <2>1. TAKE n \in 1..Len(taken')
  <2>2. CASE n = Len(taken) + 1
    <3>1. StartID + n - 1 = ringNext
      BY <1>1, <1>6, <2>2
    <3>2. QED
      BY <1>4, <1>5, <1>6, <2>2, <3>1
  <2>3. CASE n # Len(taken) + 1
    <3>1. n \in 1..Len(taken)
      BY <1>6, <2>3
    <3>2. QED
      BY <1>4, <1>6, <3>1 DEF RingInv
  <2>4. QED
    BY <2>2, <2>3
<1>8. DOMAIN slots' = DOMAIN slots \ {o} /\ \A a \in DOMAIN slots' : slots'[a] = slots[a]
  BY <1>4
<1>9. IsFiniteSet(DOMAIN slots') /\ count' = Cardinality(DOMAIN slots')
  <2>1. /\ IsFiniteSet(DOMAIN slots \ {o})
        /\ Cardinality(DOMAIN slots \ {o}) = Cardinality(DOMAIN slots) - 1
    BY <1>3, FS_RemoveElement DEF RingInv
  <2>2. QED
    BY <1>4, <1>8, <2>1 DEF RingInv
<1>10. \A p \in offered' : p[1] \in ringNext'..WindowEnd-1 => p[1] - StartID \in DOMAIN slots'
  <2>1. TAKE p \in offered'
  <2>2. HAVE p[1] \in ringNext'..WindowEnd-1
  <2>3. p[1] \in ringNext..WindowEnd-1 /\ p[1] - StartID # o
    BY <1>1, <1>3, <1>4, <2>2
  <2>4. QED
    BY <1>4, <1>8, <2>3 DEF RingInv
<1>11. ringNext' \in StartID..WindowEnd /\ ringNext' <= nextID' /\ Len(taken') = ringNext' - StartID
  BY <1>1, <1>2, <1>4, <1>6
<1>12. \A a \in DOMAIN slots' : /\ a \in 0..Size-1 /\ slots'[a] \in Values
                                /\ <<StartID + a, slots'[a]>> \in offered'
  BY <1>4, <1>8 DEF RingInv
<1>13. QED
  BY <1>6, <1>7, <1>9, <1>10, <1>11, <1>12 DEF RingInv, WindowEnd

-----------------------------------------------------------------------------
\* Given both, the OrderedBuffer behaves as it does alone.
THEOREM BothSpecIsSpec == BothSpec => Spec
<1>1. BothInit => Init
  BY DEF BothInit
<1>2. [BothNext]_<<vars, ringVars>> => [Next]_vars
  BY DEF BothNext, InsertBoth, Next
<1>3. QED
  BY <1>1, <1>2, PTL DEF BothSpec, Spec

\* The invariants hold in every state.
THEOREM RingCorrect == BothSpec => [](IInv /\ RingInv)
<1>1. BothSpec => []IInv
  BY BothSpecIsSpec, Invariance, PTL
<1>2. ASSUME IInv, IInv', RingInv, [BothNext]_<<vars, ringVars>> PROVE RingInv'
  <2>1. ASSUME BothNext PROVE RingInv'
    BY <1>2, <2>1, InsertRing, GetNextRing DEF BothNext
  <2>2. ASSUME UNCHANGED <<vars, ringVars>> PROVE RingInv'
    BY <1>2, <2>2 DEF vars, ringVars, RingInv
  <2>3. QED
    BY <1>2, <2>1, <2>2
<1>3. QED
  BY <1>1, <1>2, InitRing, PTL DEF BothSpec

\* What GetNext has taken is in order and was offered, and up to the end of the
\* window the ring has a value exactly if the OrderedBuffer has released that id
\* (ring.go:29-65).
THEOREM RingStandsIn == BothSpec => []RingAgrees
<1>1. IInv /\ RingInv => RingAgrees
  BY InvCanTake DEF RingInv, RingAgrees
<1>2. QED
  BY <1>1, RingCorrect, PTL
=============================================================================
