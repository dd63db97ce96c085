------------------------- MODULE StreamClientProofs -------------------------
(***************************************************************************)
(* The clients over a stream print in order, and Run waits for every ACK,  *)
(* for every number of generators and packets and every capacity of the    *)
(* output channel.                                                         *)
(***************************************************************************)
EXTENDS StreamClient, CountingProofs, SequenceTheorems

OBP == INSTANCE OrderProofs WITH Values <- IDs, StartID <- 1, MaxID <- TotalPackets,
                                         offered <- {}, released <- <<>>, Size <- 1, slots <- <<>>,
                                         ringNext <- 1, count <- 0, taken <- <<>>

Rises(s) == \A m, n \in 1..Len(s) : m < n => s[m] < s[n]
Below(s, t) == \A x \in ToSet(s), y \in ToSet(t) : x < y

\* LinesInOrder, without the concatenation.
LinesApart ==
    /\ Rises(printed) /\ Rises(outputCh) /\ Rises(ackOut)
    /\ Below(printed, outputCh) /\ Below(printed, ackOut) /\ Below(outputCh, ackOut)
    /\ ToSet(printed) \cup ToSet(outputCh) \cup ToSet(ackOut) \cup dropped = 1..nextID-1
    /\ dropped \cap (ToSet(printed) \cup ToSet(outputCh) \cup ToSet(ackOut)) = {}

\* What ackReceiver has at each of its steps, and what fits the two clients.
AckStands ==
    /\ ackPC = "insert" => ackID \in IDs /\ ~benchMode
    /\ ackPC # "insert" => ackID = None
    /\ ackOut = <<>> <=> ackPC # "output"
    /\ piped \/ outputCh = <<>>

\* The ordered buffer holds, for an id still to come, the line of that id.
BufferExact == \A k \in DOMAIN buffer : buffer[k] = k /\ k > nextID

\* The counter counts the ids answered, each of which was inserted or is at hand.
AcksCounted ==
    /\ ackCount = Cardinality(answered)
    /\ ~benchMode => answered \subseteq 1..nextID-1 \cup DOMAIN buffer \cup {ackID}
    /\ runPC = "complete" => ackCount >= TotalPackets

\* The inductive invariant.
ClientInv == TypeOK /\ LinesApart /\ AckStands /\ BufferExact /\ AcksCounted

-----------------------------------------------------------------------------
(* Rising sequences.                                                       *)

LEMMA SetAppend ==
  ASSUME NEW s \in Seq(Int), NEW e \in Int
  PROVE  ToSet(Append(s, e)) = ToSet(s) \cup {e}
<1>1. /\ Len(s) \in Nat /\ Len(Append(s, e)) = Len(s) + 1 /\ Append(s, e)[Len(s) + 1] = e
      /\ \A i \in 1..Len(s) : Append(s, e)[i] = s[i]
      /\ DOMAIN s = 1..Len(s) /\ DOMAIN Append(s, e) = 1..Len(s)+1
  BY AppendProperties, LenProperties
<1>2. 1..Len(s)+1 = 1..Len(s) \cup {Len(s) + 1}
  BY <1>1
<1> DEFINE t == Append(s, e)
<1> HIDE DEF t
<1>3. \A i \in 1..Len(s) : t[i] = s[i]
  BY <1>1 DEF t
<1>4. t[Len(s) + 1] = e /\ DOMAIN t = 1..Len(s) \cup {Len(s) + 1}
  BY <1>1, <1>2 DEF t
<1>5. ToSet(t) = ToSet(s) \cup {e}
  BY <1>1, <1>3, <1>4 DEF ToSet
<1>6. QED
  BY <1>5 DEF t

LEMMA RisesAppend ==
  ASSUME NEW s \in Seq(Int), NEW e \in Int, Rises(s), \A x \in ToSet(s) : x < e
  PROVE  Rises(Append(s, e))
<1>1. /\ Len(s) \in Nat /\ Len(Append(s, e)) = Len(s) + 1 /\ Append(s, e)[Len(s) + 1] = e
      /\ \A i \in 1..Len(s) : Append(s, e)[i] = s[i]
      /\ DOMAIN s = 1..Len(s)
  BY AppendProperties, LenProperties
<1>2. \A i \in 1..Len(s) : s[i] < e
  BY <1>1 DEF ToSet
<1>3. \A m, n \in 1..Len(s)+1 : m < n => m \in 1..Len(s) /\ (n \in 1..Len(s) \/ n = Len(s) + 1)
  BY <1>1
<1> DEFINE t == Append(s, e)
<1> HIDE DEF t
<1>4. /\ Len(t) = Len(s) + 1 /\ t[Len(s) + 1] = e /\ \A i \in 1..Len(s) : t[i] = s[i]
  BY <1>1 DEF t
<1>5. Rises(t)
  BY <1>2, <1>3, <1>4 DEF Rises
<1>6. QED
  BY <1>5 DEF t

LEMMA RisesTail ==
  ASSUME NEW s \in Seq(Int), s # <<>>, Rises(s)
  PROVE  /\ Head(s) \in Int /\ Tail(s) \in Seq(Int)
         /\ Rises(Tail(s)) /\ ToSet(s) = ToSet(Tail(s)) \cup {Head(s)}
         /\ \A x \in ToSet(Tail(s)) : Head(s) < x
<1> DEFINE t == Tail(s)
           h == Head(s)
<1>1. /\ h \in Int /\ t \in Seq(Int) /\ h = s[1] /\ Len(t) = Len(s) - 1 /\ Len(s) \in Nat
      /\ \A i \in 1..Len(s)-1 : t[i] = s[i+1]
      /\ DOMAIN s = 1..Len(s)
  BY HeadTailProperties, LenProperties
<1>2. Len(s) > 0
  BY <1>1, EmptySeq
<1> HIDE DEF t, h
<1>3. DOMAIN t = 1..Len(s)-1 /\ Len(t) = Len(s) - 1
  BY <1>1, LenProperties
<1>4. \A i \in 1..Len(s) : i = 1 \/ (i - 1 \in 1..Len(s)-1 /\ (i - 1) + 1 = i)
  BY <1>1
<1>5. 1 \in 1..Len(s) /\ \A i \in 1..Len(s)-1 : i + 1 \in 1..Len(s) /\ 1 < i + 1
  BY <1>1, <1>2
<1>6. ToSet(s) = ToSet(t) \cup {h}
  <2>1. \A i \in 1..Len(s) : s[i] = h \/ \E j \in 1..Len(s)-1 : s[i] = t[j]
    BY <1>1, <1>4
  <2>2. ASSUME NEW x \in ToSet(s) PROVE x \in ToSet(t) \cup {h}
    <3>1. PICK i \in 1..Len(s) : s[i] = x
      BY <1>1 DEF ToSet
    <3>2. CASE x # h
      <4>1. PICK j \in 1..Len(s)-1 : x = t[j]
        BY <2>1, <3>1, <3>2
      <4>2. QED
        BY <1>3, <4>1 DEF ToSet
    <3>3. QED
      BY <3>2
  <2>3. h \in ToSet(s)
    BY <1>1, <1>5 DEF ToSet
  <2>4. \A x \in ToSet(t) : x \in ToSet(s)
    BY <1>1, <1>3, <1>5 DEF ToSet
  <2>5. QED
    BY <2>2, <2>3, <2>4
<1>7. \A x \in ToSet(t) : h < x
  BY <1>1, <1>3, <1>5 DEF ToSet, Rises
<1>8. Rises(t)
  <2>1. \A m, n \in 1..Len(s)-1 : m < n => m + 1 < n + 1
    BY <1>1
  <2>2. QED
    BY <1>1, <1>3, <1>5, <2>1 DEF Rises
<1>9. QED
  BY <1>1, <1>6, <1>7, <1>8 DEF t, h

LEMMA RunRises ==
  ASSUME NEW a \in Int, NEW b \in Int, NEW s \in Seq(Int), Len(s) = b - a,
         \A i \in 1..Len(s) : s[i] = a + i - 1
  PROVE  Rises(s) /\ ToSet(s) = a..b-1
<1>1. Len(s) \in Nat /\ DOMAIN s = 1..Len(s)
  BY LenProperties
<1>2. Rises(s)
  BY <1>1 DEF Rises
<1>3. \A x \in a..b-1 : x - a + 1 \in 1..Len(s) /\ a + (x - a + 1) - 1 = x
  BY <1>1
<1>4. \A i \in 1..Len(s) : a + i - 1 \in a..b-1
  BY <1>1
<1>5. \A x \in a..b-1 : x \in ToSet(s)
  <2>1. TAKE x \in a..b-1
  <2>2. PICK i \in 1..Len(s) : a + i - 1 = x
    BY <1>3
  <2>3. s[i] = x
    BY <2>2
  <2>4. QED
    BY <1>1, <2>3 DEF ToSet
<1>6. \A x \in ToSet(s) : x \in a..b-1
  BY <1>1, <1>4 DEF ToSet
<1>7. QED
  BY <1>2, <1>5, <1>6

\* Two rising sequences, the one below the other, rise when they are joined.
LEMMA RisesJoin ==
  ASSUME NEW s \in Seq(Int), NEW t \in Seq(Int), Rises(s), Rises(t), Below(s, t)
  PROVE  Rises(s \o t) /\ ToSet(s \o t) = ToSet(s) \cup ToSet(t) /\ s \o t \in Seq(Int)
<1> DEFINE u == s \o t
<1>1. /\ u \in Seq(Int) /\ Len(u) = Len(s) + Len(t) /\ Len(s) \in Nat /\ Len(t) \in Nat
      /\ DOMAIN s = 1..Len(s) /\ DOMAIN t = 1..Len(t)
      /\ \A i \in 1..Len(s)+Len(t) : u[i] = IF i <= Len(s) THEN s[i] ELSE t[i - Len(s)]
  BY ConcatProperties, LenProperties
<1> HIDE DEF u
<1>2. DOMAIN u = 1..Len(s)+Len(t)
  BY <1>1, LenProperties
<1>3. \A i \in 1..Len(s)+Len(t) : \/ i \in 1..Len(s) /\ u[i] = s[i]
                                  \/ i - Len(s) \in 1..Len(t) /\ u[i] = t[i - Len(s)] /\ i > Len(s)
  BY <1>1
<1>4. \A i \in 1..Len(s) : i \in 1..Len(s)+Len(t) /\ u[i] = s[i]
  BY <1>1
<1>5. \A j \in 1..Len(t) : j + Len(s) \in 1..Len(s)+Len(t) /\ u[j + Len(s)] = t[j]
  <2>1. TAKE j \in 1..Len(t)
  <2>2. j + Len(s) \in 1..Len(s)+Len(t) /\ j + Len(s) > Len(s) /\ (j + Len(s)) - Len(s) = j
           /\ j + Len(s) \in Int
    BY <1>1
  <2>3. ~(j + Len(s) <= Len(s))
    BY <1>1, <2>2
  <2>4. QED
    BY <1>1, <2>2, <2>3
<1>6. ToSet(u) = ToSet(s) \cup ToSet(t)
  <2>1. \A x \in ToSet(u) : x \in ToSet(s) \cup ToSet(t)
    BY <1>1, <1>2, <1>3 DEF ToSet
  <2>2. \A x \in ToSet(s) : x \in ToSet(u)
    BY <1>1, <1>2, <1>4 DEF ToSet
  <2>3. \A x \in ToSet(t) : x \in ToSet(u)
    <3>1. \A j \in 1..Len(t) : t[j] \in ToSet(u)
      BY <1>2, <1>5 DEF ToSet
    <3>2. QED
      BY <1>1, <3>1 DEF ToSet
  <2>4. QED
    BY <2>1, <2>2, <2>3
<1>7. ASSUME NEW m \in 1..Len(u), NEW n \in 1..Len(u), m < n PROVE u[m] < u[n]
  <2>1. CASE n \in 1..Len(s)
    BY <1>1, <1>3, <1>7, <2>1 DEF Rises
  <2>2. CASE m \in 1..Len(s) /\ n > Len(s)
    <3>1. u[m] = s[m] /\ n - Len(s) \in 1..Len(t) /\ u[n] = t[n - Len(s)]
      BY <1>1, <1>3, <1>4, <1>7, <2>2
    <3>2. QED
      BY <1>1, <2>2, <3>1 DEF Below, ToSet
  <2>3. CASE m > Len(s)
    <3>1. /\ m - Len(s) \in 1..Len(t) /\ u[m] = t[m - Len(s)]
          /\ n - Len(s) \in 1..Len(t) /\ u[n] = t[n - Len(s)]
          /\ m - Len(s) < n - Len(s)
      BY <1>1, <1>3, <1>7, <2>3, SMTT(30)
    <3>2. QED
      BY <3>1 DEF Rises
  <2>4. QED
    BY <1>1, <1>7, <2>1, <2>2, <2>3
<1>8. QED
  BY <1>1, <1>6, <1>7 DEF Rises, u

\* The invariant's form of the order is the property's.
LEMMA ApartIsInOrder ==
  ASSUME TypeOK, LinesApart
  PROVE  LinesInOrder
<1>1. IDs \subseteq Int
  BY ClientAssumption DEF IDs
<1>2. printed \in Seq(Int) /\ outputCh \in Seq(Int) /\ ackOut \in Seq(Int)
  <2>1. printed \in Seq(IDs) /\ outputCh \in Seq(IDs) /\ ackOut \in Seq(IDs)
    BY DEF TypeOK
  <2>2. QED
    BY <1>1, <2>1, SeqMonotonic
<1> DEFINE two == printed \o outputCh
           three == two \o ackOut
<1>3. Rises(two) /\ ToSet(two) = ToSet(printed) \cup ToSet(outputCh) /\ two \in Seq(Int)
  BY <1>2, RisesJoin DEF LinesApart
<1> HIDE DEF two
<1>4. Below(two, ackOut)
  BY <1>3 DEF LinesApart, Below
<1>5. Rises(three) /\ ToSet(three) = ToSet(two) \cup ToSet(ackOut)
  BY <1>2, <1>3, <1>4, RisesJoin DEF LinesApart
<1> HIDE DEF three
<1>6. /\ ToSet(three) \cup dropped = 1..nextID-1 /\ ToSet(three) \cap dropped = {}
  BY <1>3, <1>5 DEF LinesApart
<1>7. QED
  BY <1>5, <1>6 DEF LinesInOrder, Rises, three, two

-----------------------------------------------------------------------------
LEMMA ClientParams ==
  /\ TotalPackets \in Nat /\ Workers \in Nat \ {0} /\ OutputCaps \subseteq Nat
  /\ IDs \subseteq Int /\ None \notin IDs /\ IsFiniteSet(IDs) /\ Cardinality(IDs) = TotalPackets
<1>1. TotalPackets \in Nat /\ Workers \in Nat \ {0} /\ OutputCaps \subseteq Nat
  BY ClientAssumption
<1>2. IDs \subseteq Int /\ None \notin IDs
  BY <1>1 DEF IDs, None
<1>3. IsFiniteSet(IDs) /\ Cardinality(IDs) = TotalPackets
  BY <1>1, FS_Interval DEF IDs
<1>4. QED
  BY <1>1, <1>2, <1>3

\* A new client satisfies the invariant.
LEMMA InitClient == Init => ClientInv
<1> SUFFICES ASSUME Init PROVE ClientInv
  OBVIOUS
<1>1. TypeOK
  <2>1. /\ {benchMode, piped, connUp, outClosed, crashed} \subseteq BOOLEAN
        /\ outputCap \in OutputCaps /\ outputCap \in Nat
        /\ genDone \in [Generators -> BOOLEAN]
        /\ answered \subseteq sent /\ sent \subseteq IDs
        /\ ackPC \in {"receive", "insert", "output", "done"}
        /\ ackID \in {None} \cup IDs
        /\ DOMAIN buffer \subseteq IDs /\ \A k \in DOMAIN buffer : buffer[k] \in IDs
        /\ dropped \subseteq IDs
        /\ runPC \in {"generate", "poll", "complete", "timedOut", "closing", "closed", "exited"}
    BY ClientParams DEF Init
  <2>2. genID \in [Generators -> 1..TotalPackets+Workers]
    BY ClientParams DEF Init, Generators
  <2>3. ackCount \in 0..TotalPackets /\ nextID \in 1..TotalPackets+1
    BY ClientParams DEF Init
  <2>4. ackOut \in Seq(IDs) /\ outputCh \in Seq(IDs) /\ printed \in Seq(IDs)
    BY DEF Init
  <2>5. Len(outputCh) <= outputCap
    BY <2>1, EmptySeq DEF Init
  <2>6. QED
    BY <2>1, <2>2, <2>3, <2>4, <2>5 DEF TypeOK
<1>2. LinesApart
  <2>1. ToSet(printed) = {} /\ ToSet(outputCh) = {} /\ ToSet(ackOut) = {}
    BY DEF Init, ToSet
  <2>2. Rises(printed) /\ Rises(outputCh) /\ Rises(ackOut)
    BY DEF Init, Rises
  <2>3. 1..nextID-1 = {} /\ dropped = {}
    BY DEF Init
  <2>4. QED
    BY <2>1, <2>2, <2>3 DEF LinesApart, Below
<1>3. AckStands /\ BufferExact
  BY DEF Init, AckStands, BufferExact
<1>4. AcksCounted
  BY FS_EmptySet DEF Init, AcksCounted
<1>5. QED
  BY <1>1, <1>2, <1>3, <1>4 DEF ClientInv

-----------------------------------------------------------------------------
(* The steps that no line and no ACK sees.                                 *)

LEMMA QuietStep ==
  ASSUME ClientInv, TypeOK', UNCHANGED <<configVars, answered, ackID, ackOut, ackCount, orderVars,
                                         outVars>>,
         ackPC' = ackPC \/ (ackPC = "receive" /\ ackPC' = "done"),
         runPC' = "complete" => ackCount >= TotalPackets
  PROVE  ClientInv'
<1>1. LinesApart'
  BY DEF ClientInv, LinesApart, orderVars, outVars
<1>2. AckStands'
  BY DEF ClientInv, AckStands, configVars, outVars
<1>3. BufferExact' /\ AcksCounted'
  BY DEF ClientInv, BufferExact, AcksCounted, configVars, orderVars
<1>4. QED
  BY <1>1, <1>2, <1>3 DEF ClientInv

LEMMA GenInv ==
  ASSUME ClientInv, NEW g \in Generators, Generator(g)
  PROVE  ClientInv'
<1>1. TypeOK
  BY DEF ClientInv
<1>2. UNCHANGED <<configVars, connUp, ackVars, orderVars, outVars, mainVars, crashed>>
  BY DEF Generator, GenSend, GenReturn
<1>3. /\ sent' \subseteq IDs /\ sent \subseteq sent'
      /\ genID' \in [Generators -> 1..TotalPackets+Workers]
      /\ genDone' \in [Generators -> BOOLEAN]
  <2>1. CASE GenReturn(g)
    BY <1>1, <2>1 DEF GenReturn, TypeOK
  <2>2. CASE GenSend(g)
    <3>1. genID[g] \in 1..TotalPackets /\ genDone' = genDone /\ sent' = sent \cup {genID[g]}
             /\ genID' = [genID EXCEPT ![g] = genID[g] + Workers]
      BY <1>1, <2>2, ClientParams DEF GenSend, TypeOK
    <3>2. genID[g] + Workers \in 1..TotalPackets+Workers
      BY <3>1, ClientParams
    <3>3. QED
      BY <1>1, <3>1, <3>2 DEF TypeOK, IDs
  <2>3. QED
    BY <2>1, <2>2 DEF Generator
<1>4. TypeOK'
  BY <1>1, <1>2, <1>3 DEF TypeOK, configVars, ackVars, orderVars, outVars, mainVars
<1>5. QED
  BY <1>2, <1>4, QuietStep DEF ackVars, mainVars, ClientInv, AcksCounted

LEMMA MainInv ==
  ASSUME ClientInv, Main \/ RunTimeout
  PROVE  ClientInv'
<1>1. TypeOK
  BY DEF ClientInv
<1>2. /\ UNCHANGED <<configVars, genVars, ackVars, orderVars, outVars, crashed>>
      /\ runPC' \in {"poll", "complete", "timedOut", "closing", "closed", "exited"}
      /\ runPC' = "complete" => ackCount >= TotalPackets
      /\ connUp' \in BOOLEAN /\ outClosed' \in BOOLEAN
  BY <1>1 DEF TypeOK, Main, RunTimeout, RunWaitGenerators, RunComplete, ShutdownOutput, ShutdownConn,
     MainReturns, RunStep
<1>3. TypeOK'
  BY <1>1, <1>2 DEF TypeOK, configVars, genVars, ackVars, orderVars, outVars
<1>4. QED
  BY <1>2, <1>3, QuietStep DEF ackVars

LEMMA OtherInv ==
  ASSUME ClientInv, ConnBreak \/ AckOfferPanics \/ AckStop \/ UNCHANGED vars
  PROVE  ClientInv'
<1>1. TypeOK
  BY DEF ClientInv
<1>2. /\ UNCHANGED <<configVars, genVars, answered, ackID, ackOut, ackCount, orderVars, outVars,
                     mainVars>>
      /\ ackPC' = ackPC \/ (ackPC = "receive" /\ ackPC' = "done")
      /\ connUp' \in BOOLEAN /\ crashed' \in BOOLEAN
  BY <1>1 DEF TypeOK, ConnBreak, AckOfferPanics, AckStop, vars, ackVars
<1>3. TypeOK'
  BY <1>1, <1>2 DEF TypeOK, configVars, genVars, orderVars, outVars, mainVars
<1>4. QED
  BY <1>2, <1>3, QuietStep DEF mainVars, ClientInv, AcksCounted

-----------------------------------------------------------------------------
(* ACKs.                                                                   *)

LEMMA AckReceiveInv ==
  ASSUME ClientInv, NEW id \in IDs, AckReceive(id)
  PROVE  ClientInv'
<1>1. TypeOK /\ LinesApart /\ AckStands /\ BufferExact /\ AcksCounted
  BY DEF ClientInv
<1>2. /\ ackPC = "receive" /\ id \in sent \ answered /\ answered' = answered \cup {id}
      /\ ackCount' = ackCount + 1
      /\ UNCHANGED <<configVars, connUp, genVars, ackOut, orderVars, outVars, mainVars, crashed>>
      /\ \/ benchMode /\ ackPC' = ackPC /\ ackID' = ackID
         \/ ~benchMode /\ ackPC' = "insert" /\ ackID' = id
  BY DEF AckReceive
<1>3. /\ IsFiniteSet(answered) /\ answered' \subseteq IDs /\ ackCount \in Nat
  <2>1. answered \subseteq IDs /\ answered' \subseteq IDs
    BY <1>1, <1>2 DEF TypeOK
  <2>2. IsFiniteSet(answered)
    BY <2>1, ClientParams, FS_Subset
  <2>3. ackCount \in 0..TotalPackets
    BY <1>1 DEF TypeOK
  <2>4. ackCount \in Nat
    BY <2>3, ClientParams
  <2>5. QED
    BY <2>1, <2>2, <2>4
<1>4. ackCount' = Cardinality(answered')
  BY <1>1, <1>2, <1>3, FS_AddElement DEF AcksCounted
<1>5. ackCount' \in 0..TotalPackets
  <2>1. Cardinality(answered') <= Cardinality(IDs) /\ IsFiniteSet(answered')
    BY <1>3, ClientParams, FS_Subset
  <2>2. Cardinality(answered') \in Nat
    BY <2>1, FS_CardinalityType
  <2>3. QED
    BY <1>4, <2>1, <2>2, ClientParams
<1>6. TypeOK'
  BY <1>1, <1>2, <1>5 DEF TypeOK, configVars, genVars, orderVars, outVars, mainVars
<1>7. LinesApart' /\ BufferExact'
  BY <1>1, <1>2 DEF LinesApart, BufferExact, orderVars, outVars
<1>8. AckStands'
  BY <1>1, <1>2 DEF AckStands, configVars, outVars
<1>9. AcksCounted'
  <2>1. ~benchMode => answered' \subseteq 1..nextID-1 \cup DOMAIN buffer \cup {ackID'}
    BY <1>1, <1>2, ClientParams DEF AcksCounted, AckStands, TypeOK
  <2>2. runPC = "complete" => ackCount' >= TotalPackets
    BY <1>1, <1>2, <1>3, ClientParams DEF AcksCounted
  <2>3. QED
    BY <1>2, <1>4, <2>1, <2>2 DEF AcksCounted, configVars, orderVars, mainVars
<1>10. QED
  BY <1>6, <1>7, <1>8, <1>9 DEF ClientInv

\* What Insert does with the line of an id, as the ordered buffer's proofs give it.
LEMMA InsertHere ==
  ASSUME NEW id \in IDs, id \in OBP!Ids, OBP!Waiting, OBP!InsertBody(id, id)
  PROVE  /\ OBP!Waiting'
         /\ nextID' \in nextID..TotalPackets+1
         /\ \A k \in Int : (k < nextID' \/ k \in DOMAIN buffer')
                            <=> (k < nextID \/ k \in DOMAIN buffer \/ k = id)
         /\ \A k \in DOMAIN buffer' : \/ k \in DOMAIN buffer /\ buffer'[k] = buffer[k]
                                      \/ k = id /\ buffer'[k] = id
         /\ OBP!Batch(id, id) \in Seq(IDs)
         /\ Len(OBP!Batch(id, id)) = nextID' - nextID
         /\ \A i \in 1..Len(OBP!Batch(id, id)) :
               \/ nextID + i - 1 = id /\ OBP!Batch(id, id)[i] = id
               \/ /\ nextID + i - 1 \in DOMAIN buffer
                  /\ OBP!Batch(id, id)[i] = buffer[nextID + i - 1]
<1>0. 1 \in Nat /\ 1 \in Nat \ {0} /\ TotalPackets \in Nat /\ 1 <= TotalPackets
  BY ClientParams DEF IDs
<1>1. OBP!Waiting'
  BY <1>0, OBP!InsertBodyFacts
<1>2. nextID' \in nextID..TotalPackets+1
  BY <1>0, OBP!InsertBodyFacts
<1>3. \A k \in Int : (k < nextID' \/ k \in DOMAIN buffer')
                      <=> (k < nextID \/ k \in DOMAIN buffer \/ k = id)
  BY <1>0, OBP!InsertBodyFacts
<1>4. \A k \in DOMAIN buffer' : \/ k \in DOMAIN buffer /\ buffer'[k] = buffer[k]
                                \/ k = id /\ buffer'[k] = id
  BY <1>0, OBP!InsertBodyFacts
<1>5. OBP!Batch(id, id) \in Seq(IDs) /\ Len(OBP!Batch(id, id)) = nextID' - nextID
  BY <1>0, OBP!InsertBodyFacts
<1>6. \A i \in 1..Len(OBP!Batch(id, id)) :
         \/ nextID + i - 1 = id /\ OBP!Batch(id, id)[i] = id
         \/ /\ nextID + i - 1 \in DOMAIN buffer
            /\ OBP!Batch(id, id)[i] = buffer[nextID + i - 1]
  BY <1>0, OBP!BatchValues
<1>7. QED
  BY <1>1, <1>2, <1>3, <1>4, <1>5, <1>6

LEMMA AckInsertInv ==
  ASSUME ClientInv, AckInsert
  PROVE  ClientInv'
<1> DEFINE id == ackID
           batch == OB!Batch(id, id)
<1>1. TypeOK /\ LinesApart /\ AckStands /\ BufferExact /\ AcksCounted
  BY DEF ClientInv
<1>2. /\ ackPC = "insert" /\ OB!InsertBody(id, id) /\ ackOut' = batch /\ ackID' = None
      /\ ackPC' = IF ackOut' = <<>> THEN "receive" ELSE "output"
      /\ UNCHANGED <<configVars, connUp, genVars, answered, ackCount, outVars, mainVars, crashed>>
  BY DEF AckInsert
<1>3. id \in IDs /\ ackOut = <<>> /\ nextID \in Int
  BY <1>1, <1>2, ClientParams DEF AckStands, TypeOK
<1>4. /\ nextID' \in nextID..TotalPackets+1
      /\ \A k \in Int : (k < nextID' \/ k \in DOMAIN buffer')
                         <=> (k < nextID \/ k \in DOMAIN buffer \/ k = id)
      /\ DOMAIN buffer' \subseteq IDs
      /\ \A k \in DOMAIN buffer' : buffer'[k] = k /\ k > nextID'
      /\ batch \in Seq(IDs) /\ Len(batch) = nextID' - nextID
      /\ \A i \in 1..Len(batch) : batch[i] = nextID + i - 1
  <2>1. TotalPackets \in Nat /\ 1 <= TotalPackets /\ id \in OBP!Ids
    BY <1>3, ClientParams DEF IDs, OBP!Ids
  <2>2. OBP!Waiting
    BY <1>1, <2>1 DEF OBP!Waiting, OBP!Ids, TypeOK, BufferExact, IDs
  <2>3. OBP!InsertBody(id, id)
    BY <1>2 DEF OB!InsertBody, OBP!InsertBody, OB!Filled, OBP!Filled, OB!RunEnd, OBP!RunEnd
  <2>4. batch = OBP!Batch(id, id)
    BY DEF OB!Batch, OBP!Batch, OB!Filled, OBP!Filled, OB!RunEnd, OBP!RunEnd
  <2> HIDE DEF batch, id
  <2>5. /\ OBP!Waiting'
        /\ nextID' \in nextID..TotalPackets+1
        /\ \A k \in Int : (k < nextID' \/ k \in DOMAIN buffer')
                            <=> (k < nextID \/ k \in DOMAIN buffer \/ k = id)
        /\ \A k \in DOMAIN buffer' : \/ k \in DOMAIN buffer /\ buffer'[k] = buffer[k]
                                     \/ k = id /\ buffer'[k] = id
        /\ batch \in Seq(IDs) /\ Len(batch) = nextID' - nextID
        /\ \A i \in 1..Len(batch) : \/ nextID + i - 1 = id /\ batch[i] = id
                                    \/ /\ nextID + i - 1 \in DOMAIN buffer
                                       /\ batch[i] = buffer[nextID + i - 1]
    BY <1>3, <2>1, <2>2, <2>3, <2>4, InsertHere
  <2>6. DOMAIN buffer' \subseteq IDs /\ \A k \in DOMAIN buffer' : buffer'[k] = k
    BY <1>1, <1>3, <2>5 DEF TypeOK, BufferExact
  <2>7. \A k \in DOMAIN buffer' : k > nextID'
    BY <2>5 DEF OBP!Waiting
  <2>8. \A i \in 1..Len(batch) : batch[i] = nextID + i - 1
    BY <1>1, <2>5 DEF BufferExact
  <2>9. QED
    BY <2>5, <2>6, <2>7, <2>8
<1> HIDE DEF batch, id
<1>5. nextID' \in Int /\ nextID <= nextID' /\ nextID' \in 1..TotalPackets+1
  BY <1>1, <1>3, <1>4, ClientParams DEF TypeOK
<1>6. TypeOK'
  BY <1>1, <1>2, <1>4, <1>5 DEF TypeOK, configVars, genVars, outVars, mainVars
<1>7. LinesApart'
  <2>1. batch \in Seq(Int)
    BY <1>4, ClientParams, SeqMonotonic
  <2>2. Rises(batch) /\ ToSet(batch) = nextID..nextID'-1
    BY <1>3, <1>4, <1>5, <2>1, RunRises
  <2>3. ToSet(ackOut) = {}
    BY <1>3 DEF ToSet
  <2>4. /\ \A x \in ToSet(printed) \cup ToSet(outputCh) : x \in 1..nextID-1
        /\ ToSet(printed) \cup ToSet(outputCh) \cup dropped = 1..nextID-1
        /\ dropped \cap (ToSet(printed) \cup ToSet(outputCh)) = {}
    BY <1>1, <2>3 DEF LinesApart
  <2>5. (1..nextID-1) \cup (nextID..nextID'-1) = 1..nextID'-1
           /\ (1..nextID-1) \cap (nextID..nextID'-1) = {}
    <3>1. nextID >= 1
      BY <1>1 DEF TypeOK
    <3>2. ASSUME NEW a \in Int, NEW b \in Int, a >= 1, a <= b
          PROVE  (1..a-1) \cup (a..b-1) = 1..b-1 /\ (1..a-1) \cap (a..b-1) = {}
      BY <3>2
    <3>3. QED
      BY <1>3, <1>5, <3>1, <3>2
  <2>6. \A x \in 1..nextID-1, y \in nextID..nextID'-1 : x < y
    BY <1>3, <1>5
  <2>7. /\ Rises(printed) /\ Rises(outputCh) /\ Rises(batch) /\ Below(printed, outputCh)
        /\ Below(printed, batch) /\ Below(outputCh, batch)
    BY <1>1, <2>2, <2>4, <2>6 DEF LinesApart, Below
  <2>8. /\ ToSet(printed) \cup ToSet(outputCh) \cup ToSet(batch) \cup dropped = 1..nextID'-1
        /\ dropped \cap (ToSet(printed) \cup ToSet(outputCh) \cup ToSet(batch)) = {}
    BY <2>2, <2>4, <2>5
  <2>9. QED
    BY <1>2, <2>7, <2>8 DEF LinesApart, outVars
<1>8. AckStands' /\ BufferExact'
  BY <1>1, <1>2, <1>4 DEF AckStands, BufferExact, configVars, outVars
<1>9. AcksCounted'
  <2>1. ~benchMode => answered \subseteq 1..nextID'-1 \cup DOMAIN buffer'
    <3>1. SUFFICES ASSUME ~benchMode, NEW x \in answered
                   PROVE  x \in 1..nextID'-1 \cup DOMAIN buffer'
      OBVIOUS
    <3>2. x \in IDs /\ x \in Int /\ x >= 1
      BY <1>1, ClientParams DEF TypeOK, IDs
    <3>3. x < nextID \/ x \in DOMAIN buffer \/ x = id
      BY <1>1, <1>3, <3>1, <3>2 DEF AcksCounted, id
    <3>4. x < nextID' \/ x \in DOMAIN buffer'
      BY <1>4, <3>2, <3>3
    <3>5. CASE x < nextID'
      <4>1. \A m, n \in Int : m >= 1 /\ m < n => m \in 1..n-1
        OBVIOUS
      <4>2. QED
        BY <1>5, <3>2, <3>5, <4>1
    <3>6. QED
      BY <3>4, <3>5
  <2>2. QED
    BY <1>1, <1>2, <2>1 DEF AcksCounted, configVars, mainVars
<1>10. QED
  BY <1>6, <1>7, <1>8, <1>9 DEF ClientInv

-----------------------------------------------------------------------------
(* Lines.                                                                  *)

\* What a step that takes the first line of the batch at hand leaves.
LEMMA LineDoneFacts ==
  ASSUME ClientInv, ackPC = "output", LineDone
  PROVE  /\ ackOut \in Seq(Int) /\ ackOut # <<>>
         /\ Head(ackOut) \in IDs /\ ackOut' \in Seq(IDs) /\ Rises(ackOut')
         /\ ToSet(ackOut) = ToSet(ackOut') \cup {Head(ackOut)}
         /\ \A x \in ToSet(ackOut') : Head(ackOut) < x
         /\ ackPC' \in {"receive", "output"} /\ (ackOut' = <<>> <=> ackPC' # "output")
         /\ ackID = None
<1>1. ackOut \in Seq(IDs) /\ ackOut # <<>> /\ Rises(ackOut) /\ ackID = None
  BY DEF ClientInv, TypeOK, LinesApart, AckStands
<1>2. ackOut \in Seq(Int)
  BY <1>1, ClientParams, SeqMonotonic
<1>3. Head(ackOut) \in IDs /\ Tail(ackOut) \in Seq(IDs)
  BY <1>1, HeadTailProperties
<1>4. /\ Rises(Tail(ackOut)) /\ ToSet(ackOut) = ToSet(Tail(ackOut)) \cup {Head(ackOut)}
      /\ \A x \in ToSet(Tail(ackOut)) : Head(ackOut) < x
  BY <1>1, <1>2, RisesTail
<1>5. /\ ackOut' = Tail(ackOut)
      /\ ackPC' \in {"receive", "output"} /\ (Tail(ackOut) = <<>> <=> ackPC' # "output")
  BY DEF LineDone
<1>6. QED
  BY <1>1, <1>2, <1>3, <1>4, <1>5

\* The counters and the ordered buffer see nothing of a line.
LEMMA LineStep ==
  ASSUME ClientInv, TypeOK', LinesApart', AckStands',
         UNCHANGED <<configVars, answered, ackID, ackCount, orderVars, runPC>>
  PROVE  ClientInv'
<1>1. BufferExact' /\ AcksCounted'
  BY DEF ClientInv, BufferExact, AcksCounted, configVars, orderVars
<1>2. QED
  BY <1>1 DEF ClientInv

LEMMA AckPrintInv ==
  ASSUME ClientInv, AckPrint
  PROVE  ClientInv'
<1> DEFINE line == Head(ackOut)
<1>1. TypeOK /\ LinesApart /\ AckStands
  BY DEF ClientInv
<1>2. /\ ackPC = "output" /\ ~piped /\ printed' = Append(printed, line) /\ LineDone
      /\ UNCHANGED <<outputCh, dropped>>
  BY DEF AckPrint
<1>3. /\ UNCHANGED <<configVars, connUp, genVars, answered, ackID, ackCount, orderVars, mainVars,
                     crashed>>
  BY <1>2 DEF LineDone
<1>4. outputCh = <<>>
  BY <1>1, <1>2 DEF AckStands
<1>5. /\ ackOut \in Seq(Int) /\ line \in IDs /\ ackOut' \in Seq(IDs) /\ Rises(ackOut')
      /\ ToSet(ackOut) = ToSet(ackOut') \cup {line} /\ \A x \in ToSet(ackOut') : line < x
      /\ ackPC' \in {"receive", "output"} /\ (ackOut' = <<>> <=> ackPC' # "output")
      /\ ackID = None
  BY <1>2, LineDoneFacts
<1> HIDE DEF line
<1>6. printed \in Seq(Int) /\ printed' \in Seq(IDs) /\ line \in Int
  <2>1. printed \in Seq(IDs) /\ line \in Int
    BY <1>1, <1>5, ClientParams DEF TypeOK
  <2>2. printed \in Seq(Int)
    BY <2>1, ClientParams, SeqMonotonic
  <2>3. printed' \in Seq(IDs)
    BY <1>2, <1>5, <2>1, AppendProperties
  <2>4. QED
    BY <2>1, <2>2, <2>3
<1>7. TypeOK'
  BY <1>1, <1>2, <1>3, <1>5, <1>6 DEF TypeOK, configVars, genVars, orderVars, mainVars
<1>8. LinesApart'
  <2>1. \A x \in ToSet(printed) : x < line
    BY <1>1, <1>5 DEF LinesApart, Below
  <2>2. Rises(printed') /\ ToSet(printed') = ToSet(printed) \cup {line}
    BY <1>1, <1>2, <1>6, <2>1, RisesAppend, SetAppend DEF LinesApart
  <2>3. Below(printed', outputCh') /\ Below(printed', ackOut') /\ Below(outputCh', ackOut')
    <3>1. ToSet(outputCh) = {}
      BY <1>4 DEF ToSet
    <3>2. QED
      BY <1>1, <1>2, <1>5, <2>2, <3>1 DEF LinesApart, Below
  <2>4. /\ ToSet(printed') \cup ToSet(outputCh') \cup ToSet(ackOut') \cup dropped' = 1..nextID'-1
        /\ dropped' \cap (ToSet(printed') \cup ToSet(outputCh') \cup ToSet(ackOut')) = {}
    BY <1>1, <1>2, <1>3, <1>5, <2>2 DEF LinesApart, orderVars
  <2>5. QED
    BY <1>1, <1>2, <1>5, <2>2, <2>3, <2>4 DEF LinesApart
<1>9. AckStands'
  BY <1>1, <1>2, <1>3, <1>5 DEF AckStands, configVars
<1>10. QED
  BY <1>3, <1>7, <1>8, <1>9, LineStep DEF mainVars

LEMMA AckOfferInv ==
  ASSUME ClientInv, AckOffer
  PROVE  ClientInv'
<1> DEFINE line == Head(ackOut)
<1>1. TypeOK /\ LinesApart /\ AckStands
  BY DEF ClientInv
<1>2. /\ ackPC = "output" /\ piped /\ LineDone /\ UNCHANGED printed
      /\ \/ /\ Len(outputCh) < outputCap
            /\ outputCh' = Append(outputCh, line) /\ UNCHANGED dropped
         \/ dropped' = dropped \cup {line} /\ UNCHANGED outputCh
  BY DEF AckOffer
<1>3. /\ UNCHANGED <<configVars, connUp, genVars, answered, ackID, ackCount, orderVars, mainVars,
                     crashed>>
  BY <1>2 DEF LineDone
<1>5. /\ ackOut \in Seq(Int) /\ line \in IDs /\ ackOut' \in Seq(IDs) /\ Rises(ackOut')
      /\ ToSet(ackOut) = ToSet(ackOut') \cup {line} /\ \A x \in ToSet(ackOut') : line < x
      /\ ackPC' \in {"receive", "output"} /\ (ackOut' = <<>> <=> ackPC' # "output")
      /\ ackID = None
  BY <1>2, LineDoneFacts
<1> HIDE DEF line
<1>6. outputCh \in Seq(IDs) /\ outputCh \in Seq(Int) /\ line \in Int
  <2>1. outputCh \in Seq(IDs) /\ line \in Int
    BY <1>1, <1>5, ClientParams DEF TypeOK
  <2>2. QED
    BY <2>1, ClientParams, SeqMonotonic
<1>7. AckStands'
  BY <1>1, <1>2, <1>3, <1>5 DEF AckStands, configVars
<1>8. CASE outputCh' = Append(outputCh, line) /\ Len(outputCh) < outputCap /\ dropped' = dropped
  <2>1. outputCh' \in Seq(IDs) /\ Len(outputCh') = Len(outputCh) + 1
    BY <1>5, <1>6, <1>8, AppendProperties
  <2>2. Len(outputCh') <= outputCap'
    <3>1. outputCap \in Nat /\ Len(outputCh) \in Nat /\ outputCap' = outputCap
      BY <1>1, <1>3, <1>6, ClientParams, LenProperties DEF TypeOK, configVars
    <3>2. QED
      BY <1>8, <2>1, <3>1
  <2>3. TypeOK'
    BY <1>1, <1>2, <1>3, <1>5, <1>8, <2>1, <2>2
       DEF TypeOK, configVars, genVars, orderVars, mainVars
  <2>4. \A x \in ToSet(outputCh) : x < line
    BY <1>1, <1>5 DEF LinesApart, Below
  <2>5. Rises(outputCh') /\ ToSet(outputCh') = ToSet(outputCh) \cup {line}
    BY <1>1, <1>6, <1>8, <2>4, RisesAppend, SetAppend DEF LinesApart
  <2>6. Below(printed', outputCh') /\ Below(printed', ackOut') /\ Below(outputCh', ackOut')
    BY <1>1, <1>2, <1>5, <2>5 DEF LinesApart, Below
  <2>7. /\ ToSet(printed') \cup ToSet(outputCh') \cup ToSet(ackOut') \cup dropped' = 1..nextID'-1
        /\ dropped' \cap (ToSet(printed') \cup ToSet(outputCh') \cup ToSet(ackOut')) = {}
    BY <1>1, <1>2, <1>3, <1>5, <1>8, <2>5 DEF LinesApart, orderVars
  <2>8. LinesApart'
    BY <1>1, <1>2, <1>5, <2>5, <2>6, <2>7 DEF LinesApart
  <2>9. QED
    BY <1>3, <1>7, <2>3, <2>8, LineStep DEF mainVars
<1>9. CASE dropped' = dropped \cup {line} /\ outputCh' = outputCh
  <2>1. TypeOK'
    BY <1>1, <1>2, <1>3, <1>5, <1>9 DEF TypeOK, configVars, genVars, orderVars, mainVars
  <2>2. Below(printed', outputCh') /\ Below(printed', ackOut') /\ Below(outputCh', ackOut')
    BY <1>1, <1>2, <1>5, <1>9 DEF LinesApart, Below
  <2>3. line \notin ToSet(printed) \cup ToSet(outputCh) \cup ToSet(ackOut')
    <3>1. \A x \in ToSet(printed) \cup ToSet(outputCh) : x < line
      BY <1>1, <1>5 DEF LinesApart, Below
    <3>2. ~(line < line)
      BY <1>6
    <3>3. QED
      BY <1>5, <3>1, <3>2
  <2>4. /\ ToSet(printed') \cup ToSet(outputCh') \cup ToSet(ackOut') \cup dropped' = 1..nextID'-1
        /\ dropped' \cap (ToSet(printed') \cup ToSet(outputCh') \cup ToSet(ackOut')) = {}
    BY <1>1, <1>2, <1>3, <1>5, <1>9, <2>3 DEF LinesApart, orderVars
  <2>5. LinesApart'
    BY <1>1, <1>2, <1>5, <1>9, <2>2, <2>4 DEF LinesApart
  <2>6. QED
    BY <1>3, <1>7, <2>1, <2>5, LineStep DEF mainVars
<1>10. QED
  BY <1>2, <1>8, <1>9

LEMMA OutputInv ==
  ASSUME ClientInv, OutputPipeline
  PROVE  ClientInv'
<1> DEFINE line == Head(outputCh)
<1>1. TypeOK /\ LinesApart /\ AckStands
  BY DEF ClientInv
<1>2. /\ outputCh # <<>> /\ printed' = Append(printed, line) /\ outputCh' = Tail(outputCh)
      /\ UNCHANGED <<configVars, connUp, genVars, ackVars, orderVars, dropped, mainVars, crashed>>
  BY DEF OutputPipeline
<1>3. /\ outputCh \in Seq(IDs) /\ outputCh \in Seq(Int)
      /\ printed \in Seq(IDs) /\ printed \in Seq(Int)
  <2>1. outputCh \in Seq(IDs) /\ printed \in Seq(IDs)
    BY <1>1 DEF TypeOK
  <2>2. QED
    BY <2>1, ClientParams, SeqMonotonic
<1>4. /\ Rises(outputCh') /\ ToSet(outputCh) = ToSet(outputCh') \cup {line}
      /\ \A x \in ToSet(outputCh') : line < x
  BY <1>1, <1>2, <1>3, RisesTail DEF LinesApart
<1>5. /\ line \in IDs /\ outputCh' \in Seq(IDs) /\ Len(outputCh') = Len(outputCh) - 1
  BY <1>2, <1>3, HeadTailProperties
<1> HIDE DEF line
<1>6. line \in Int /\ printed' \in Seq(IDs)
  BY <1>2, <1>3, <1>5, AppendProperties, ClientParams
<1>7. TypeOK'
  <2>1. Len(outputCh') <= outputCap'
    <3>1. outputCap \in Nat /\ Len(outputCh) \in Nat /\ outputCap' = outputCap
             /\ Len(outputCh) <= outputCap
      BY <1>1, <1>2, <1>3, ClientParams, LenProperties DEF TypeOK, configVars
    <3>2. QED
      BY <1>5, <3>1
  <2>2. QED
    BY <1>1, <1>2, <1>5, <1>6, <2>1 DEF TypeOK, configVars, genVars, ackVars, orderVars, mainVars
<1>8. LinesApart'
  <2>1. \A x \in ToSet(printed) : x < line
    BY <1>1, <1>4 DEF LinesApart, Below
  <2>2. Rises(printed') /\ ToSet(printed') = ToSet(printed) \cup {line}
    BY <1>1, <1>2, <1>3, <1>6, <2>1, RisesAppend, SetAppend DEF LinesApart
  <2>3. Below(printed', outputCh') /\ Below(printed', ackOut') /\ Below(outputCh', ackOut')
    <3>1. ackOut' = ackOut
      BY <1>2 DEF ackVars
    <3>2. Below(printed', outputCh')
      BY <1>1, <1>4, <2>2 DEF LinesApart, Below
    <3>3. Below(outputCh', ackOut')
      BY <1>1, <1>4, <3>1 DEF LinesApart, Below
    <3>4. line \in ToSet(outputCh)
      BY <1>4
    <3>5. Below(printed', ackOut')
      BY <1>1, <2>2, <3>1, <3>4 DEF LinesApart, Below
    <3>6. QED
      BY <3>2, <3>3, <3>5
  <2>4. /\ ToSet(printed') \cup ToSet(outputCh') \cup ToSet(ackOut') \cup dropped' = 1..nextID'-1
        /\ dropped' \cap (ToSet(printed') \cup ToSet(outputCh') \cup ToSet(ackOut')) = {}
    BY <1>1, <1>2, <1>4, <2>2 DEF LinesApart, orderVars, ackVars
  <2>5. QED
    BY <1>1, <1>2, <1>4, <2>2, <2>3, <2>4 DEF LinesApart, ackVars
<1>9. AckStands'
  <2>1. piped
    BY <1>1, <1>2 DEF AckStands
  <2>2. QED
    BY <1>1, <1>2, <2>1 DEF AckStands, configVars, ackVars
<1>10. QED
  BY <1>2, <1>7, <1>8, <1>9, LineStep DEF mainVars, ackVars

-----------------------------------------------------------------------------
(* The theorems.                                                           *)

LEMMA ClientStep == ClientInv /\ [Next]_vars => ClientInv'
<1> SUFFICES ASSUME ClientInv, [Next]_vars PROVE ClientInv'
  OBVIOUS
<1>1. CASE \E g \in Generators : Generator(g)
  BY <1>1, GenInv
<1>2. CASE ConnBreak \/ AckOfferPanics \/ AckStop \/ UNCHANGED vars
  BY <1>2, OtherInv
<1>3. CASE \E id \in IDs : AckReceive(id)
  BY <1>3, AckReceiveInv
<1>4. CASE AckInsert
  BY <1>4, AckInsertInv
<1>5. CASE AckPrint
  BY <1>5, AckPrintInv
<1>6. CASE AckOffer
  BY <1>6, AckOfferInv
<1>7. CASE OutputPipeline
  BY <1>7, OutputInv
<1>8. CASE Main \/ RunTimeout
  BY <1>8, MainInv
<1>9. QED
  BY <1>1, <1>2, <1>3, <1>4, <1>5, <1>6, <1>7, <1>8 DEF Next, AckReceiver

\* The clients stay within ClientInv, whatever the network and the scheduler do.
THEOREM ClientCorrect == Spec => []ClientInv
<1>1. Init => ClientInv
  BY InitClient
<1>2. ClientInv /\ [Next]_vars => ClientInv'
  BY ClientStep
<1>3. QED
  BY <1>1, <1>2, PTL DEF Spec

\* Types: the acknowledgements counted never exceed the packets, and the output
\* channel never holds more than its capacity (quic/client.go:85, 141-150).
THEOREM ClientTypes == Spec => []TypeOK
<1>1. ClientInv => TypeOK
  BY DEF ClientInv
<1>2. QED
  BY <1>1, ClientCorrect, PTL

\* The screen, the output channel and the batch at hand read as ascending ids,
\* and with the dropped lines they are the ids below nextID (README.md:6).
THEOREM ClientPrintsInOrder == Spec => []LinesInOrder
<1>1. ClientInv => LinesInOrder
  BY ApartIsInOrder DEF ClientInv
<1>2. QED
  BY <1>1, ClientCorrect, PTL

\* A Run that completes has had every ACK, and all but the one at hand have been
\* given to the ordered buffer (quic/client.go:85, 196-206).
THEOREM ClientRunWaits == Spec => []CompleteMeansInserted
<1>1. ClientInv => CompleteMeansInserted
  <2>1. SUFFICES ASSUME ClientInv, runPC = "complete", ~benchMode
                 PROVE  IDs \subseteq 1..nextID-1 \cup DOMAIN buffer \cup {ackID}
    BY DEF CompleteMeansInserted
  <2>2. answered \subseteq IDs /\ ackCount = Cardinality(answered) /\ ackCount >= TotalPackets
    BY <2>1 DEF ClientInv, TypeOK, AcksCounted
  <2>3. answered = IDs
    <3>1. Cardinality(answered) <= Cardinality(IDs) /\ IsFiniteSet(answered)
             /\ (Cardinality(answered) = Cardinality(IDs) => answered = IDs)
      BY <2>2, ClientParams, FS_Subset
    <3>2. Cardinality(answered) \in Nat
      BY <3>1, FS_CardinalityType
    <3>3. Cardinality(answered) = Cardinality(IDs)
      BY <2>2, <3>1, <3>2, ClientParams
    <3>4. QED
      BY <3>1, <3>3
  <2>4. QED
    BY <2>1, <2>3 DEF ClientInv, AcksCounted
<1>2. QED
  BY <1>1, ClientCorrect, PTL

-----------------------------------------------------------------------------
(* The promise of an ordered buffer, kept up to the screen.                *)

\* The log is every line on its way from Insert to the screen, or there already.
Lines == printed \o outputCh \o ackOut
Delivery == INSTANCE InOrderDelivery WITH Ids <- IDs, Values <- IDs, StartID <- 1,
                                          offered <- OwnPairs(nextID, DOMAIN buffer), log <- Lines

\* A rising sequence of all the numbers up to N counts up to N.
LEMMA RisesToRun ==
  ASSUME NEW u \in Seq(Int), NEW N \in Nat, Rises(u), ToSet(u) = 1..N
  PROVE  u = [i \in 1..N |-> i]
<1>1. Len(u) \in Nat /\ DOMAIN u = 1..Len(u) /\ \A i \in 1..Len(u) : u[i] \in Int
  BY LenProperties, ElementOfSeq
<1>2. /\ \A i \in 1..Len(u) : u[i] \in 1..N
      /\ \A x \in 1..N : \E i \in 1..Len(u) : u[i] = x
  BY <1>1 DEF ToSet
<1>3. \A i \in 1..Len(u) : u[i] = i
  <2> DEFINE Bad == {i \in 1..Len(u) : u[i] # i}
  <2>1. SUFFICES ASSUME Bad # {} PROVE FALSE
    OBVIOUS
  <2>2. Bad \subseteq Nat
    BY <1>1
  <2> HIDE DEF Bad
  <2>3. PICK i \in Bad : \A k \in Bad : i <= k
    BY <2>1, <2>2, LeastNatural
  <2>4. i \in 1..Len(u) /\ u[i] # i /\ \A k \in 1..Len(u) : k < i => u[k] = k
    BY <1>1, <2>3 DEF Bad
  <2>5. u[i] >= i
    <3>1. CASE i = 1
      BY <3>1, <1>2, <2>4
    <3>2. CASE i # 1
      <4>1. i - 1 \in 1..Len(u) /\ i - 1 < i
        BY <3>2, <1>1, <2>4
      <4>2. u[i - 1] = i - 1 /\ u[i - 1] < u[i]
        BY <4>1, <2>4 DEF Rises
      <4>3. QED
        BY <4>1, <4>2, <1>1, <2>4
    <3>3. QED
      BY <3>1, <3>2
  <2>6. u[i] > i /\ i \in 1..N
    BY <1>1, <1>2, <2>4, <2>5
  <2>7. PICK m \in 1..Len(u) : u[m] = i
    BY <1>2, <2>6
  <2>8. CASE m < i
    BY <2>4, <2>7, <2>8
  <2>9. CASE m = i
    BY <2>4, <2>7, <2>9
  <2>10. CASE i < m
    <3>1. u[i] < u[m]
      BY <2>4, <2>10 DEF Rises
    <3>2. u[i] > i /\ u[i] \in Int /\ i \in Int /\ u[m] = i
      <4>1. u[i] \in Int
        BY <2>4, <1>1
      <4>2. i \in Int
        BY <2>6
      <4>3. QED
        BY ONLY <4>1, <4>2, <2>6, <2>7
    <3>3. QED
      BY ONLY <3>1, <3>2
  <2>11. QED
    BY <1>1, <2>4, <2>8, <2>9, <2>10
<1>4. Len(u) = N
  <2>1. Len(u) <= N
    <3>1. CASE Len(u) = 0
      BY <3>1
    <3>2. CASE Len(u) # 0
      <4>1. Len(u) \in 1..Len(u)
        BY <3>2, <1>1
      <4>2. u[Len(u)] = Len(u) /\ u[Len(u)] \in 1..N
        BY <4>1, <1>2, <1>3
      <4>3. QED
        BY <4>2
    <3>3. QED
      BY <3>1, <3>2
  <2>2. N <= Len(u)
    <3>1. CASE N = 0
      BY <3>1, <1>1
    <3>2. CASE N # 0
      <4>1. PICK m \in 1..Len(u) : u[m] = N
        BY <3>2, <1>2
      <4>2. m = N
        BY <4>1, <1>3
      <4>3. QED
        BY <4>1, <4>2, <1>1
    <3>3. QED
      BY <3>1, <3>2
  <2>3. QED
    <3>1. \A p, q \in Int : p <= q /\ q <= p => p = q
      OBVIOUS
    <3>2. Len(u) \in Int /\ N \in Int
      BY <1>1
    <3>3. QED
      BY ONLY <3>1, <3>2, <2>1, <2>2
<1>5. DOMAIN u = 1..N /\ \A i \in 1..N : u[i] = i
  BY <1>1, <1>3, <1>4
<1>6. u = [i \in DOMAIN u |-> u[i]]
  OBVIOUS
<1>7. QED
  BY <1>5, <1>6

\* As long as nothing was dropped, the lines are the ids below nextID.
InOneRun == dropped = {} => Lines = Upto(nextID)

LEMMA LinesAreRun ==
  ASSUME ClientInv, dropped = {}
  PROVE  Lines = Upto(nextID)
<1>1. TypeOK /\ LinesApart
  BY DEF ClientInv
<1>2. nextID - 1 \in Nat
  BY <1>1, ClientParams DEF TypeOK
<1>3. printed \in Seq(Int) /\ outputCh \in Seq(Int) /\ ackOut \in Seq(Int)
  <2>1. printed \in Seq(IDs) /\ outputCh \in Seq(IDs) /\ ackOut \in Seq(IDs)
    BY <1>1 DEF TypeOK
  <2>2. QED
    BY <2>1, ClientParams, SeqMonotonic
<1>4. Lines \in Seq(Int)
  BY <1>3, ConcatProperties DEF Lines
<1>5. LinesInOrder
  BY <1>1, ApartIsInOrder
<1>6. Rises(Lines) /\ ToSet(Lines) = 1..nextID-1
  BY <1>5 DEF LinesInOrder, Rises, Lines
<1>7. QED
  BY <1>2, <1>4, <1>6, RisesToRun DEF Upto

LEMMA InvInOneRun == ClientInv => InOneRun
BY LinesAreRun DEF InOneRun

LEMMA InvInOneRunNext == ClientInv' => InOneRun'
BY InvInOneRun, PTL

LEMMA LinesAreRunNext ==
  ASSUME ClientInv', dropped' = {}
  PROVE  Lines' = Upto(nextID')
BY InvInOneRunNext DEF InOneRun

\* nextID and the map change in AckInsert only.
LEMMA OnlyInsertMoves ==
  ASSUME [Next]_vars, ~AckInsert
  PROVE  UNCHANGED <<nextID, buffer>>
<1>1. CASE \E g \in Generators : Generator(g)
  BY <1>1 DEF Generator, GenSend, GenReturn, orderVars
<1>2. CASE ConnBreak \/ \E id \in IDs : AckReceive(id)
  BY <1>2 DEF ConnBreak, AckReceive, orderVars
<1>3. CASE AckPrint \/ AckOffer \/ AckOfferPanics \/ AckStop
  BY <1>3 DEF AckPrint, AckOffer, AckOfferPanics, AckStop, LineDone, orderVars, ackVars
<1>4. CASE OutputPipeline \/ Main \/ RunTimeout
  BY <1>4 DEF OutputPipeline, Main, RunWaitGenerators, RunComplete, ShutdownOutput, ShutdownConn,
              MainReturns, RunTimeout, RunStep, orderVars
<1>5. CASE UNCHANGED vars
  BY <1>5 DEF vars, orderVars
<1>6. QED
  BY <1>1, <1>2, <1>3, <1>4, <1>5 DEF Next, AckReceiver

\* An insertion is an Offer of the abstract specification.
LEMMA InsertDelivers ==
  ASSUME ClientInv, ClientInv', dropped = {}, dropped' = {}, AckInsert
  PROVE  Delivery!Next
<1> DEFINE id == ackID
<1>1. id \in IDs /\ IDs \subseteq Int /\ \A k \in IDs : k >= 1
  BY ClientParams DEF ClientInv, AckStands, AckInsert, TypeOK, IDs
<1>2. /\ nextID \in Int /\ nextID' \in Int /\ nextID \in 1..TotalPackets+1 /\ nextID' \in nextID..TotalPackets+1
      /\ \A k \in Int : (k < nextID' \/ k \in DOMAIN buffer')
                         <=> (k < nextID \/ k \in DOMAIN buffer \/ k = id)
      /\ DOMAIN buffer \subseteq IDs /\ DOMAIN buffer' \subseteq IDs
      /\ \A k \in DOMAIN buffer' : k > nextID'
  <2>1. OBP!Waiting /\ id \in OBP!Ids
    BY <1>1, ClientParams DEF OBP!Waiting, OBP!Ids, ClientInv, TypeOK, BufferExact, IDs
  <2>2. OBP!InsertBody(id, id)
    BY DEF AckInsert, OB!InsertBody, OBP!InsertBody, OB!Filled, OBP!Filled, OB!RunEnd, OBP!RunEnd
  <2>3. /\ nextID' \in nextID..TotalPackets+1
        /\ \A k \in Int : (k < nextID' \/ k \in DOMAIN buffer')
                            <=> (k < nextID \/ k \in DOMAIN buffer \/ k = id)
    BY <1>1, <2>1, <2>2, InsertHere
  <2>4. /\ nextID \in 1..TotalPackets+1 /\ TotalPackets \in Nat
        /\ DOMAIN buffer \subseteq IDs /\ DOMAIN buffer' \subseteq IDs
        /\ \A k \in DOMAIN buffer' : k > nextID'
    BY ClientParams DEF ClientInv, TypeOK, BufferExact
  <2>5. QED
    BY <2>3, <2>4
<1>3. Lines = Upto(nextID) /\ Lines' = Upto(nextID')
  BY LinesAreRun, LinesAreRunNext
<1> HIDE DEF id
<1>4. /\ TotalPackets \in Nat /\ id \in 1..TotalPackets
      /\ nextID \in 1..TotalPackets+1 /\ nextID' \in nextID..TotalPackets+1
      /\ DOMAIN buffer \in SUBSET (1..TotalPackets) /\ DOMAIN buffer' \in SUBSET (1..TotalPackets)
  BY <1>1, <1>2, ClientParams DEF IDs
<1>5. /\ OwnPairs(nextID', DOMAIN buffer') = OwnPairs(nextID, DOMAIN buffer) \cup {<<id, id>>}
      /\ Upto(nextID') \in Seq(1..TotalPackets)
      /\ Len(Upto(nextID)) <= Len(Upto(nextID'))
      /\ \A n \in 1..Len(Upto(nextID)) : Upto(nextID')[n] = Upto(nextID)[n]
      /\ \A n \in 1..Len(Upto(nextID')) :
            <<1 + n - 1, Upto(nextID')[n]>> \in OwnPairs(nextID', DOMAIN buffer')
      /\ \A v \in 1..TotalPackets :
            <<1 + Len(Upto(nextID')), v>> \notin OwnPairs(nextID', DOMAIN buffer')
  <2>1. MovesOn(nextID, DOMAIN buffer, nextID', DOMAIN buffer', id)
    BY <1>2 DEF MovesOn
  <2>2. QED
    BY ONLY <2>1, <1>4, UptoGrows, ZenonT(60)
<1>6. /\ Delivery!Extends(Lines, Lines')
      /\ Delivery!Justified(OwnPairs(nextID', DOMAIN buffer'), Lines')
      /\ Delivery!Maximal(OwnPairs(nextID', DOMAIN buffer'), Lines')
  BY <1>3, <1>5 DEF Delivery!Extends, Delivery!Justified, Delivery!Maximal, IDs
<1>7. ASSUME NEW k \in IDs, k = id PROVE Delivery!Offer(k, k)
  BY <1>3, <1>5, <1>6, <1>7 DEF Delivery!Offer, IDs
<1>8. QED
  BY <1>1, <1>7 DEF Delivery!Next

\* Every step is an Offer or moves lines on without changing what they read as.
LEMMA StepDelivers ==
  ClientInv /\ ClientInv' /\ dropped = {} /\ (dropped = {})' /\ [Next]_vars
    => [Delivery!Next]_(Delivery!avars)
<1> SUFFICES ASSUME ClientInv, ClientInv', dropped = {}, (dropped = {})', [Next]_vars
             PROVE  [Delivery!Next]_(Delivery!avars)
  OBVIOUS
<1>1. CASE AckInsert
  BY <1>1, InsertDelivers
<1>2. CASE ~AckInsert
  <2>1. UNCHANGED <<nextID, buffer>>
    BY <1>2, OnlyInsertMoves
  <2>2. Lines = Upto(nextID) /\ Lines' = Upto(nextID')
    BY LinesAreRun, LinesAreRunNext
  <2>3. UNCHANGED <<Lines, OwnPairs(nextID, DOMAIN buffer)>>
    BY <2>1, <2>2
  <2>4. QED
    BY <2>3 DEF Delivery!avars
<1>3. QED
  BY <1>1, <1>2

LEMMA InitDelivers == Init => Delivery!Init
<1> SUFFICES ASSUME Init PROVE Delivery!Init
  OBVIOUS
<1>1. OwnPairs(nextID, DOMAIN buffer) = {}
  BY DEF Init, OwnPairs
<1>2. Lines = <<>>
  <2>1. printed = <<>> /\ outputCh = <<>> /\ ackOut = <<>>
    BY DEF Init
  <2>2. <<>> \o <<>> \o <<>> = <<>>
    BY ConcatEmptySeq
  <2>3. QED
    BY <2>1, <2>2 DEF Lines
<1>3. QED
  BY <1>1, <1>2 DEF Delivery!Init

\* As long as no line has found the output channel full, the client keeps the
\* ordered buffer's promise up to the screen: the lines printed, queued and at
\* hand are together the longest gap-free run of the ids that were inserted, and
\* nothing on the way reorders, repeats or loses one (README.md:6,
\* quic/client.go:119-150, 176-215).
THEOREM ClientDelivers == Spec /\ [](dropped = {}) => Delivery!Spec
<1>1. Init => Delivery!Init
  BY InitDelivers
<1>2. ClientInv /\ ClientInv' /\ dropped = {} /\ (dropped = {})' /\ [Next]_vars
        => [Delivery!Next]_(Delivery!avars)
  BY StepDelivers
<1>3. QED
  BY <1>1, <1>2, ClientCorrect, PTL DEF Spec, Delivery!Spec

\* The SCTP client has no such channel, and keeps the promise always
\* (sctp/client.go).
THEOREM SCTPDelivers == Spec /\ ~piped => Delivery!Spec
<1>1. Init => dropped = {}
  BY DEF Init
<1>2. ~piped /\ dropped = {} /\ [Next]_vars => (~piped)' /\ (dropped = {})'
  <2> SUFFICES ASSUME ~piped, dropped = {}, [Next]_vars PROVE (~piped)' /\ (dropped = {})'
    OBVIOUS
  <2>1. CASE \E g \in Generators : Generator(g)
    BY <2>1 DEF Generator, GenSend, GenReturn, configVars, outVars
  <2>2. CASE ConnBreak \/ \E id \in IDs : AckReceive(id)
    BY <2>2 DEF ConnBreak, AckReceive, configVars, outVars
  <2>3. CASE AckInsert \/ AckPrint \/ AckOffer \/ AckOfferPanics \/ AckStop
    BY <2>3 DEF AckInsert, AckPrint, AckOffer, AckOfferPanics, AckStop, LineDone, configVars, outVars
  <2>4. CASE OutputPipeline \/ Main \/ RunTimeout
    BY <2>4 DEF OutputPipeline, Main, RunWaitGenerators, RunComplete, ShutdownOutput, ShutdownConn,
                MainReturns, RunTimeout, RunStep, configVars, outVars
  <2>5. CASE UNCHANGED vars
    BY <2>5 DEF vars, configVars, outVars
  <2>6. QED
    BY <2>1, <2>2, <2>3, <2>4, <2>5 DEF Next, AckReceiver
<1>3. QED
  BY <1>1, <1>2, ClientDelivers, PTL DEF Spec

=============================================================================
