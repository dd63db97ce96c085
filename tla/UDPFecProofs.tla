---------------------------- MODULE UDPFecProofs ----------------------------
(***************************************************************************)
(* What the UDP+FEC client prints and what its server holds agree, for     *)
(* every number of packets, generators, workers and layers and every       *)
(* capacity of the jobs channel, over a network that does anything; and    *)
(* the coders of Fec, on which neither relies, do what Fec says of them    *)
(* for every number of data shards and every payload.                      *)
(***************************************************************************)
EXTENDS UDPFec, Fec, CountingProofs, SequenceTheorems

CBP == INSTANCE OrderProofs WITH Values <- Lines, StartID <- 1, MaxID <- TotalPackets,
                                         offered <- {}, released <- <<>>, Size <- 1, slots <- <<>>,
                                         ringNext <- 1, count <- 0, taken <- <<>>
SBP == INSTANCE OrderProofs WITH Values <- IDs, StartID <- 1, MaxID <- TotalPackets,
                                         nextID <- sNextID, buffer <- sBuffer,
                                         offered <- {}, released <- <<>>, Size <- 1, slots <- <<>>,
                                         ringNext <- 1, count <- 0, taken <- <<>>

\* What a layer holds.
Groups == [key : IDs, value : {"shards"},
           left : {RetryTTL} \cup {LC!BackoffNext[i] : i \in Nat}]

ClientTypes ==
    /\ nextID \in 1..TotalPackets+1 /\ DOMAIN buffer \subseteq IDs
    /\ \A k \in DOMAIN buffer : buffer[k] \in Lines /\ buffer[k].id = k /\ k > nextID
    /\ printed \in Seq(Lines) /\ ackOut \in Seq(Lines) /\ dmnOut \in Seq(Lines)
    /\ genID \in [Gens -> Nat \ {0}] /\ genPC \in [Gens -> {"send", "register"}]
    /\ \A g \in Gens : genPC[g] = "register" => genID[g] \in IDs
    /\ layers \in [LC!Layer -> Seq(Groups)]

\* An ACK at hand was sent; benchmark mode handles none.
AckStands ==
    /\ ackPC \in {"receive", "delete", "insert", "print"}
    /\ ackPC \in {"delete", "insert"} => ackID \in acked /\ ~benchMode
    /\ ackOut = <<>> <=> ackPC # "print"

DmnStands ==
    /\ dmnPC \in {"scan", "promote", "resend", "lost", "print"}
    /\ dmnPeek \subseteq LC!Peek
    /\ dmnOut = <<>> <=> dmnPC # "print"

\* OkIsTrue, about the lines instead of the ids.
OkKnown == \A l \in KnownStatuses : l.verdict = "OK" => ServerHas(l.id)

ClientOk == ClientTypes /\ AckStands /\ DmnStands /\ StatusOnce /\ OkKnown

Jobs == [id : IDs, shard : ShardIDs]

ServerTypes ==
    /\ jobs \in Seq(Jobs) /\ acked \subseteq IDs
    /\ wPC \in [Workers -> {"idle", "insert", "print", "ack"}]
    /\ wID \in [Workers -> IDs \cup {None}] /\ wOut \in [Workers -> Seq(IDs)]
    /\ sNextID \in 1..TotalPackets+1 /\ DOMAIN sBuffer \subseteq IDs
    /\ \A k \in DOMAIN sBuffer : sBuffer[k] = k /\ k > sNextID
    /\ sPrinted \in Seq(IDs)

\* What a worker holds at each of its steps; it acknowledges what the server has.
WorkerStands(w) ==
    /\ wPC[w] \in {"insert", "print", "ack"} => wID[w] \in IDs
    /\ wPC[w] = "insert" => ~benchMode
    /\ wPC[w] \in {"print", "ack"} /\ ~benchMode => ServerHas(wID[w])
    /\ wOut[w] = <<>> <=> wPC[w] # "print"

AckedKnown == ~benchMode => \A id \in acked : ServerHas(id)

ServerOk == /\ ServerTypes /\ LineOnce /\ AckedKnown /\ HeldIsAnswered
            /\ \A w \in Workers : WorkerStands(w)

\* The inductive invariant.
FecInv == benchMode \in BOOLEAN /\ sent \subseteq IDs /\ ClientOk /\ ServerOk

-----------------------------------------------------------------------------
LEMMA FecParams ==
  /\ TotalPackets \in Nat /\ TotalPackets >= 1 /\ Generators \in Nat \ {0}
  /\ NumLayers \in Nat \ {0} /\ IsFiniteSet(Workers)
  /\ IDs \subseteq Nat \ {0} /\ None \notin IDs /\ IDs \subseteq CBP!Ids /\ IDs \subseteq SBP!Ids
<1>1. /\ TotalPackets \in Nat /\ TotalPackets >= 1 /\ Generators \in Nat \ {0}
      /\ NumLayers \in Nat \ {0} /\ IsFiniteSet(Workers)
  BY FecAssumption
<1>2. IDs \subseteq Nat \ {0} /\ None \notin IDs /\ IDs \subseteq CBP!Ids /\ IDs \subseteq SBP!Ids
  BY <1>1 DEF IDs, None, CBP!Ids, SBP!Ids
<1>3. QED
  BY <1>1, <1>2

LEMMA SetAppend ==
  ASSUME NEW V, NEW s \in Seq(V), NEW e \in V
  PROVE  ToSet(Append(s, e)) = ToSet(s) \cup {e}
<1>1. /\ Len(s) \in Nat /\ Len(Append(s, e)) = Len(s) + 1 /\ Append(s, e)[Len(s) + 1] = e
      /\ \A i \in 1..Len(s) : Append(s, e)[i] = s[i]
      /\ DOMAIN s = 1..Len(s) /\ DOMAIN Append(s, e) = 1..Len(s)+1
  BY AppendProperties, LenProperties
<1>2. 1..Len(s)+1 = 1..Len(s) \cup {Len(s) + 1}
  BY <1>1
<1> DEFINE t == Append(s, e)
<1> HIDE DEF t
<1>3. \A i \in 1..Len(s) : t[i] = s[i]
  BY <1>1 DEF t
<1>4. t[Len(s) + 1] = e /\ DOMAIN t = 1..Len(s) \cup {Len(s) + 1}
  BY <1>1, <1>2 DEF t
<1>5. ToSet(t) = ToSet(s) \cup {e}
  BY <1>1, <1>3, <1>4 DEF ToSet
<1>6. QED
  BY <1>5 DEF t

LEMMA SetTail ==
  ASSUME NEW V, NEW s \in Seq(V), s # <<>>
  PROVE  ToSet(s) = ToSet(Tail(s)) \cup {Head(s)}
<1> DEFINE t == Tail(s)
           h == Head(s)
<1>1. /\ t \in Seq(V) /\ h = s[1] /\ Len(t) = Len(s) - 1 /\ Len(s) \in Nat
      /\ \A i \in 1..Len(s)-1 : t[i] = s[i+1]
      /\ DOMAIN s = 1..Len(s)
  BY HeadTailProperties, LenProperties
<1>2. Len(s) > 0
  BY <1>1, EmptySeq
<1> HIDE DEF t, h
<1>3. DOMAIN t = 1..Len(s)-1
  BY <1>1, LenProperties
<1>4. \A i \in 1..Len(s) : i = 1 \/ (i - 1 \in 1..Len(s)-1 /\ (i - 1) + 1 = i)
  BY <1>1
<1>5. 1 \in 1..Len(s) /\ \A i \in 1..Len(s)-1 : i + 1 \in 1..Len(s)
  BY <1>1, <1>2
<1>6. \A i \in 1..Len(s) : s[i] = h \/ \E j \in 1..Len(s)-1 : s[i] = t[j]
  BY <1>1, <1>4
<1>7. ASSUME NEW x \in ToSet(s) PROVE x \in ToSet(t) \cup {h}
  <2>1. PICK i \in 1..Len(s) : s[i] = x
    BY <1>1, <1>7 DEF ToSet
  <2>2. CASE x # h
    <3>1. PICK j \in 1..Len(s)-1 : x = t[j]
      BY <1>6, <2>1, <2>2
    <3>2. QED
      BY <1>3, <3>1 DEF ToSet
  <2>3. QED
    BY <2>2
<1>8. h \in ToSet(s)
  BY <1>1, <1>5 DEF ToSet
<1>9. \A x \in ToSet(t) : x \in ToSet(s)
  BY <1>1, <1>3, <1>5 DEF ToSet
<1>10. ToSet(s) = ToSet(t) \cup {h}
  BY <1>7, <1>8, <1>9
<1>11. QED
  BY <1>10 DEF t, h

\* The first line of the sequence s moves to the end of the sequence t.
LEMMA LineMoves ==
  ASSUME NEW V, NEW s \in Seq(V), s # <<>>, NEW t \in Seq(V)
  PROVE  /\ Head(s) \in V /\ Tail(s) \in Seq(V) /\ Append(t, Head(s)) \in Seq(V)
         /\ Len(s) \in Nat /\ Len(t) \in Nat
         /\ Len(Tail(s)) + 1 = Len(s) /\ Len(Append(t, Head(s))) = Len(t) + 1
         /\ ToSet(Append(t, Head(s))) \cup ToSet(Tail(s)) = ToSet(t) \cup ToSet(s)
<1>1. Head(s) \in V /\ Tail(s) \in Seq(V) /\ Len(Tail(s)) = Len(s) - 1 /\ Len(s) \in Nat
         /\ Len(t) \in Nat
  BY HeadTailProperties, LenProperties
<1>2. Append(t, Head(s)) \in Seq(V) /\ Len(Append(t, Head(s))) = Len(t) + 1
  BY <1>1, AppendProperties
<1>3. ToSet(s) = ToSet(Tail(s)) \cup {Head(s)} /\ ToSet(Append(t, Head(s))) = ToSet(t) \cup {Head(s)}
  BY <1>1, SetTail, SetAppend
<1>4. QED
  BY <1>1, <1>2, <1>3

-----------------------------------------------------------------------------
(* The layers only ever hold groups of packets.                             *)

LEMMA WithoutIsSeq ==
  ASSUME NEW V, NEW list \in Seq(V), NEW key
  PROVE  LC!Without(list, key) \in Seq(V)
<1>1. CASE \E n \in 1..Len(list) : list[n].key = key
  <2> DEFINE n == CHOOSE m \in 1..Len(list) : list[m].key = key
  <2>1. n \in 1..Len(list) /\ Len(list) \in Nat
    BY <1>1, LenProperties
  <2>2. LC!Without(list, key) = SubSeq(list, 1, n-1) \o SubSeq(list, n+1, Len(list))
    BY <1>1 DEF LC!Without, LC!RemoveAt
  <2> HIDE DEF n
  <2>3. SubSeq(list, 1, n-1) \in Seq(V) /\ SubSeq(list, n+1, Len(list)) \in Seq(V)
    <3>1. \A i \in 1..n-1 : i \in 1..Len(list)
      BY <2>1
    <3>2. \A i \in n+1..Len(list) : i \in 1..Len(list)
      BY <2>1
    <3>3. QED
      BY <2>1, <3>1, <3>2, SubSeqProperties, ElementOfSeq
  <2>4. QED
    BY <2>2, <2>3, ConcatProperties
<1>2. CASE ~ \E n \in 1..Len(list) : list[n].key = key
  BY <1>2 DEF LC!Without
<1>3. QED
  BY <1>1, <1>2

LEMMA PutIsSeq ==
  ASSUME NEW list \in Seq(Groups), NEW id \in IDs,
         NEW ttl \in {RetryTTL} \cup {LC!BackoffNext[i] : i \in Nat}
  PROVE  LC!Put(list, id, "shards", ttl) \in Seq(Groups)
<1>1. [key |-> id, value |-> "shards", left |-> ttl] \in Groups
  BY DEF Groups
<1>2. QED
  BY <1>1, WithoutIsSeq, AppendProperties DEF LC!Put

LEMMA LayersTyped ==
  ASSUME layers \in [LC!Layer -> Seq(Groups)]
  PROVE  /\ \A id \in IDs : LC!Set(id, "shards") => layers' \in [LC!Layer -> Seq(Groups)]
         /\ \A id \in IDs : LC!Delete(id) => layers' \in [LC!Layer -> Seq(Groups)]
         /\ \A id \in IDs, i \in LC!Layer :
               LC!PromoteLayer(id, i) => layers' \in [LC!Layer -> Seq(Groups)]
         /\ \A i \in LC!Layer : layers[i] # <<>> => Head(layers[i]).key \in IDs
<1>0. 0 \in LC!Layer
  BY FecParams DEF LC!Layer
<1>1. ASSUME NEW id \in IDs, LC!Set(id, "shards") PROVE layers' \in [LC!Layer -> Seq(Groups)]
  <2>1. LC!Put(layers[0], id, "shards", RetryTTL) \in Seq(Groups)
    BY <1>0, PutIsSeq
  <2>2. QED
    BY <1>1, <2>1 DEF LC!Set
<1>2. ASSUME NEW id \in IDs, LC!Delete(id) PROVE layers' \in [LC!Layer -> Seq(Groups)]
  <2>1. \A i \in LC!Layer : LC!Without(layers[i], id) \in Seq(Groups)
    BY WithoutIsSeq
  <2>2. QED
    BY <1>2, <2>1 DEF LC!Delete
<1>3. ASSUME NEW id \in IDs, NEW i \in LC!Layer, LC!PromoteLayer(id, i)
      PROVE  layers' \in [LC!Layer -> Seq(Groups)]
  <2>1. CASE layers[i] = <<>>
    BY <1>3, <2>1 DEF LC!PromoteLayer
  <2>2. CASE layers[i] # <<>>
    <3>1. Tail(layers[i]) \in Seq(Groups) /\ Head(layers[i]) \in Groups
      BY <2>2, HeadTailProperties
    <3>2. CASE i + 1 < NumLayers
      <4>1. i + 1 \in LC!Layer /\ i + 1 \in Nat
        BY <3>2, FecParams DEF LC!Layer
      <4>2. LC!PromotedValue(i) = "shards"
        BY <3>1 DEF LC!PromotedValue, Groups
      <4>3. LC!Put(layers[i+1], id, LC!PromotedValue(i), LC!BackoffNext[i+1]) \in Seq(Groups)
        BY <4>1, <4>2, PutIsSeq
      <4>4. layers' = [layers EXCEPT ![i] = Tail(layers[i]),
                         ![i+1] = LC!Put(layers[i+1], id, LC!PromotedValue(i), LC!BackoffNext[i+1])]
        <5>1. i # i + 1
          BY FecParams DEF LC!Layer
        <5>2. QED
          BY <1>3, <2>2, <3>2, <4>1, <5>1 DEF LC!PromoteLayer
      <4>5. QED
        BY <3>1, <4>1, <4>3, <4>4
    <3>3. CASE ~(i + 1 < NumLayers)
      BY <1>3, <2>2, <3>1, <3>3 DEF LC!PromoteLayer
    <3>4. QED
      BY <3>2, <3>3
  <2>3. QED
    BY <2>1, <2>2
<1>4. \A i \in LC!Layer : layers[i] # <<>> => Head(layers[i]).key \in IDs
  <2>1. SUFFICES ASSUME NEW i \in LC!Layer, layers[i] # <<>> PROVE Head(layers[i]).key \in IDs
    OBVIOUS
  <2>2. Head(layers[i]) \in Groups
    BY <2>1, HeadTailProperties
  <2>3. QED
    BY <2>2 DEF Groups
<1>5. QED
  BY <1>1, <1>2, <1>3, <1>4

-----------------------------------------------------------------------------
(* The start.                                                              *)

LEMMA InitFec == Init => FecInv
<1> SUFFICES ASSUME Init PROVE FecInv
  OBVIOUS
<1> USE FecParams
<1>1. /\ benchMode \in BOOLEAN /\ sent = {} /\ acked = {} /\ ClientInit /\ ServerInit
  BY DEF Init
<1>2. 1 \in 1..TotalPackets+1
  OBVIOUS
<1>3. ClientTypes
  <2>1. nextID \in 1..TotalPackets+1 /\ DOMAIN buffer = {}
    BY <1>1, <1>2 DEF ClientInit
  <2>2. printed \in Seq(Lines) /\ ackOut \in Seq(Lines) /\ dmnOut \in Seq(Lines)
    BY <1>1 DEF ClientInit
  <2>3. /\ genID \in [Gens -> Nat \ {0}] /\ genPC \in [Gens -> {"send", "register"}]
        /\ \A g \in Gens : genPC[g] = "send"
    BY <1>1 DEF ClientInit, Gens
  <2>4. layers \in [LC!Layer -> Seq(Groups)]
    BY <1>1 DEF ClientInit, LC!Layer
  <2>5. QED
    BY <2>1, <2>2, <2>3, <2>4 DEF ClientTypes
<1>4. AckStands /\ DmnStands
  BY <1>1 DEF ClientInit, AckStands, DmnStands
<1>5. StatusLines = {} /\ KnownStatuses = {}
  BY <1>1 DEF ClientInit, StatusLines, KnownStatuses, ToSet
<1>6. StatusOnce /\ OkKnown
  <2>1. nextID = 1 /\ Len(printed) = 0 /\ Len(ackOut) = 0 /\ Len(dmnOut) = 0
    BY <1>1 DEF ClientInit
  <2>2. \A id \in IDs : ~(id < nextID)
    BY <2>1
  <2>3. QED
    BY <1>5, <2>1, <2>2 DEF StatusOnce, OkKnown
<1>7. ServerTypes
  <2>1. jobs \in Seq(Jobs) /\ sPrinted \in Seq(IDs) /\ wOut \in [Workers -> Seq(IDs)]
    BY <1>1 DEF ServerInit
  <2>2. QED
    BY <1>1, <1>2, <2>1 DEF ServerInit, ServerTypes
<1>8. \A w \in Workers : WorkerStands(w)
  BY <1>1 DEF ServerInit, WorkerStands
<1>9. LineOnce
  <2>1. \A id \in IDs : Occurs(sPrinted, id) = 0 /\ Entries(wOut, id) = 0 /\ ~(id < sNextID)
    BY <1>1, OccursEmpty, EntriesEmpty DEF ServerInit
  <2>2. QED
    BY <2>1 DEF LineOnce
<1>10. AckedKnown /\ HeldIsAnswered
  <2>1. \A id \in IDs : ~ServerHas(id)
    BY <1>1 DEF ServerHas, ServerInit
  <2>2. QED
    BY <1>1, <2>1 DEF AckedKnown, HeldIsAnswered
<1>11. QED
  BY <1>1, <1>3, <1>4, <1>6, <1>7, <1>8, <1>9, <1>10 DEF FecInv, ClientOk, ServerOk

-----------------------------------------------------------------------------
(* The one side sees little of a step of the other.                        *)

LEMMA ServerRests ==
  ASSUME FecInv, UNCHANGED <<benchMode, acked, serverVars>>
  PROVE  ServerOk'
<1>1. UNCHANGED <<benchMode, acked, jobs, server, wPC, wID, wOut, sNextID, sBuffer, sPrinted>>
  BY DEF serverVars, workerVars, lineVars
<1>2. ServerTypes' /\ LineOnce' /\ AckedKnown' /\ HeldIsAnswered'
  BY <1>1 DEF FecInv, ServerOk, ServerTypes, LineOnce, AckedKnown, HeldIsAnswered, ServerHas
<1>3. \A w \in Workers : WorkerStands(w)'
  BY <1>1 DEF FecInv, ServerOk, WorkerStands, ServerHas
<1>4. QED
  BY <1>2, <1>3 DEF ServerOk

LEMMA ClientRests ==
  ASSUME FecInv, UNCHANGED <<benchMode, clientVars>>, acked \subseteq acked',
         \A id \in IDs : ServerHas(id) => ServerHas(id)'
  PROVE  ClientOk'
<1>1. UNCHANGED <<benchMode, layers, nextID, buffer, genPC, genID, ackPC, ackID, ackOut,
                  dmnPC, dmnPeek, dmnOut, cOpen, printed>>
  BY DEF clientVars, orderVars, genVars, ackVars, dmnVars
<1>2. ClientTypes' /\ StatusOnce' /\ DmnStands'
  BY <1>1 DEF FecInv, ClientOk, ClientTypes, StatusOnce, StatusLines, DmnStands
<1>3. AckStands'
  BY <1>1 DEF FecInv, ClientOk, AckStands
<1>4. OkKnown'
  <2>1. KnownStatuses' = KnownStatuses
    BY <1>1 DEF KnownStatuses, StatusLines
  <2>2. \A l \in KnownStatuses : l.id \in IDs
    <3>1. \A l \in Lines : l.id \in IDs
      BY DEF Lines
    <3>2. StatusLines \subseteq Lines
      BY DEF FecInv, ClientOk, ClientTypes, StatusLines, ToSet
    <3>3. \A k \in DOMAIN buffer : buffer[k] \in Lines
      BY DEF FecInv, ClientOk, ClientTypes
    <3>4. QED
      BY <3>1, <3>2, <3>3 DEF KnownStatuses
  <2>3. QED
    BY <2>1, <2>2 DEF FecInv, ClientOk, OkKnown
<1>5. QED
  BY <1>2, <1>3, <1>4 DEF ClientOk

-----------------------------------------------------------------------------
(* The client.                                                             *)

\* A step that neither inserts nor prints a line.
LEMMA LinesRest ==
  ASSUME FecInv, ClientTypes', AckStands', DmnStands',
         UNCHANGED <<orderVars, ackOut, dmnOut, printed, serverVars, benchMode, acked>>,
         sent' \subseteq IDs
  PROVE  FecInv'
<1>1. ServerOk'
  BY ServerRests
<1>2. UNCHANGED <<nextID, buffer, sNextID, sBuffer>>
  BY DEF orderVars, serverVars, lineVars
<1>3. StatusOnce' /\ OkKnown'
  BY <1>2 DEF FecInv, ClientOk, StatusOnce, OkKnown, KnownStatuses, StatusLines, ServerHas
<1>4. QED
  BY <1>1, <1>3 DEF FecInv, ClientOk

LEMMA GeneratorInv ==
  ASSUME FecInv, NEW g \in Gens, GenSend(g) \/ GenRegister(g)
  PROVE  FecInv'
<1>1. ClientTypes /\ AckStands /\ DmnStands /\ sent \subseteq IDs
  BY DEF FecInv, ClientOk
<1>2. genID[g] \in Nat \ {0} /\ genPC[g] \in {"send", "register"}
  BY <1>1 DEF ClientTypes
<1>3. genID[g] + Generators \in Nat \ {0}
  BY <1>2, FecParams
<1>4. CASE GenSend(g)
  <2>1. /\ genID[g] \in IDs /\ (sent' = sent \cup {genID[g]} \/ sent' = sent)
        /\ UNCHANGED <<benchMode, layers, orderVars, ackVars, dmnVars, cOpen, printed, acked,
                       serverVars>>
        /\ \/ /\ genID' = [genID EXCEPT ![g] = genID[g] + Generators]
              /\ genPC' = [genPC EXCEPT ![g] = "send"]
           \/ genPC' = [genPC EXCEPT ![g] = "register"] /\ UNCHANGED genID
    <3>1. genID[g] \in IDs
      BY <1>2, <1>4, FecParams DEF GenSend, IDs
    <3>2. QED
      BY <1>4, <3>1 DEF GenSend, SendGroup, NextPacket
  <2>2. ClientTypes'
    <3>1. genID' \in [Gens -> Nat \ {0}] /\ genPC' \in [Gens -> {"send", "register"}]
      BY <1>1, <1>3, <2>1, ZenonT(40) DEF ClientTypes
    <3>2. \A h \in Gens : genPC'[h] = "register" => genID'[h] \in IDs
      BY <1>1, <2>1 DEF ClientTypes
    <3>3. QED
      BY <1>1, <2>1, <3>1, <3>2 DEF ClientTypes, orderVars, ackVars, dmnVars
  <2>3. AckStands' /\ DmnStands'
    BY <1>1, <2>1 DEF AckStands, DmnStands, ackVars, dmnVars
  <2>4. QED
    BY <1>1, <2>1, <2>2, <2>3, LinesRest DEF ackVars, dmnVars
<1>5. CASE GenRegister(g)
  <2>1. /\ genPC[g] = "register" /\ LC!Set(genID[g], "shards")
        /\ genID' = [genID EXCEPT ![g] = genID[g] + Generators]
        /\ genPC' = [genPC EXCEPT ![g] = "send"]
        /\ UNCHANGED <<benchMode, orderVars, ackVars, dmnVars, cOpen, printed, sent, acked,
                       serverVars>>
    BY <1>5 DEF GenRegister, NextPacket
  <2>2. ClientTypes'
    <3>1. genID' \in [Gens -> Nat \ {0}] /\ genPC' \in [Gens -> {"send", "register"}]
             /\ \A h \in Gens : genPC'[h] = "register" => genID'[h] \in IDs
      BY <1>1, <1>3, <2>1 DEF ClientTypes
    <3>2. layers' \in [LC!Layer -> Seq(Groups)]
      BY <1>1, <2>1, LayersTyped DEF ClientTypes
    <3>3. QED
      BY <1>1, <2>1, <3>1, <3>2 DEF ClientTypes, orderVars, ackVars, dmnVars
  <2>3. AckStands' /\ DmnStands'
    BY <1>1, <2>1 DEF AckStands, DmnStands, ackVars, dmnVars
  <2>4. QED
    BY <1>1, <2>1, <2>2, <2>3, LinesRest DEF ackVars, dmnVars
<1>6. QED
  BY <1>4, <1>5

\* The steps of ackReceiver and of the daemon that handle no line.
LEMMA QuietClientInv ==
  ASSUME FecInv,
         \/ \E id \in IDs : AckReceive(id)
         \/ AckDelete \/ DmnScan \/ DmnPromote \/ DmnResend \/ ClientShutdown
  PROVE  FecInv'
<1>1. ClientTypes /\ AckStands /\ DmnStands /\ sent \subseteq IDs /\ acked \subseteq IDs
  BY DEF FecInv, ClientOk, ServerOk, ServerTypes
<1>2. \A p \in dmnPeek : p.key \in IDs /\ p.layer \in LC!Layer
  BY <1>1 DEF DmnStands, LC!Peek
<1>3. /\ UNCHANGED <<benchMode, orderVars, genVars, ackOut, dmnOut, printed, acked, serverVars>>
      /\ sent' \subseteq IDs /\ layers' \in [LC!Layer -> Seq(Groups)]
  <2>1. CASE \/ \E id \in IDs : AckReceive(id)
             \/ DmnScan \/ ClientShutdown
    BY <1>1, <2>1 DEF AckReceive, DmnScan, ClientShutdown, ackVars, dmnVars, ClientTypes
  <2>2. CASE AckDelete
    <3>1. ackID \in IDs
      BY <1>1, <2>2 DEF AckStands, AckDelete
    <3>2. QED
      BY <1>1, <2>2, <3>1, LayersTyped DEF AckDelete, dmnVars, ClientTypes
  <2>3. CASE DmnPromote
    BY <1>1, <1>2, <2>3, LayersTyped DEF DmnPromote, ackVars, ClientTypes
  <2>4. CASE DmnResend
    BY <1>1, <1>2, <2>4 DEF DmnResend, SendGroup, ackVars, ClientTypes
  <2>5. QED
    BY <2>1, <2>2, <2>3, <2>4
<1>4. ClientTypes'
  BY <1>1, <1>3 DEF ClientTypes, orderVars, genVars
<1>5. AckStands'
  BY <1>1, <1>3 DEF AckStands, AckReceive, AckDelete, DmnScan, DmnPromote, DmnResend, ClientShutdown,
     ackVars
<1>6. DmnStands'
  <2>1. CASE (\E id \in IDs : AckReceive(id)) \/ AckDelete \/ ClientShutdown
    BY <1>1, <2>1 DEF DmnStands, AckReceive, AckDelete, ClientShutdown, dmnVars
  <2>2. CASE DmnScan
    <3>1. PICK i \in LC!Layer : layers[i] # <<>> /\ dmnPeek' = {[key |-> Head(layers[i]).key, layer |-> i]}
      BY <2>2 DEF DmnScan
    <3>2. Head(layers[i]).key \in IDs
      BY <1>1, <3>1, LayersTyped DEF ClientTypes
    <3>3. dmnPeek' \subseteq LC!Peek
      BY <3>1, <3>2 DEF LC!Peek
    <3>4. QED
      BY <1>1, <2>2, <3>3 DEF DmnStands, DmnScan
  <2>3. CASE DmnPromote \/ DmnResend
    BY <1>1, <2>3 DEF DmnStands, DmnPromote, DmnResend
  <2>4. QED
    BY <2>1, <2>2, <2>3
<1>7. QED
  BY <1>3, <1>4, <1>5, <1>6, LinesRest

\* A step that prints the first line of one of the two batches.
LEMMA PrintInv ==
  ASSUME FecInv, AckPrint \/ DmnPrint
  PROVE  FecInv'
<1>1. ClientTypes /\ AckStands /\ DmnStands /\ StatusOnce /\ OkKnown /\ sent \subseteq IDs
  BY DEF FecInv, ClientOk
<1>2. printed \in Seq(Lines) /\ ackOut \in Seq(Lines) /\ dmnOut \in Seq(Lines)
  BY <1>1 DEF ClientTypes
<1>3. UNCHANGED <<benchMode, layers, nextID, buffer, genVars, sent, acked, serverVars>>
  BY DEF AckPrint, DmnPrint, orderVars
<1>4. /\ Len(printed') + Len(ackOut') + Len(dmnOut') = Len(printed) + Len(ackOut) + Len(dmnOut)
      /\ StatusLines' = StatusLines
      /\ printed' \in Seq(Lines) /\ ackOut' \in Seq(Lines) /\ dmnOut' \in Seq(Lines)
      /\ AckStands' /\ DmnStands'
  <2>1. CASE AckPrint
    <3>1. /\ ackPC = "print" /\ printed' = Append(printed, Head(ackOut)) /\ ackOut' = Tail(ackOut)
          /\ ackPC' = (IF ackOut' = <<>> THEN "receive" ELSE "print")
          /\ UNCHANGED <<benchMode, ackID, dmnPC, dmnPeek, dmnOut, acked>>
      BY <2>1 DEF AckPrint, dmnVars
    <3>2. ackOut # <<>>
      BY <1>1, <3>1 DEF AckStands
    <3>3. /\ Tail(ackOut) \in Seq(Lines) /\ Append(printed, Head(ackOut)) \in Seq(Lines)
          /\ Len(ackOut) \in Nat /\ Len(printed) \in Nat /\ Len(Tail(ackOut)) + 1 = Len(ackOut)
          /\ Len(Append(printed, Head(ackOut))) = Len(printed) + 1
          /\ ToSet(Append(printed, Head(ackOut))) \cup ToSet(Tail(ackOut))
                = ToSet(printed) \cup ToSet(ackOut)
      BY <1>2, <3>2, LineMoves
    <3>4. StatusLines' = StatusLines
      BY <3>1, <3>3 DEF StatusLines
    <3>5. Len(dmnOut) \in Nat /\ Len(Tail(ackOut)) \in Nat
      BY <1>2, <3>3, LenProperties
    <3>6. Len(printed') + Len(ackOut') + Len(dmnOut') = Len(printed) + Len(ackOut) + Len(dmnOut)
      BY <3>1, <3>3, <3>5
    <3>7. AckStands' /\ DmnStands'
      BY <1>1, <3>1 DEF AckStands, DmnStands
    <3>8. QED
      BY <1>2, <3>1, <3>3, <3>4, <3>6, <3>7
  <2>2. CASE DmnPrint
    <3>1. /\ dmnPC = "print" /\ printed' = Append(printed, Head(dmnOut)) /\ dmnOut' = Tail(dmnOut)
          /\ dmnPC' = (IF dmnOut' = <<>> THEN "scan" ELSE "print")
          /\ UNCHANGED <<benchMode, dmnPeek, ackPC, ackID, ackOut, acked>>
      BY <2>2 DEF DmnPrint, ackVars
    <3>2. dmnOut # <<>>
      BY <1>1, <3>1 DEF DmnStands
    <3>3. /\ Tail(dmnOut) \in Seq(Lines) /\ Append(printed, Head(dmnOut)) \in Seq(Lines)
          /\ Len(dmnOut) \in Nat /\ Len(printed) \in Nat /\ Len(Tail(dmnOut)) + 1 = Len(dmnOut)
          /\ Len(Append(printed, Head(dmnOut))) = Len(printed) + 1
          /\ ToSet(Append(printed, Head(dmnOut))) \cup ToSet(Tail(dmnOut))
                = ToSet(printed) \cup ToSet(dmnOut)
      BY <1>2, <3>2, LineMoves
    <3>4. StatusLines' = StatusLines
      BY <3>1, <3>3 DEF StatusLines
    <3>5. Len(ackOut) \in Nat /\ Len(Tail(dmnOut)) \in Nat
      BY <1>2, <3>3, LenProperties
    <3>6. Len(printed') + Len(ackOut') + Len(dmnOut') = Len(printed) + Len(ackOut) + Len(dmnOut)
      BY <3>1, <3>3, <3>5
    <3>7. AckStands' /\ DmnStands'
      BY <1>1, <3>1 DEF AckStands, DmnStands
    <3>8. QED
      BY <1>2, <3>1, <3>3, <3>4, <3>6, <3>7
  <2>3. QED
    BY <2>1, <2>2
<1>5. ClientTypes'
  BY <1>1, <1>3, <1>4 DEF ClientTypes, genVars
<1>6. StatusOnce'
  BY <1>1, <1>3, <1>4 DEF StatusOnce
<1>7. OkKnown'
  BY <1>1, <1>3, <1>4 DEF OkKnown, KnownStatuses, ServerHas, serverVars, lineVars
<1>8. QED
  BY <1>1, <1>3, <1>4, <1>5, <1>6, <1>7, ServerRests DEF FecInv, ClientOk

\* What Insert does with a status line, as the ordered buffer's proofs give it.
LEMMA CInsertHere ==
  ASSUME NEW id \in CBP!Ids, NEW line \in Lines, CBP!Waiting, CBP!InsertBody(id, line)
  PROVE  /\ CBP!Waiting'
         /\ nextID' \in nextID..TotalPackets+1
         /\ \A k \in Int : (k < nextID' \/ k \in DOMAIN buffer')
                            <=> (k < nextID \/ k \in DOMAIN buffer \/ k = id)
         /\ \A k \in DOMAIN buffer' : \/ k \in DOMAIN buffer /\ buffer'[k] = buffer[k]
                                      \/ k = id /\ buffer'[k] = line
         /\ CBP!Batch(id, line) \in Seq(Lines)
         /\ Len(CBP!Batch(id, line)) = nextID' - nextID
         /\ \A i \in 1..Len(CBP!Batch(id, line)) :
               \/ nextID + i - 1 = id /\ CBP!Batch(id, line)[i] = line
               \/ /\ nextID + i - 1 \in DOMAIN buffer
                  /\ CBP!Batch(id, line)[i] = buffer[nextID + i - 1]
<1>0. 1 \in Nat /\ 1 \in Nat \ {0} /\ TotalPackets \in Nat /\ 1 <= TotalPackets
  BY FecParams
<1>1. CBP!Waiting'
  BY <1>0, CBP!InsertBodyFacts
<1>2. nextID' \in nextID..TotalPackets+1
  BY <1>0, CBP!InsertBodyFacts
<1>3. \A k \in Int : (k < nextID' \/ k \in DOMAIN buffer')
                      <=> (k < nextID \/ k \in DOMAIN buffer \/ k = id)
  BY <1>0, CBP!InsertBodyFacts
<1>4. \A k \in DOMAIN buffer' : \/ k \in DOMAIN buffer /\ buffer'[k] = buffer[k]
                                \/ k = id /\ buffer'[k] = line
  BY <1>0, CBP!InsertBodyFacts
<1>5. CBP!Batch(id, line) \in Seq(Lines) /\ Len(CBP!Batch(id, line)) = nextID' - nextID
  BY <1>0, CBP!InsertBodyFacts
<1>6. \A i \in 1..Len(CBP!Batch(id, line)) :
         \/ nextID + i - 1 = id /\ CBP!Batch(id, line)[i] = line
         \/ /\ nextID + i - 1 \in DOMAIN buffer
            /\ CBP!Batch(id, line)[i] = buffer[nextID + i - 1]
  BY <1>0, CBP!BatchValues
<1>7. QED
  BY <1>1, <1>2, <1>3, <1>4, <1>5, <1>6

LEMMA StatusFacts ==
  ASSUME ClientTypes, NEW id \in IDs, NEW line \in Lines, line.id = id, CB!InsertBody(id, line)
  PROVE  /\ nextID' \in nextID..TotalPackets+1 /\ DOMAIN buffer' \subseteq IDs
         /\ \A k \in DOMAIN buffer' :
               /\ buffer'[k] \in Lines /\ buffer'[k].id = k /\ k > nextID'
               /\ buffer'[k] = line \/ buffer'[k] \in {buffer[m] : m \in DOMAIN buffer}
         /\ CB!Batch(id, line) \in Seq(Lines)
         /\ Len(CB!Batch(id, line)) = nextID' - nextID
         /\ \A i \in 1..Len(CB!Batch(id, line)) :
               /\ CB!Batch(id, line)[i].id = nextID + i - 1
               /\ \/ CB!Batch(id, line)[i] = line
                  \/ CB!Batch(id, line)[i] \in {buffer[m] : m \in DOMAIN buffer}
<1> DEFINE batch == CB!Batch(id, line)
<1>1. /\ nextID \in 1..TotalPackets+1 /\ DOMAIN buffer \subseteq IDs
      /\ \A k \in DOMAIN buffer : buffer[k] \in Lines /\ buffer[k].id = k /\ k > nextID
  BY DEF ClientTypes
<1>2. id \in CBP!Ids /\ TotalPackets \in Nat
  BY FecParams
<1>3. CBP!Waiting
  BY <1>1, FecParams DEF CBP!Waiting, CBP!Ids, IDs
<1>4. CBP!InsertBody(id, line)
  BY DEF CB!InsertBody, CBP!InsertBody, CB!Filled, CBP!Filled, CB!RunEnd, CBP!RunEnd
<1>5. batch = CBP!Batch(id, line)
  BY DEF CB!Batch, CBP!Batch, CB!Filled, CBP!Filled, CB!RunEnd, CBP!RunEnd
<1> HIDE DEF batch
<1>6. /\ CBP!Waiting'
      /\ nextID' \in nextID..TotalPackets+1
      /\ \A k \in Int : (k < nextID' \/ k \in DOMAIN buffer')
                         <=> (k < nextID \/ k \in DOMAIN buffer \/ k = id)
      /\ \A k \in DOMAIN buffer' : \/ k \in DOMAIN buffer /\ buffer'[k] = buffer[k]
                                   \/ k = id /\ buffer'[k] = line
      /\ batch \in Seq(Lines) /\ Len(batch) = nextID' - nextID
      /\ \A i \in 1..Len(batch) : \/ nextID + i - 1 = id /\ batch[i] = line
                                  \/ /\ nextID + i - 1 \in DOMAIN buffer
                                     /\ batch[i] = buffer[nextID + i - 1]
  BY <1>2, <1>3, <1>4, <1>5, CInsertHere
<1>7. DOMAIN buffer' \subseteq IDs
  BY <1>1, <1>6
<1>8. \A k \in DOMAIN buffer' :
         /\ buffer'[k] \in Lines /\ buffer'[k].id = k
         /\ buffer'[k] = line \/ buffer'[k] \in {buffer[m] : m \in DOMAIN buffer}
  BY <1>1, <1>6
<1>9. \A k \in DOMAIN buffer' : k > nextID'
  BY <1>6 DEF CBP!Waiting
<1>10. \A i \in 1..Len(batch) :
          /\ batch[i].id = nextID + i - 1
          /\ batch[i] = line \/ batch[i] \in {buffer[m] : m \in DOMAIN buffer}
  BY <1>1, <1>6
<1>11. QED
  BY <1>6, <1>7, <1>8, <1>9, <1>10 DEF batch

\* A batch of statuses comes into the hands of the thread whose Insert released it.
LEMMA BatchAppears ==
  ASSUME FecInv, NEW id \in IDs, NEW line \in Lines, line.id = id,
         line.verdict = "OK" => ServerHas(id),
         NEW batch, batch = CB!Batch(id, line), CB!InsertBody(id, line),
         UNCHANGED <<printed, genVars, layers, serverVars>>,
         \/ ackOut = <<>> /\ ackOut' = batch /\ dmnOut' = dmnOut
         \/ dmnOut = <<>> /\ dmnOut' = batch /\ ackOut' = ackOut
  PROVE  ClientTypes' /\ StatusOnce' /\ OkKnown'
<1>1. ClientTypes /\ StatusOnce /\ OkKnown
  BY DEF FecInv, ClientOk
<1>2. /\ nextID' \in nextID..TotalPackets+1 /\ DOMAIN buffer' \subseteq IDs
      /\ \A k \in DOMAIN buffer' :
            /\ buffer'[k] \in Lines /\ buffer'[k].id = k /\ k > nextID'
            /\ buffer'[k] = line \/ buffer'[k] \in {buffer[m] : m \in DOMAIN buffer}
      /\ batch \in Seq(Lines)
      /\ Len(batch) = nextID' - nextID
      /\ \A i \in 1..Len(batch) :
            /\ batch[i].id = nextID + i - 1
            /\ batch[i] = line \/ batch[i] \in {buffer[m] : m \in DOMAIN buffer}
  BY <1>1, StatusFacts
<1>3. nextID \in 1..TotalPackets+1 /\ nextID \in Int /\ nextID >= 1
  BY <1>1, FecParams DEF ClientTypes
<1>4. nextID' \in Int /\ nextID <= nextID' /\ nextID' \in 1..TotalPackets+1
  BY <1>2, <1>3, FecParams
<1>5. ClientTypes'
  BY <1>1, <1>2, <1>4 DEF ClientTypes, genVars
<1>6. StatusLines' = StatusLines \cup ToSet(batch)
  <2>1. ToSet(<<>>) = {}
    BY DEF ToSet
  <2>2. QED
    BY <2>1 DEF StatusLines
<1>7. StatusOnce'
  <2>1. Len(printed') + Len(ackOut') + Len(dmnOut') = nextID' - 1
    <3>1. Len(printed) \in Nat /\ Len(ackOut) \in Nat /\ Len(dmnOut) \in Nat /\ Len(<<>>) = 0
      BY <1>1, LenProperties, EmptySeq DEF ClientTypes
    <3>2. Len(printed) + Len(ackOut) + Len(dmnOut) = nextID - 1
      BY <1>1 DEF StatusOnce
    <3>3. CASE ackOut = <<>> /\ ackOut' = batch /\ dmnOut' = dmnOut
      BY <1>2, <1>3, <1>4, <3>1, <3>2, <3>3
    <3>4. CASE dmnOut = <<>> /\ dmnOut' = batch /\ ackOut' = ackOut
      BY <1>2, <1>3, <1>4, <3>1, <3>2, <3>4
    <3>5. QED
      BY <3>3, <3>4
  <2>2. ASSUME NEW x \in IDs PROVE x < nextID' <=> \E l \in StatusLines' : l.id = x
    <3>1. x \in Int /\ (x < nextID <=> \E l \in StatusLines : l.id = x)
      BY <1>1, FecParams DEF StatusOnce
    <3>2. Len(batch) \in Nat /\ DOMAIN batch = 1..Len(batch)
      BY <1>2, LenProperties
    <3>3. ASSUME x < nextID', ~(x < nextID) PROVE \E l \in ToSet(batch) : l.id = x
      <4>1. ASSUME NEW a \in Int, NEW b \in Int, a <= x, x < b
            PROVE  \E i \in 1..b-a : a + i - 1 = x
        <5>1. x - a + 1 \in 1..b-a /\ a + (x - a + 1) - 1 = x
          BY <3>1, <4>1
        <5>2. QED
          BY <5>1
      <4>2. PICK i \in 1..Len(batch) : nextID + i - 1 = x
        <5>1. nextID <= x
          BY <1>3, <3>1, <3>3
        <5>2. \E i \in 1..(nextID' - nextID) : nextID + i - 1 = x
          BY <1>3, <1>4, <3>3, <4>1, <5>1
        <5>3. QED
          BY <1>2, <5>2
      <4>3. batch[i].id = x
        BY <1>2, <4>2
      <4>4. QED
        BY <3>2, <4>3 DEF ToSet
    <3>4. ASSUME NEW l \in ToSet(batch), l.id = x PROVE x < nextID'
      <4>1. PICK i \in 1..Len(batch) : batch[i] = l
        BY <3>2, <3>4 DEF ToSet
      <4>2. x = nextID + i - 1
        BY <1>2, <3>4, <4>1
      <4>3. QED
        BY <1>2, <1>3, <1>4, <3>2, <4>2
    <3>5. x < nextID => x < nextID'
      BY <1>3, <1>4, <3>1
    <3>6. QED
      BY <1>6, <3>1, <3>3, <3>4, <3>5
  <2>3. QED
    BY <2>1, <2>2 DEF StatusOnce
<1>8. KnownStatuses' \subseteq KnownStatuses \cup {line}
  <2>1. \A l \in ToSet(batch) : l = line \/ l \in {buffer[m] : m \in DOMAIN buffer}
    <3>1. DOMAIN batch = 1..Len(batch)
      BY <1>2, LenProperties
    <3>2. QED
      BY <1>2, <3>1 DEF ToSet
  <2>2. QED
    BY <1>2, <1>6, <2>1 DEF KnownStatuses
<1>9. OkKnown'
  BY <1>1, <1>8 DEF OkKnown, ServerHas, serverVars, lineVars
<1>10. QED
  BY <1>5, <1>7, <1>9

LEMMA InsertInv ==
  ASSUME FecInv, AckInsert \/ DmnLost
  PROVE  FecInv'
<1>1. /\ ClientTypes /\ AckStands /\ DmnStands /\ sent \subseteq IDs /\ acked \subseteq IDs
      /\ AckedKnown
  BY DEF FecInv, ClientOk, ServerOk, ServerTypes
<1>2. UNCHANGED <<benchMode, layers, genVars, printed, sent, acked, serverVars>>
  BY DEF AckInsert, DmnLost
<1>3. \A id \in IDs, v \in {"OK", "LOST"} :
         Line(id, v) \in Lines /\ Line(id, v).id = id /\ Line(id, v).verdict = v
  BY DEF Line, Lines
<1>4. CASE AckInsert
  <2> DEFINE line == Line(ackID, "OK")
  <2>1. /\ ackPC = "insert" /\ CB!InsertBody(ackID, line)
        /\ ackOut' = CB!Batch(ackID, line)
        /\ ackPC' = (IF ackOut' = <<>> THEN "receive" ELSE "print")
        /\ UNCHANGED <<dmnPC, dmnPeek, dmnOut>>
    BY <1>4 DEF AckInsert, Statuses, dmnVars
  <2>2. ackID \in IDs /\ ServerHas(ackID) /\ ackOut = <<>>
    BY <1>1, <2>1 DEF AckStands, AckedKnown
  <2>3. line \in Lines /\ line.id = ackID
    BY <1>3, <2>2
  <2> HIDE DEF line
  <2>4. ClientTypes' /\ StatusOnce' /\ OkKnown'
    BY <1>2, <2>1, <2>2, <2>3, BatchAppears
  <2>5. AckStands' /\ DmnStands'
    BY <1>1, <2>1 DEF AckStands, DmnStands
  <2>6. QED
    BY <1>1, <1>2, <2>4, <2>5, ServerRests DEF FecInv, ClientOk
<1>5. CASE DmnLost
  <2>1. PICK p \in dmnPeek : /\ CB!InsertBody(p.key, Line(p.key, "LOST"))
                             /\ dmnOut' = CB!Batch(p.key, Line(p.key, "LOST"))
    BY <1>5 DEF DmnLost, Statuses
  <2>2. /\ dmnPC = "lost" /\ dmnPeek' = {} /\ dmnPC' = (IF dmnOut' = <<>> THEN "scan" ELSE "print")
        /\ UNCHANGED <<ackPC, ackID, ackOut>>
    BY <1>5 DEF DmnLost, ackVars
  <2> DEFINE line == Line(p.key, "LOST")
  <2>3. p.key \in IDs /\ dmnOut = <<>>
    BY <1>1, <2>2 DEF DmnStands, LC!Peek
  <2>4. line \in Lines /\ line.id = p.key /\ line.verdict # "OK"
    BY <1>3, <2>3
  <2>5. CB!InsertBody(p.key, line) /\ dmnOut' = CB!Batch(p.key, line)
    BY <2>1
  <2> HIDE DEF line
  <2>6. ClientTypes' /\ StatusOnce' /\ OkKnown'
    BY <1>2, <2>2, <2>3, <2>4, <2>5, BatchAppears
  <2>7. AckStands' /\ DmnStands'
    BY <1>1, <1>2, <2>2 DEF AckStands, DmnStands
  <2>8. QED
    BY <1>1, <1>2, <2>6, <2>7, ServerRests DEF FecInv, ClientOk
<1>6. QED
  BY <1>4, <1>5

LEMMA ClientInv ==
  ASSUME FecInv, Client
  PROVE  FecInv'
BY GeneratorInv, QuietClientInv, PrintInv, InsertInv DEF Client

-----------------------------------------------------------------------------
(* The server.                                                             *)

\* What a server's step has to show.
LEMMA ServerStepInv ==
  ASSUME FecInv, UNCHANGED <<benchMode, clientVars, sent>>, acked \subseteq acked',
         \A id \in IDs : ServerHas(id) => ServerHas(id)', ServerOk'
  PROVE  FecInv'
BY ClientRests DEF FecInv

\* The other workers stand where they stood.
LEMMA OthersStand ==
  ASSUME FecInv, NEW u \in Workers, UNCHANGED benchMode,
         wPC'[u] = wPC[u], wID'[u] = wID[u], wOut'[u] = wOut[u],
         \A id \in IDs : ServerHas(id) => ServerHas(id)'
  PROVE  WorkerStands(u)'
BY DEF FecInv, ServerOk, WorkerStands

LEMMA RunInv ==
  ASSUME FecInv,
         \/ \E id \in sent, i \in 0..DataShards : Receive(Datagram(id, i))
         \/ ReceivePanics \/ ServerShutdown
  PROVE  FecInv'
<1>1. ServerTypes /\ LineOnce /\ AckedKnown /\ HeldIsAnswered /\ sent \subseteq IDs
  BY DEF FecInv, ServerOk
<1>2. /\ UNCHANGED <<benchMode, clientVars, sent, acked, wPC, wID, wOut, sNextID, sBuffer, sPrinted>>
      /\ server' = "up" => server = "up"
  BY DEF Receive, ReceivePanics, ServerShutdown, workerVars, lineVars
<1>3. jobs' \in Seq(Jobs)
  <2>1. CASE \E id \in sent, i \in 0..DataShards : Receive(Datagram(id, i))
    <3>1. PICK id \in sent, i \in 0..DataShards : Receive(Datagram(id, i))
      BY <2>1
    <3>2. Datagram(id, i) \in Jobs
      BY <1>1 DEF Datagram, Jobs, ShardIDs
    <3>3. jobs' = jobs \/ jobs' = Append(jobs, Datagram(id, i))
      BY <3>1 DEF Receive
    <3>4. jobs \in Seq(Jobs)
      BY <1>1 DEF ServerTypes
    <3>5. Append(jobs, Datagram(id, i)) \in Seq(Jobs)
      BY <3>2, <3>4, AppendProperties
    <3>6. QED
      BY <3>3, <3>4, <3>5, Zenon
  <2>2. CASE ReceivePanics \/ ServerShutdown
    BY <1>1, <2>2 DEF ReceivePanics, ServerShutdown, ServerTypes
  <2>3. QED
    BY <2>1, <2>2
<1>4. ServerTypes' /\ LineOnce' /\ AckedKnown' /\ HeldIsAnswered'
  BY <1>1, <1>2, <1>3 DEF ServerTypes, LineOnce, AckedKnown, HeldIsAnswered, ServerHas
<1>5. \A id \in IDs : ServerHas(id) => ServerHas(id)'
  BY <1>2 DEF ServerHas
<1>6. \A w \in Workers : WorkerStands(w)'
  BY <1>2, <1>5, OthersStand
<1>7. QED
  BY <1>2, <1>4, <1>5, <1>6, ServerStepInv DEF ServerOk

LEMMA WorkerTakeInv ==
  ASSUME FecInv, NEW w \in Workers, WorkerTake(w)
  PROVE  FecInv'
<1>1. ServerTypes /\ LineOnce /\ AckedKnown /\ HeldIsAnswered
  BY DEF FecInv, ServerOk
<1>2. /\ wPC[w] = "idle" /\ jobs # <<>> /\ jobs' = Tail(jobs)
      /\ UNCHANGED <<benchMode, clientVars, sent, acked, server, wOut, sNextID, sBuffer, sPrinted>>
      /\ \/ /\ wPC' = [wPC EXCEPT ![w] = IF benchMode THEN "ack" ELSE "insert"]
            /\ wID' = [wID EXCEPT ![w] = Head(jobs).id]
         \/ wPC' = wPC /\ wID' = wID
  BY DEF WorkerTake, Goto, lineVars
<1>3. Tail(jobs) \in Seq(Jobs) /\ Head(jobs).id \in IDs
  <2>1. Tail(jobs) \in Seq(Jobs) /\ Head(jobs) \in Jobs
    BY <1>1, <1>2, HeadTailProperties DEF ServerTypes
  <2>2. QED
    BY <2>1 DEF Jobs
<1>4. \A id \in IDs : ServerHas(id) <=> ServerHas(id)'
  BY <1>2 DEF ServerHas
<1>5. ServerTypes'
  BY <1>1, <1>2, <1>3 DEF ServerTypes
<1>6. LineOnce' /\ AckedKnown'
  BY <1>1, <1>2 DEF LineOnce, AckedKnown, ServerHas
<1>7. \A u \in Workers : u # w => wPC'[u] = wPC[u] /\ wID'[u] = wID[u]
  BY <1>1, <1>2 DEF ServerTypes
<1>8. HeldIsAnswered'
  <2>1. \A u \in Workers : wPC[u] \in {"print", "ack"} => u # w
    BY <1>2
  <2>2. QED
    BY <1>1, <1>2, <1>4, <1>7, <2>1 DEF HeldIsAnswered
<1>9. ASSUME NEW u \in Workers PROVE WorkerStands(u)'
  <2>1. CASE u # w
    BY <1>2, <1>4, <1>7, <2>1, OthersStand
  <2>2. CASE wPC' = wPC /\ wID' = wID
    BY <1>2, <1>4, <2>2, OthersStand
  <2>3. CASE /\ u = w
             /\ wPC' = [wPC EXCEPT ![w] = IF benchMode THEN "ack" ELSE "insert"]
             /\ wID' = [wID EXCEPT ![w] = Head(jobs).id]
    <3>1. wID'[w] \in IDs /\ wPC'[w] = (IF benchMode THEN "ack" ELSE "insert")
      BY <1>1, <1>3, <2>3 DEF ServerTypes
    <3>2. wOut'[w] = <<>>
      BY <1>2 DEF FecInv, ServerOk, WorkerStands
    <3>3. QED
      BY <1>2, <2>3, <3>1, <3>2 DEF WorkerStands
  <2>4. QED
    BY <1>2, <2>1, <2>2, <2>3
<1>10. QED
  BY <1>2, <1>4, <1>5, <1>6, <1>8, <1>9, ServerStepInv DEF ServerOk

LEMMA WorkerAckInv ==
  ASSUME FecInv, NEW w \in Workers, WorkerAck(w)
  PROVE  FecInv'
<1>1. ServerTypes /\ LineOnce /\ AckedKnown /\ HeldIsAnswered /\ WorkerStands(w)
  BY DEF FecInv, ServerOk
<1>2. /\ wPC[w] = "ack" /\ wPC' = [wPC EXCEPT ![w] = "idle"] /\ wID' = [wID EXCEPT ![w] = None]
      /\ UNCHANGED <<benchMode, clientVars, sent, jobs, server, wOut, sNextID, sBuffer, sPrinted>>
      /\ acked' = acked \cup {wID[w]} \/ (server = "down" /\ acked' = acked)
  BY DEF WorkerAck, Goto, lineVars
<1>3. wID[w] \in IDs /\ wOut[w] = <<>> /\ (~benchMode => ServerHas(wID[w]))
  BY <1>1, <1>2 DEF WorkerStands
<1>4. \A id \in IDs : ServerHas(id) <=> ServerHas(id)'
  BY <1>2 DEF ServerHas
<1>5. ServerTypes'
  BY <1>1, <1>2, <1>3 DEF ServerTypes
<1>6. LineOnce' /\ AckedKnown'
  BY <1>1, <1>2, <1>3 DEF LineOnce, AckedKnown, ServerHas
<1>7. \A u \in Workers : u # w => wPC'[u] = wPC[u] /\ wID'[u] = wID[u]
  BY <1>1, <1>2 DEF ServerTypes
<1>8. HeldIsAnswered'
  <2>1. SUFFICES ASSUME server' = "up", NEW id \in IDs, ServerHas(id)'
                 PROVE  \/ id \in acked'
                        \/ \E u \in Workers : wID'[u] = id /\ wPC'[u] \in {"print", "ack"}
    BY DEF HeldIsAnswered
  <2>2. acked' = acked \cup {wID[w]}
    BY <1>2, <2>1
  <2>3. \/ id \in acked
        \/ \E u \in Workers : wID[u] = id /\ wPC[u] \in {"print", "ack"}
    BY <1>1, <1>2, <1>4, <2>1 DEF HeldIsAnswered
  <2>4. ASSUME NEW u \in Workers, wID[u] = id, wPC[u] \in {"print", "ack"}
        PROVE  \/ id \in acked'
               \/ \E v \in Workers : wID'[v] = id /\ wPC'[v] \in {"print", "ack"}
    BY <1>7, <2>2, <2>4
  <2>5. QED
    BY <2>2, <2>3, <2>4
<1>9. ASSUME NEW u \in Workers PROVE WorkerStands(u)'
  <2>1. CASE u # w
    BY <1>2, <1>4, <1>7, <2>1, OthersStand
  <2>2. CASE u = w
    <3>1. wPC'[w] = "idle" /\ wOut'[w] = <<>>
      BY <1>1, <1>2, <1>3 DEF ServerTypes
    <3>2. QED
      BY <2>2, <3>1 DEF WorkerStands
  <2>3. QED
    BY <2>1, <2>2
<1>10. acked \subseteq acked'
  BY <1>2
<1>11. QED
  BY <1>2, <1>4, <1>5, <1>6, <1>8, <1>9, <1>10, ServerStepInv DEF ServerOk

\* How many lines an id has changes with the screen and with one worker's batch.
LEMMA LineCount ==
  ASSUME ServerTypes, NEW w \in Workers, NEW batch \in Seq(IDs), NEW id \in IDs,
         DOMAIN wOut' = Workers, wOut'[w] = batch, \A u \in Workers : u # w => wOut'[u] = wOut[u]
  PROVE  /\ Entries(wOut', id) = Entries(wOut, id) - Occurs(wOut[w], id) + Occurs(batch, id)
         /\ Entries(wOut, id) \in Nat /\ Occurs(wOut[w], id) \in Nat /\ Occurs(batch, id) \in Nat
         /\ Occurs(sPrinted, id) \in Nat
<1>1. /\ DOMAIN wOut = Workers /\ IsFiniteSet(DOMAIN wOut) /\ DOMAIN wOut' = DOMAIN wOut
      /\ \A u \in DOMAIN wOut : wOut[u] \in Seq(IDs)
      /\ sPrinted \in Seq(IDs)
  BY FecParams DEF ServerTypes
<1>2. /\ Entries(wOut', id) = Entries(wOut, id) - Occurs(wOut[w], id) + Occurs(batch, id)
      /\ Entries(wOut, id) \in Nat
  BY <1>1, EntriesExcept
<1>3. Occurs(wOut[w], id) \in Nat /\ Occurs(batch, id) \in Nat /\ Occurs(sPrinted, id) \in Nat
  BY <1>1, OccursNat
<1>4. QED
  BY <1>2, <1>3

LEMMA WorkerPrintInv ==
  ASSUME FecInv, NEW w \in Workers, WorkerPrint(w)
  PROVE  FecInv'
<1> DEFINE line == Head(wOut[w])
           rest == Tail(wOut[w])
<1>1. ServerTypes /\ LineOnce /\ AckedKnown /\ HeldIsAnswered /\ WorkerStands(w)
  BY DEF FecInv, ServerOk
<1>2. wOut[w] \in Seq(IDs) /\ wOut[w] # <<>> /\ sPrinted \in Seq(IDs)
  BY <1>1 DEF ServerTypes, WorkerPrint, WorkerStands
<1>3. line \in IDs /\ rest \in Seq(IDs)
  BY <1>2, HeadTailProperties
<1>4. /\ wPC[w] = "print" /\ sPrinted' = Append(sPrinted, line)
      /\ wOut' = [wOut EXCEPT ![w] = rest]
      /\ wPC' = [wPC EXCEPT ![w] = IF wOut'[w] = <<>> THEN "ack" ELSE "print"]
      /\ UNCHANGED <<benchMode, clientVars, sent, acked, jobs, server, wID, sNextID, sBuffer>>
  BY DEF WorkerPrint, Goto
<1>5. /\ wOut'[w] = rest /\ wOut' \in [Workers -> Seq(IDs)] /\ DOMAIN wOut' = Workers
      /\ \A u \in Workers : u # w => wOut'[u] = wOut[u]
  BY <1>1, <1>3, <1>4 DEF ServerTypes
<1>6. ASSUME NEW id \in IDs
      PROVE  Occurs(sPrinted', id) + Entries(wOut', id) = IF id < sNextID' THEN 1 ELSE 0
  <2>1. /\ Entries(wOut', id) = Entries(wOut, id) - Occurs(wOut[w], id) + Occurs(rest, id)
        /\ Entries(wOut, id) \in Nat /\ Occurs(wOut[w], id) \in Nat /\ Occurs(rest, id) \in Nat
        /\ Occurs(sPrinted, id) \in Nat
    BY <1>1, <1>3, <1>5, LineCount
  <2>2. Occurs(rest, id) = Occurs(wOut[w], id) - IF line = id THEN 1 ELSE 0
    BY <1>2, OccursTail
  <2>3. Occurs(Append(sPrinted, line), id) = Occurs(sPrinted, id) + IF line = id THEN 1 ELSE 0
    BY <1>2, <1>3, OccursAppend
  <2>4. Occurs(sPrinted, id) + Entries(wOut, id) = (IF id < sNextID THEN 1 ELSE 0)
    BY <1>1 DEF LineOnce
  <2>5. Occurs(sPrinted', id) = Occurs(Append(sPrinted, line), id) /\ sNextID' = sNextID
    BY <1>4
  <2> HIDE DEF line, rest
  <2>6. QED
    BY <2>1, <2>2, <2>3, <2>4, <2>5
<1>7. Append(sPrinted, line) \in Seq(IDs)
  BY <1>2, <1>3, AppendProperties
<1> HIDE DEF line, rest
<1>8. /\ wPC' \in [Workers -> {"idle", "insert", "print", "ack"}]
      /\ wPC'[w] = (IF rest = <<>> THEN "ack" ELSE "print")
      /\ \A u \in Workers : u # w => wPC'[u] = wPC[u]
  BY <1>1, <1>4, <1>5 DEF ServerTypes
<1>9. ServerTypes'
  BY <1>1, <1>4, <1>7, <1>5, <1>8 DEF ServerTypes
<1>10. \A id \in IDs : ServerHas(id) <=> ServerHas(id)'
  BY <1>4 DEF ServerHas
<1>11. LineOnce' /\ AckedKnown'
  BY <1>1, <1>4, <1>6, <1>9, <1>10 DEF LineOnce, AckedKnown, ServerTypes
<1>12. HeldIsAnswered'
  <2>1. \A u \in Workers : wPC[u] \in {"print", "ack"} => wPC'[u] \in {"print", "ack"}
    BY <1>8
  <2>2. QED
    BY <1>1, <1>4, <1>10, <2>1 DEF HeldIsAnswered
<1>13. ASSUME NEW u \in Workers PROVE WorkerStands(u)'
  <2>1. CASE u # w
    BY <1>4, <1>5, <1>8, <1>10, <2>1, OthersStand
  <2>2. CASE u = w
    <3>1. wID[w] \in IDs /\ (~benchMode => ServerHas(wID[w]))
      BY <1>1, <1>4 DEF WorkerStands
    <3>2. QED
      BY <1>4, <1>5, <1>8, <1>10, <2>2, <3>1 DEF WorkerStands
  <2>3. QED
    BY <2>1, <2>2
<1>14. QED
  BY <1>4, <1>9, <1>10, <1>11, <1>12, <1>13, ServerStepInv DEF ServerOk

\* What Insert does with the server's line of an id.
LEMMA SInsertHere ==
  ASSUME NEW id \in IDs, id \in SBP!Ids, SBP!Waiting, SBP!InsertBody(id, id)
  PROVE  /\ SBP!Waiting'
         /\ sNextID' \in sNextID..TotalPackets+1
         /\ \A k \in Int : (k < sNextID' \/ k \in DOMAIN sBuffer')
                            <=> (k < sNextID \/ k \in DOMAIN sBuffer \/ k = id)
         /\ \A k \in DOMAIN sBuffer' : \/ k \in DOMAIN sBuffer /\ sBuffer'[k] = sBuffer[k]
                                       \/ k = id /\ sBuffer'[k] = id
         /\ SBP!Batch(id, id) \in Seq(IDs)
         /\ Len(SBP!Batch(id, id)) = sNextID' - sNextID
         /\ \A i \in 1..Len(SBP!Batch(id, id)) :
               \/ sNextID + i - 1 = id /\ SBP!Batch(id, id)[i] = id
               \/ /\ sNextID + i - 1 \in DOMAIN sBuffer
                  /\ SBP!Batch(id, id)[i] = sBuffer[sNextID + i - 1]
<1>0. 1 \in Nat /\ 1 \in Nat \ {0} /\ TotalPackets \in Nat /\ 1 <= TotalPackets
  BY FecParams
<1>1. SBP!Waiting'
  BY <1>0, SBP!InsertBodyFacts
<1>2. sNextID' \in sNextID..TotalPackets+1
  BY <1>0, SBP!InsertBodyFacts
<1>3. \A k \in Int : (k < sNextID' \/ k \in DOMAIN sBuffer')
                      <=> (k < sNextID \/ k \in DOMAIN sBuffer \/ k = id)
  BY <1>0, SBP!InsertBodyFacts
<1>4. \A k \in DOMAIN sBuffer' : \/ k \in DOMAIN sBuffer /\ sBuffer'[k] = sBuffer[k]
                                 \/ k = id /\ sBuffer'[k] = id
  BY <1>0, SBP!InsertBodyFacts
<1>5. SBP!Batch(id, id) \in Seq(IDs) /\ Len(SBP!Batch(id, id)) = sNextID' - sNextID
  BY <1>0, SBP!InsertBodyFacts
<1>6. \A i \in 1..Len(SBP!Batch(id, id)) :
         \/ sNextID + i - 1 = id /\ SBP!Batch(id, id)[i] = id
         \/ /\ sNextID + i - 1 \in DOMAIN sBuffer
            /\ SBP!Batch(id, id)[i] = sBuffer[sNextID + i - 1]
  BY <1>0, SBP!BatchValues
<1>7. QED
  BY <1>1, <1>2, <1>3, <1>4, <1>5, <1>6

LEMMA ServerLineFacts ==
  ASSUME ServerTypes, NEW id \in IDs, SB!InsertBody(id, id)
  PROVE  /\ sNextID' \in sNextID..TotalPackets+1 /\ DOMAIN sBuffer' \subseteq IDs
         /\ \A k \in DOMAIN sBuffer' : sBuffer'[k] = k /\ k > sNextID'
         /\ \A k \in IDs : ServerHas(k)' <=> ServerHas(k) \/ k = id
         /\ SB!Batch(id, id) \in Seq(IDs)
         /\ Len(SB!Batch(id, id)) = sNextID' - sNextID
         /\ \A i \in 1..Len(SB!Batch(id, id)) : SB!Batch(id, id)[i] = sNextID + i - 1
<1> DEFINE batch == SB!Batch(id, id)
<1>1. /\ sNextID \in 1..TotalPackets+1 /\ DOMAIN sBuffer \subseteq IDs
      /\ \A k \in DOMAIN sBuffer : sBuffer[k] = k /\ k > sNextID
  BY DEF ServerTypes
<1>2. id \in SBP!Ids
  BY FecParams
<1>3. SBP!Waiting
  BY <1>1, FecParams DEF SBP!Waiting, SBP!Ids, IDs
<1>4. SBP!InsertBody(id, id)
  BY DEF SB!InsertBody, SBP!InsertBody, SB!Filled, SBP!Filled, SB!RunEnd, SBP!RunEnd
<1>5. batch = SBP!Batch(id, id)
  BY DEF SB!Batch, SBP!Batch, SB!Filled, SBP!Filled, SB!RunEnd, SBP!RunEnd
<1> HIDE DEF batch
<1>6. /\ SBP!Waiting'
      /\ sNextID' \in sNextID..TotalPackets+1
      /\ \A k \in Int : (k < sNextID' \/ k \in DOMAIN sBuffer')
                         <=> (k < sNextID \/ k \in DOMAIN sBuffer \/ k = id)
      /\ \A k \in DOMAIN sBuffer' : \/ k \in DOMAIN sBuffer /\ sBuffer'[k] = sBuffer[k]
                                    \/ k = id /\ sBuffer'[k] = id
      /\ batch \in Seq(IDs) /\ Len(batch) = sNextID' - sNextID
      /\ \A i \in 1..Len(batch) : \/ sNextID + i - 1 = id /\ batch[i] = id
                                  \/ /\ sNextID + i - 1 \in DOMAIN sBuffer
                                     /\ batch[i] = sBuffer[sNextID + i - 1]
  BY <1>2, <1>3, <1>4, <1>5, SInsertHere
<1>7. DOMAIN sBuffer' \subseteq IDs /\ \A k \in DOMAIN sBuffer' : sBuffer'[k] = k
  BY <1>1, <1>6
<1>8. \A k \in DOMAIN sBuffer' : k > sNextID'
  BY <1>6 DEF SBP!Waiting
<1>9. \A i \in 1..Len(batch) : batch[i] = sNextID + i - 1
  BY <1>1, <1>6
<1>10. \A k \in IDs : ServerHas(k)' <=> ServerHas(k) \/ k = id
  <2>1. \A k \in IDs : k \in Int
    BY FecParams
  <2>2. QED
    BY <1>6, <2>1 DEF ServerHas
<1>11. QED
  BY <1>6, <1>7, <1>8, <1>9, <1>10 DEF batch

LEMMA WorkerInsertInv ==
  ASSUME FecInv, NEW w \in Workers, WorkerInsert(w)
  PROVE  FecInv'
<1> DEFINE id == wID[w]
           batch == SB!Batch(id, id)
<1>1. ServerTypes /\ LineOnce /\ AckedKnown /\ HeldIsAnswered /\ WorkerStands(w)
  BY DEF FecInv, ServerOk
<1>2. /\ wPC[w] = "insert" /\ SB!InsertBody(id, id) /\ wOut' = [wOut EXCEPT ![w] = batch]
      /\ wPC' = [wPC EXCEPT ![w] = IF wOut'[w] = <<>> THEN "ack" ELSE "print"]
      /\ UNCHANGED <<benchMode, clientVars, sent, acked, jobs, server, wID, sPrinted>>
  BY DEF WorkerInsert, Goto, ServerLines
<1>3. id \in IDs /\ wOut[w] = <<>>
  BY <1>1, <1>2 DEF WorkerStands
<1>4. /\ sNextID' \in sNextID..TotalPackets+1 /\ DOMAIN sBuffer' \subseteq IDs
      /\ \A k \in DOMAIN sBuffer' : sBuffer'[k] = k /\ k > sNextID'
      /\ \A k \in IDs : ServerHas(k)' <=> ServerHas(k) \/ k = id
      /\ batch \in Seq(IDs) /\ Len(batch) = sNextID' - sNextID
      /\ \A i \in 1..Len(batch) : batch[i] = sNextID + i - 1
  BY <1>1, <1>2, <1>3, ServerLineFacts
<1> HIDE DEF batch
<1>5. /\ wOut'[w] = batch /\ wOut' \in [Workers -> Seq(IDs)] /\ DOMAIN wOut' = Workers
      /\ \A u \in Workers : u # w => wOut'[u] = wOut[u]
  BY <1>1, <1>2, <1>4 DEF ServerTypes
<1>6. sNextID \in Int /\ sNextID' \in Int /\ sNextID <= sNextID' /\ sNextID' \in 1..TotalPackets+1
  BY <1>1, <1>4, FecParams DEF ServerTypes
<1>7. /\ wPC' \in [Workers -> {"idle", "insert", "print", "ack"}]
      /\ wPC'[w] = (IF batch = <<>> THEN "ack" ELSE "print")
      /\ \A u \in Workers : u # w => wPC'[u] = wPC[u]
  BY <1>1, <1>2, <1>5 DEF ServerTypes
<1>8. ServerTypes'
  BY <1>1, <1>2, <1>4, <1>5, <1>6, <1>7 DEF ServerTypes
<1>9. ASSUME NEW x \in IDs
      PROVE  Occurs(sPrinted', x) + Entries(wOut', x) = IF x < sNextID' THEN 1 ELSE 0
  <2>1. /\ Entries(wOut', x) = Entries(wOut, x) - Occurs(wOut[w], x) + Occurs(batch, x)
        /\ Entries(wOut, x) \in Nat /\ Occurs(batch, x) \in Nat /\ Occurs(sPrinted, x) \in Nat
    BY <1>1, <1>4, <1>5, LineCount
  <2>2. Occurs(wOut[w], x) = 0
    BY <1>3, OccursEmpty
  <2>3. x \in Int
    BY FecParams
  <2>4. Occurs(batch, x) = IF sNextID <= x /\ x < sNextID + Len(batch) THEN 1 ELSE 0
    BY <1>4, <1>6, <2>3, OccursRun
  <2>5. sNextID + Len(batch) = sNextID'
    <3>1. Len(batch) = sNextID' - sNextID
      BY <1>4
    <3>2. \A m, n \in Int : m + (n - m) = n
      OBVIOUS
    <3>3. QED
      BY <1>6, <3>1, <3>2, Zenon
  <2>6. Occurs(sPrinted, x) + Entries(wOut, x) = (IF x < sNextID THEN 1 ELSE 0)
    BY <1>1 DEF LineOnce
  <2>7. Occurs(sPrinted', x) = Occurs(sPrinted, x)
    BY <1>2
  <2>8. Occurs(sPrinted', x) + Entries(wOut', x)
           = (IF x < sNextID THEN 1 ELSE 0) + Occurs(batch, x)
    BY <2>1, <2>2, <2>6, <2>7
  <2>9. Occurs(batch, x) = IF sNextID <= x /\ x < sNextID' THEN 1 ELSE 0
    BY <2>4, <2>5
  <2>10. QED
    BY <1>6, <2>3, <2>8, <2>9
<1>10. LineOnce' /\ AckedKnown'
  BY <1>1, <1>2, <1>4, <1>9 DEF LineOnce, AckedKnown, ServerTypes
<1>11. HeldIsAnswered'
  <2>1. wID' = wID /\ acked' = acked /\ server' = server
    BY <1>2
  <2>2. wPC'[w] \in {"print", "ack"}
    BY <1>7
  <2>3. \A u \in Workers : wPC[u] \in {"print", "ack"} => wPC'[u] \in {"print", "ack"}
    BY <1>7, <2>2
  <2>4. QED
    BY <1>1, <1>4, <2>1, <2>2, <2>3 DEF HeldIsAnswered
<1>12. ASSUME NEW u \in Workers PROVE WorkerStands(u)'
  <2>1. CASE u # w
    BY <1>2, <1>4, <1>5, <1>7, <2>1, OthersStand
  <2>2. CASE u = w
    <3>1. wID'[w] = id /\ ServerHas(id)'
      BY <1>2, <1>3, <1>4
    <3>2. QED
      BY <1>3, <1>5, <1>7, <2>2, <3>1 DEF WorkerStands, ServerHas
  <2>3. QED
    BY <2>1, <2>2
<1>13. QED
  BY <1>2, <1>4, <1>8, <1>10, <1>11, <1>12, ServerStepInv DEF ServerOk

-----------------------------------------------------------------------------
(* The theorems.                                                           *)

LEMMA FecStep == FecInv /\ [Next]_vars => FecInv'
<1> SUFFICES ASSUME FecInv, [Next]_vars PROVE FecInv'
  OBVIOUS
<1>1. CASE Client
  BY <1>1, ClientInv
<1>2. CASE \/ \E id \in sent, i \in 0..DataShards : Receive(Datagram(id, i))
           \/ ReceivePanics \/ ServerShutdown
  BY <1>2, RunInv
<1>3. CASE \E w \in Workers : Worker(w)
  BY <1>3, WorkerTakeInv, WorkerInsertInv, WorkerPrintInv, WorkerAckInv DEF Worker
<1>4. CASE UNCHANGED vars
  <2>1. UNCHANGED <<benchMode, clientVars, sent, acked, serverVars>>
    BY <1>4 DEF vars
  <2>2. ServerOk'
    BY <2>1, ServerRests
  <2>3. \A id \in IDs : ServerHas(id) => ServerHas(id)'
    BY <2>1 DEF ServerHas, serverVars, lineVars
  <2>4. QED
    BY <2>1, <2>2, <2>3, ServerStepInv
<1>5. QED
  BY <1>1, <1>2, <1>3, <1>4 DEF Next

\* The inductive invariant holds throughout.
THEOREM FecCorrect == Spec => []FecInv
BY InitFec, FecStep, PTL DEF Spec

\* One status line per packet on the client, one line per packet on the server,
\* whatever the network repeats and however the threads interleave
\* (client.go:258-260, 285-287, server.go:146-156).
THEOREM FecLines == Spec => []OneLineEach
<1>1. FecInv => OneLineEach
  BY DEF FecInv, ClientOk, ServerOk, OneLineEach
<1>2. QED
  BY <1>1, FecCorrect, PTL

\* No OK, printed or waiting, for a packet that the server does not have
\* (client.go:252-260, server.go:154-163).
THEOREM FecOkIsTrue == Spec => []OkIsTrue
<1>1. FecInv => OkIsTrue
  BY DEF FecInv, ClientOk, OkKnown, OkIsTrue, Line
<1>2. QED
  BY <1>1, FecCorrect, PTL

\* No packet on a running server without an ACK, sent or about to be
\* (server.go:146-164).
THEOREM FecHeldIsAnswered == Spec => []HeldIsAnswered
<1>1. FecInv => HeldIsAnswered
  BY DEF FecInv, ServerOk
<1>2. QED
  BY <1>1, FecCorrect, PTL

-----------------------------------------------------------------------------
(* The encoders: shards and their parity *)

LEMMA BlockIs ==
  ASSUME NEW L, L \subseteq Nat, NEW p \in Blocks(L)
  PROVE  p.size \in L /\ p.ones \subseteq 1..p.size /\ p = [size |-> p.size, ones |-> p.ones]
<1>1. PICK n \in L : p \in [size : {n}, ones : SUBSET (1..n)]
  BY DEF Blocks
<1>2. QED
  BY <1>1

\* Enough shards of that size for the whole payload, and none too many.
LEMMA SizeIs ==
  ASSUME NEW n \in Nat
  PROVE  /\ ShardSize(n) \in Nat /\ n <= dataShards * ShardSize(n)
         /\ ShardSize(n) = 0 <=> n = 0
<1> DEFINE D == dataShards
           s == ShardSize(n)
<1>1. D \in Nat /\ D >= 1
  BY CoderAssumption
<1>2. n + D - 1 \in Nat
  BY <1>1
<1>3. s \in Nat /\ D * s <= n + D - 1 /\ n + D - 1 < D * s + D
  <2>1. ASSUME NEW a \in Nat PROVE a \div D \in Nat /\ a = D * (a \div D) + (a % D) /\ a % D \in 0..D-1
    BY <1>1
  <2>2. QED
    BY <1>1, <1>2, <2>1 DEF ShardSize
<1>4. D * s \in Nat
  BY <1>1, <1>3
<1>5. n <= D * s
  BY <1>1, <1>3, <1>4
<1>6. s = 0 => n = 0
  BY <1>1, <1>5
<1>7. n = 0 => s = 0
  <2>1. SUFFICES ASSUME n = 0, s >= 1 PROVE FALSE
    BY <1>3
  <2>2. D * s >= D
    BY <1>1, <1>3, <2>1
  <2>3. QED
    BY <1>1, <1>3, <1>4, <2>1, <2>2
<1>8. QED
  BY <1>3, <1>5, <1>6, <1>7

\* The shards of a payload: as many as there are data shards, of one size.
LEMMA SplitIs ==
  ASSUME NEW p \in Blocks(0..MaxLength)
  PROVE  LET S == Split(p)
         IN  /\ S \in Seq([size : {ShardSize(p.size)}, ones : SUBSET (1..ShardSize(p.size))])
             /\ Len(S) = dataShards /\ 1 \in 1..dataShards
             /\ \A i \in 1..dataShards : /\ S[i].size = ShardSize(p.size)
                                         /\ S[i].ones = {b \in 1..ShardSize(p.size) :
                                               (i-1) * ShardSize(p.size) + b \in p.ones}
<1> DEFINE s == ShardSize(p.size)
           S == Split(p)
<1>1. dataShards \in Nat /\ 1 \in 1..dataShards
  BY CoderAssumption
<1>2. S = [i \in 1..dataShards |->
            [size |-> s, ones |-> {b \in 1..s : (i-1) * s + b \in p.ones}]]
  BY DEF Split
<1> HIDE DEF s, S
<1>3. S \in [1..dataShards -> [size : {s}, ones : SUBSET (1..s)]]
  BY <1>2
<1>4. S \in Seq([size : {s}, ones : SUBSET (1..s)]) /\ Len(S) = dataShards
  <2>1. ASSUME NEW E, NEW n \in Nat, NEW f \in [1..n -> E] PROVE f \in Seq(E) /\ Len(f) = n
    OBVIOUS
  <2>2. QED
    BY <1>1, <1>3, <2>1
<1>5. \A i \in 1..dataShards : /\ S[i].size = s
                               /\ S[i].ones = {b \in 1..s : (i-1) * s + b \in p.ones}
  BY <1>2
<1>6. QED
  BY <1>1, <1>4, <1>5 DEF s, S

\* The encoded shards.
Shards(s) == [size : {s}, ones : SUBSET (1..s)]

LEMMA EncodedIs ==
  ASSUME NEW p \in Blocks(0..MaxLength)
  PROVE  LET S == Split(p)
             W == WithParity(S)
             s == ShardSize(p.size)
         IN  /\ W \in [Indices -> Shards(s)] /\ s \in Nat
             /\ \A i \in 1..dataShards : i \in Indices /\ W[i] = S[i]
             /\ dataShards + 1 \in Indices
             /\ W[dataShards + 1] = XorOf(S, 1..dataShards, s)
<1> DEFINE S == Split(p)
           W == WithParity(S)
           s == ShardSize(p.size)
           x == XorOf(S, 1..dataShards, s)
<1>1. S \in Seq(Shards(s)) /\ Len(S) = dataShards /\ S[1].size = s /\ dataShards \in Nat \ {0}
  BY SplitIs, CoderAssumption DEF Shards
<1>2. W = Append(S, x)
  BY <1>1 DEF WithParity
<1>3. x \in Shards(s)
  BY DEF XorOf, Shards
<1>4. p.size \in Nat
  BY BlockIs, CoderAssumption
<1>5. s \in Nat
  BY <1>4, SizeIs
<1> HIDE DEF S, W, s, x
<1>6. /\ W \in Seq(Shards(s)) /\ Len(W) = dataShards + 1 /\ W[dataShards + 1] = x
      /\ \A i \in 1..dataShards : W[i] = S[i]
  BY <1>1, <1>2, <1>3, AppendProperties
<1>7. W \in [Indices -> Shards(s)]
  BY <1>6 DEF Indices
<1>8. dataShards + 1 \in Indices /\ \A i \in 1..dataShards : i \in Indices
  BY <1>1 DEF Indices
<1>9. QED
  BY <1>5, <1>6, <1>7, <1>8 DEF S, W, s, x

\* What one more element does to a parity.
LEMMA OddOrEven ==
  ASSUME NEW n \in Nat
  PROVE  /\ n % 2 \in {0, 1}
         /\ n % 2 = 1 <=> (n + 1) % 2 = 0
OBVIOUS

LEMMA IndicesFinite ==
  /\ IsFiniteSet(Indices)
  /\ \A T \in SUBSET Indices : IsFiniteSet(T) /\ Cardinality(T) \in Nat
<1>1. IsFiniteSet(Indices)
  <2>1. 1 \in Int /\ dataShards + 1 \in Int
    BY CoderAssumption
  <2>2. QED
    BY <2>1, FS_Interval DEF Indices
<1>2. QED
  BY <1>1, FS_Subset, FS_CardinalityType

\* The bit b of the encoded shards is set in an even number of them.
LEMMA EvenBits ==
  ASSUME NEW p \in Blocks(0..MaxLength), NEW b
  PROVE  Cardinality({i \in Indices : b \in WithParity(Split(p))[i].ones}) % 2 = 0
<1> DEFINE S == Split(p)
           W == WithParity(S)
           s == ShardSize(p.size)
           D == dataShards
           T == {i \in Indices : b \in W[i].ones}
           Q == {i \in 1..D : b \in S[i].ones}
<1>1. /\ W \in [Indices -> Shards(s)]
      /\ \A i \in 1..D : i \in Indices /\ W[i] = S[i]
      /\ D + 1 \in Indices /\ W[D + 1] = XorOf(S, 1..D, s)
  BY EncodedIs
<1>2. D \in Nat /\ Indices = (1..D) \cup {D + 1} /\ D + 1 \notin 1..D
  BY CoderAssumption DEF Indices
<1>3. \A i \in 1..D : S[i].ones \subseteq 1..s
  BY <1>1 DEF Shards
<1>4. W[D + 1].ones = {c \in 1..s : Cardinality({i \in 1..D : c \in S[i].ones}) % 2 = 1}
  BY <1>1 DEF XorOf
<1> SUFFICES Cardinality(T) % 2 = 0
  OBVIOUS
<1> HIDE DEF S, W, s, D
<1>5. CASE b \in 1..s
  <2>1. b \in W[D + 1].ones <=> Cardinality(Q) % 2 = 1
    BY <1>4, <1>5
  <2>2. Q \subseteq Indices /\ D + 1 \notin Q
    BY <1>1, <1>2
  <2>3. IsFiniteSet(Q) /\ Cardinality(Q) \in Nat
    BY <2>2, IndicesFinite
  <2>4. CASE Cardinality(Q) % 2 = 1
    <3>1. T = Q \cup {D + 1}
      BY <1>1, <1>2, <2>1, <2>4
    <3>2. Cardinality(T) = Cardinality(Q) + 1
      BY <3>1, <2>2, <2>3, FS_AddElement
    <3> HIDE DEF T, Q
    <3>3. QED
      BY <3>2, <2>3, <2>4, OddOrEven
  <2>5. CASE Cardinality(Q) % 2 # 1
    <3>1. T = Q
      BY <1>1, <1>2, <2>1, <2>5
    <3> HIDE DEF T, Q
    <3>2. QED
      BY <3>1, <2>3, <2>5, OddOrEven
  <2>6. QED
    BY <2>4, <2>5
<1>6. CASE b \notin 1..s
  <2>1. T = {}
    BY <1>1, <1>2, <1>3, <1>4, <1>6
  <2>2. Cardinality(T) = 0
    BY <2>1, FS_EmptySet
  <2> HIDE DEF T
  <2>3. QED
    BY <2>2
<1>7. QED
  BY <1>5, <1>6

\* The XOR of all shards but one is that one.
LEMMA OneMissing ==
  ASSUME NEW p \in Blocks(0..MaxLength), NEW g \in Indices, NEW R,
         \A i \in Indices \ {g} : R[i] = WithParity(Split(p))[i]
  PROVE  XorOf(R, Indices \ {g}, ShardSize(p.size)) = WithParity(Split(p))[g]
<1> DEFINE W == WithParity(Split(p))
           s == ShardSize(p.size)
           O(c) == {i \in Indices \ {g} : c \in R[i].ones}
<1>1. W[g] \in Shards(s)
  BY EncodedIs
<1>2. W[g].size = s /\ W[g].ones \subseteq 1..s /\ W[g] = [size |-> s, ones |-> W[g].ones]
  BY <1>1 DEF Shards
<1>3. ASSUME NEW c \in 1..s
      PROVE  Cardinality(O(c)) % 2 = 1 <=> c \in W[g].ones
  <2> DEFINE T == {i \in Indices : c \in W[i].ones}
  <2>1. Cardinality(T) % 2 = 0
    BY EvenBits
  <2> HIDE DEF W
  <2>2. O(c) = T \ {g}
    BY DEF W
  <2>3. IsFiniteSet(O(c)) /\ Cardinality(O(c)) \in Nat /\ g \notin O(c)
    BY IndicesFinite
  <2>4. CASE g \in T
    <3>1. T = O(c) \cup {g}
      BY <2>2, <2>4
    <3>2. Cardinality(T) = Cardinality(O(c)) + 1
      BY <3>1, <2>3, FS_AddElement
    <3>3. QED
      BY <3>2, <2>1, <2>3, <2>4, OddOrEven
  <2>5. CASE g \notin T
    <3>1. O(c) = T
      BY <2>2, <2>5
    <3>2. Cardinality(O(c)) % 2 = 0
      BY <3>1, <2>1
    <3>3. c \notin W[g].ones
      BY <2>5
    <3>4. QED
      BY <3>2, <3>3
  <2>6. QED
    BY <2>4, <2>5
<1>4. XorOf(R, Indices \ {g}, s) = [size |-> s, ones |-> {c \in 1..s : Cardinality(O(c)) % 2 = 1}]
  BY DEF XorOf
<1>5. {c \in 1..s : Cardinality(O(c)) % 2 = 1} = W[g].ones
  BY <1>2, <1>3
<1>6. QED
  BY <1>2, <1>4, <1>5

\* The data shards end to end are the payload.
LEMMA JoinIs ==
  ASSUME NEW p \in Blocks(0..MaxLength)
  PROVE  Joined(WithParity(Split(p)), p.size) = p
<1> DEFINE S == Split(p)
           W == WithParity(S)
           s == ShardSize(p.size)
           D == dataShards
           Part(i) == {(i-1) * s + b : b \in S[i].ones}
           All == UNION {Part(i) : i \in 1..D}
<1>1. p.size \in Nat /\ p.ones \subseteq 1..p.size /\ p = [size |-> p.size, ones |-> p.ones]
  <2>1. 0..MaxLength \subseteq Nat
    BY CoderAssumption
  <2>2. QED
    BY <2>1, BlockIs
<1>2. /\ D \in Nat \ {0} /\ 1 \in 1..D /\ W[1].size = s
      /\ \A i \in 1..D : W[i] = S[i] /\ S[i].ones = {b \in 1..s : (i-1) * s + b \in p.ones}
  BY SplitIs, EncodedIs, CoderAssumption
<1>3. s \in Nat /\ p.size <= D * s
  BY <1>1, SizeIs
<1>4. Joined(W, p.size) = [size |-> p.size, ones |-> All \cap 1..p.size]
  <2> DEFINE PartOf(i) == {(i-1) * W[1].size + b : b \in W[i].ones}
  <2>1. Joined(W, p.size) =
          [size |-> p.size, ones |-> (UNION {PartOf(i) : i \in 1..D}) \cap 1..p.size]
    BY DEF Joined
  <2>2. \A i \in 1..D : PartOf(i) = Part(i)
    BY <1>2
  <2> HIDE DEF PartOf, Part
  <2>3. {PartOf(i) : i \in 1..D} = {Part(i) : i \in 1..D}
    BY <2>2
  <2>4. QED
    BY <2>1, <2>3, Zenon
<1> HIDE DEF S, W, s, D
<1>5. ASSUME NEW x \in All PROVE x \in p.ones
  BY <1>2, <1>5
<1>6. ASSUME NEW x \in p.ones PROVE x \in All
  <2> DEFINE T == {j \in 1..D : x <= j * s}
  <2>1. x \in Int /\ 1 <= x /\ x <= D * s
    <3>1. x \in 1..p.size /\ D * s \in Nat
      BY <1>1, <1>2, <1>3, <1>6
    <3>2. QED
      BY <3>1, <1>1, <1>3
  <2>2. T \subseteq Nat /\ D \in T
    BY <1>2, <2>1
  <2>3. PICK i \in T : \A j \in T : i <= j
    <3> HIDE DEF T
    <3>1. QED
      BY <2>2, LeastNatural
  <2>4. i \in 1..D /\ i \in Nat /\ x <= i * s
    BY <1>2, <2>3
  <2>5. (i - 1) * s < x
    <3>1. CASE i = 1
      BY <1>3, <2>1, <3>1
    <3>2. CASE i # 1
      <4>1. i - 1 \in 1..D /\ ~(i <= i - 1)
        BY <1>2, <2>4, <3>2
      <4>2. ~(x <= (i - 1) * s)
        BY <2>3, <4>1
      <4>3. (i - 1) * s \in Int
        BY <1>3, <2>4
      <4>4. QED
        BY <2>1, <4>2, <4>3
    <3>3. QED
      BY <3>1, <3>2
  <2>6. (i - 1) * s \in Int /\ i * s = (i - 1) * s + s
    BY <1>3, <2>4
  <2> DEFINE b == x - (i - 1) * s
  <2>7. b \in 1..s /\ (i - 1) * s + b = x
    BY <1>3, <2>1, <2>4, <2>5, <2>6
  <2> HIDE DEF b
  <2>8. b \in S[i].ones
    BY <1>2, <1>6, <2>4, <2>7
  <2>9. QED
    BY <2>4, <2>7, <2>8
<1>7. All \cap 1..p.size = p.ones
  BY <1>1, <1>5, <1>6
<1>8. QED
  BY <1>1, <1>4, <1>7 DEF S, W

\* What arrives of the encoded shards W of one size.
Arrived(W, lost, empty) ==
    [i \in Indices |-> IF i \notin lost THEN W[i] ELSE IF i \in empty THEN Empty ELSE Nil]

\* What is known of the shards W, of size s, and of those R that arrive.
ArrivalFacts(W, R, s, lost) ==
    /\ R \in [Indices -> {R[i] : i \in Indices}] /\ Len(R) = dataShards + 1
    /\ 1..Len(R) = Indices
    /\ s \in Nat \ {0} /\ W = [i \in Indices |-> W[i]]
    /\ \A i \in Indices : W[i].size = s /\ W[i] # Nil
    /\ \A i \in Indices \ lost : R[i] = W[i] /\ ~IsGone(R[i])
    /\ \A i \in lost : i \in Indices /\ IsGone(R[i]) /\ R[i] \in {Nil, Empty}
    /\ {i \in Indices : IsGone(R[i])} = lost
    /\ 1 \in Indices /\ 2 \in Indices

LEMMA ArrivedIs ==
  ASSUME NEW p \in Blocks(0..MaxLength), p.size > 0,
         NEW lost \in SUBSET Indices, NEW empty \in SUBSET Indices
  PROVE  ArrivalFacts(WithParity(Split(p)), Arrived(WithParity(Split(p)), lost, empty),
                      ShardSize(p.size), lost)
<1> DEFINE W == WithParity(Split(p))
           R == Arrived(W, lost, empty)
           s == ShardSize(p.size)
<1>1. dataShards \in Nat \ {0} /\ 1 \in Indices /\ 2 \in Indices /\ Indices = 1..dataShards+1
  BY CoderAssumption DEF Indices
<1>2. W \in [Indices -> Shards(s)]
  BY EncodedIs
<1>3. s \in Nat \ {0}
  <2>1. 0..MaxLength \subseteq Nat
    BY CoderAssumption
  <2>2. p.size \in Nat
    BY <2>1, BlockIs
  <2>3. QED
    BY <2>2, SizeIs
<1>4. \A i \in Indices : W[i] # Nil
  BY ErrorAssumption
<1> HIDE DEF W, s
<1>5. W = [i \in Indices |-> W[i]] /\ \A i \in Indices : W[i].size = s
  BY <1>2 DEF Shards
<1>6. R = [i \in Indices |-> IF i \notin lost THEN W[i] ELSE IF i \in empty THEN Empty ELSE Nil]
  BY DEF Arrived
<1> HIDE DEF R
<1>7. R \in [Indices -> {R[i] : i \in Indices}]
  BY <1>6
<1>8. Len(R) = dataShards + 1
  <2>1. ASSUME NEW E, NEW n \in Nat, NEW f \in [1..n -> E] PROVE Len(f) = n
    OBVIOUS
  <2>2. QED
    BY <1>1, <1>7, <2>1
<1>9. \A i \in Indices \ lost : R[i] = W[i] /\ ~IsGone(R[i])
  <2>1. \A i \in Indices \ lost : R[i] = W[i]
    BY <1>6
  <2>2. QED
    BY <1>3, <1>4, <1>5, <2>1 DEF IsGone
<1>10. \A i \in lost : i \in Indices /\ IsGone(R[i]) /\ R[i] \in {Nil, Empty}
  BY <1>6 DEF IsGone, Empty
<1>11. {i \in Indices : IsGone(R[i])} = lost
  BY <1>9, <1>10
<1>12. QED
  BY <1>1, <1>3, <1>4, <1>5, <1>7, <1>8, <1>9, <1>10, <1>11 DEF ArrivalFacts, R, W, s

\* A set with at most one element.
LEMMA AtMostOne ==
  ASSUME NEW T \in SUBSET Indices, Cardinality(T) <= 1
  PROVE  T = {} \/ \E g \in Indices : T = {g}
<1>1. SUFFICES ASSUME NEW g \in T, NEW h \in T, g # h PROVE FALSE
  <2>1. CASE T = {}
    BY <2>1
  <2>2. CASE T # {}
    BY <1>1, <2>2
  <2>3. QED
    BY <2>1, <2>2
<1>2. /\ {g, h} \in SUBSET T /\ IsFiniteSet(T) /\ IsFiniteSet({g})
      /\ Cardinality(T) \in Nat /\ Cardinality({g}) = 1
  BY IndicesFinite, FS_Singleton
<1>3. {g, h} = {g} \cup {h} /\ h \notin {g}
  BY <1>1
<1>4. Cardinality({g, h}) = 2
  <2>1. Cardinality({g} \cup {h}) = Cardinality({g}) + 1
    BY <1>2, <1>3, FS_AddElement
  <2>2. QED
    BY <1>2, <1>3, <2>1
<1>5. Cardinality({g, h}) <= Cardinality(T)
  BY <1>2, FS_Subset
<1>6. QED
  BY <1>2, <1>4, <1>5

LEMMA XorRecovers ==
  ASSUME NEW p \in Blocks(0..MaxLength), p.size > 0,
         NEW lost \in SUBSET Indices, NEW empty \in SUBSET Indices
  PROVE  LET W == WithParity(Split(p))
         IN  XorRecover(Arrived(W, lost, empty)) = IF Cardinality(lost) <= 1 THEN W ELSE Failed
<1> DEFINE W == WithParity(Split(p))
           R == Arrived(W, lost, empty)
           s == ShardSize(p.size)
           Rest == Indices \ lost
           size == R[CHOOSE i \in Rest : TRUE].size
<1> SUFFICES XorRecover(R) = IF Cardinality(lost) <= 1 THEN W ELSE Failed
  OBVIOUS
<1>0. ArrivalFacts(W, R, s, lost)
  BY ArrivedIs
<1> HIDE DEF W, R, s
<1>1. /\ Len(R) = dataShards + 1 /\ 1..Len(R) = Indices /\ W = [i \in Indices |-> W[i]]
      /\ \A i \in Indices : W[i].size = s
      /\ \A i \in Rest : R[i] = W[i]
      /\ {i \in Indices : IsGone(R[i])} = lost
      /\ 1 \in Indices /\ 2 \in Indices
  BY <1>0 DEF ArrivalFacts
<1>2. Cardinality(lost) \in Nat
  BY IndicesFinite
<1>3. XorRecover(R) = IF \/ Len(R) # dataShards + 1
                         \/ Cardinality(lost) > 1
                         \/ ~SameSize(R, Rest)
                         \/ Rest = {}
                      THEN Failed
                      ELSE [i \in Indices |-> IF i \in lost THEN XorOf(R, Rest, size) ELSE R[i]]
  BY <1>1 DEF XorRecover
<1>4. CASE Cardinality(lost) > 1
  BY <1>2, <1>3, <1>4
<1>5. CASE Cardinality(lost) <= 1
  <2>1. lost = {} \/ \E g \in Indices : lost = {g}
    BY <1>5, AtMostOne
  <2>2. Rest # {}
    BY <1>1, <2>1
  <2>3. SameSize(R, Rest) /\ size = s
    <3>1. SameSize(R, Rest)
      BY <1>1 DEF SameSize
    <3>2. (CHOOSE i \in Rest : TRUE) \in Rest
      BY <2>2
    <3>3. size = s
      BY <1>1, <3>2
    <3>4. QED
      BY <3>1, <3>3
  <2>4. XorRecover(R) = [i \in Indices |-> IF i \in lost THEN XorOf(R, Rest, s) ELSE R[i]]
    BY <1>1, <1>2, <1>3, <1>5, <2>2, <2>3
  <2>5. \A i \in lost : XorOf(R, Rest, s) = W[i]
    <3>1. SUFFICES ASSUME NEW g \in Indices, lost = {g} PROVE XorOf(R, Indices \ {g}, s) = W[g]
      BY <2>1
    <3>2. \A i \in Indices \ {g} : R[i] = W[i]
      BY <1>1, <3>1
    <3>3. QED
      BY <3>2, OneMissing DEF W, s
  <2>6. XorRecover(R) = [i \in Indices |-> W[i]]
    BY <1>1, <2>4, <2>5
  <2>7. QED
    BY <1>1, <1>5, <2>6
<1>6. QED
  BY <1>2, <1>4, <1>5

\* What the library makes of shards of which at most the one called g is missing.
LEMMA ReconstructIs ==
  ASSUME NEW p \in Blocks(0..MaxLength), p.size > 0,
         NEW R \in [Indices -> {Empty} \cup Shards(ShardSize(p.size))],
         Len(R) = dataShards + 1
  PROVE  /\ (\A i \in Indices : R[i].size > 0) => Reconstruct(R) = R
         /\ \A g \in Indices :
               /\ R[g].size = 0
               /\ \A i \in Indices \ {g} : R[i] = WithParity(Split(p))[i]
               => Reconstruct(R) = WithParity(Split(p))
<1> DEFINE W == WithParity(Split(p))
           s == ShardSize(p.size)
           Gone == {i \in Indices : R[i].size = 0}
           size == R[CHOOSE i \in Indices \ Gone : TRUE].size
<1>1. W \in [Indices -> Shards(s)] /\ s \in Nat /\ s > 0
  <2>1. 0..MaxLength \subseteq Nat
    BY CoderAssumption
  <2>2. p.size \in Nat
    BY <2>1, BlockIs
  <2>3. QED
    BY <2>2, EncodedIs, SizeIs
<1>2. /\ 1 \in Indices /\ 2 \in Indices /\ 1..Len(R) = Indices
  BY CoderAssumption DEF Indices
<1>3. \A T \in SUBSET Indices : T = {} => Cardinality(T) = 0
  BY FS_EmptySet
<1>4. \A g \in Indices : Cardinality({g}) = 1
  BY FS_Singleton
<1>5. Reconstruct(R) =
        IF Cardinality(Gone) > 1 THEN Failed
        ELSE [i \in Indices |-> IF i \in Gone THEN XorOf(R, Indices \ Gone, size) ELSE R[i]]
  <2> DEFINE Made(I) ==
                LET Away == {i \in I : R[i].size = 0}
                    z    == R[CHOOSE i \in I \ Away : TRUE].size
                IN  IF Cardinality(Away) > 1 THEN Failed
                    ELSE [i \in I |-> IF i \in Away THEN XorOf(R, I \ Away, z) ELSE R[i]]
  <2>1. Reconstruct(R) = Made(1..Len(R))
    BY DEF Reconstruct
  <2>2. Made(Indices) =
          IF Cardinality(Gone) > 1 THEN Failed
          ELSE [i \in Indices |-> IF i \in Gone THEN XorOf(R, Indices \ Gone, size) ELSE R[i]]
    OBVIOUS
  <2> HIDE DEF Made, Gone, size
  <2>3. QED
    BY <1>2, <2>1, <2>2
<1>6. R = [i \in Indices |-> R[i]]
  OBVIOUS
<1>7. W = [i \in Indices |-> W[i]] /\ \A i \in Indices : W[i].size = s
  BY <1>1 DEF Shards
<1> SUFFICES /\ (\A i \in Indices : R[i].size > 0) => Reconstruct(R) = R
             /\ \A g \in Indices :
                   R[g].size = 0 /\ (\A i \in Indices \ {g} : R[i] = W[i]) => Reconstruct(R) = W
  OBVIOUS
<1> HIDE DEF size
<1>8. ASSUME \A i \in Indices : R[i].size > 0 PROVE Reconstruct(R) = R
  <2>1. Gone = {}
    BY <1>8
  <2>2. Cardinality(Gone) = 0
    BY <2>1, <1>3
  <2> HIDE DEF Gone
  <2>3. QED
    BY <1>5, <1>6, <2>1, <2>2
<1>9. ASSUME NEW g \in Indices, R[g].size = 0, \A i \in Indices \ {g} : R[i] = W[i]
      PROVE  Reconstruct(R) = W
  <2> HIDE DEF W, s
  <2>1. Gone = {g}
    BY <1>1, <1>7, <1>9
  <2>2. Cardinality(Gone) = 1
    BY <2>1, <1>4
  <2>3. Indices \ Gone # {}
    BY <1>2, <2>1
  <2>4. (CHOOSE i \in Indices \ Gone : TRUE) \in Indices \ {g}
    BY <2>1, <2>3
  <2>5. size = s
    BY <1>7, <1>9, <2>4 DEF size
  <2>6. XorOf(R, Indices \ {g}, s) = W[g]
    BY <1>9, OneMissing DEF W, s
  <2> HIDE DEF Gone
  <2>7. Reconstruct(R) = [i \in Indices |-> W[i]]
    <3>1. Reconstruct(R) = [i \in Indices |-> IF i \in {g} THEN XorOf(R, Indices \ {g}, s) ELSE R[i]]
      <4>1. ~(Cardinality(Gone) > 1)
        BY <2>2
      <4>2. Reconstruct(R) = [i \in Indices |-> IF i \in Gone THEN XorOf(R, Indices \ Gone, size)
                                                              ELSE R[i]]
        BY <1>5, <4>1
      <4>3. QED
        BY <2>1, <2>5, <4>2
    <3>2. QED
      BY <1>9, <2>6, <3>1
  <2>8. QED
    BY <1>7, <2>7
<1>10. QED
  BY <1>8, <1>9

\* What ReedSolomon.Recover makes of a single loss.
LEMMA RSRecovers ==
  ASSUME NEW p \in Blocks(0..MaxLength), p.size > 0,
         NEW g \in Indices, NEW empty \in SUBSET Indices
  PROVE  LET W == WithParity(Split(p))
             R == Arrived(W, {g}, empty)
         IN  /\ R[g] = Nil => RSRecover(R) = [W EXCEPT ![g].ones = {}]
             /\ R[g] = Empty /\ g = 1 => RSRecover(R) = W
             /\ R[g] = Empty /\ g > 1 => RSRecover(R) = Failed
<1> DEFINE W == WithParity(Split(p))
           R == Arrived(W, {g}, empty)
           s == ShardSize(p.size)
           Rest == Indices \ {g}
           There == {i \in Indices : R[i] # Nil}
           Full == {i \in There : R[i].size > 0}
           size == R[CHOOSE i \in Full : TRUE].size
           zero == [size |-> s, ones |-> {}]
           Q == [i \in Indices |-> IF R[i] = Nil THEN zero ELSE R[i]]
           Uneven == \E i \in Full, j \in There : i < j /\ R[j].size # R[i].size
<1> SUFFICES /\ R[g] = Nil => RSRecover(R) = [W EXCEPT ![g].ones = {}]
             /\ R[g] = Empty /\ g = 1 => RSRecover(R) = W
             /\ R[g] = Empty /\ g > 1 => RSRecover(R) = Failed
  OBVIOUS
<1>1. ArrivalFacts(W, R, s, {g})
  BY ArrivedIs
<1>2. W \in [Indices -> Shards(s)]
  BY EncodedIs
<1>3. Nil # Empty
  BY ErrorAssumption
<1>4. Indices \subseteq Int
  BY DEF Indices
<1> HIDE DEF W, R, s
<1>5. /\ Len(R) = dataShards + 1 /\ 1..Len(R) = Indices
      /\ s \in Nat \ {0} /\ W = [i \in Indices |-> W[i]]
      /\ \A i \in Indices : W[i].size = s /\ W[i] # Nil
      /\ \A i \in Rest : R[i] = W[i]
      /\ R[g] \in {Nil, Empty}
      /\ 1 \in Indices /\ 2 \in Indices /\ Rest # {}
  <2> HIDE DEF There, Full, size, zero, Q, Uneven
  <2>1. 1 \in Indices /\ 2 \in Indices
    BY <1>1 DEF ArrivalFacts
  <2>2. Rest # {}
    BY <2>1
  <2>3. \A i \in Rest : R[i] = W[i]
    BY <1>1 DEF ArrivalFacts
  <2>4. R[g] \in {Nil, Empty}
    BY <1>1 DEF ArrivalFacts
  <2>5. QED
    BY <1>1, <2>1, <2>2, <2>3, <2>4 DEF ArrivalFacts
<1>6. Full = Rest
  BY <1>5 DEF Empty
<1>7. size = s
  <2>1. (CHOOSE i \in Full : TRUE) \in Rest
    BY <1>5, <1>6
  <2>2. QED
    BY <1>5, <2>1
<1>8. RSRecover(R) = IF Len(R) # dataShards + 1 \/ Full = {} \/ Uneven
                     THEN Failed ELSE Reconstruct(Q)
  <2> DEFINE Q1 == [i \in Indices |-> IF R[i] = Nil THEN [size |-> size, ones |-> {}] ELSE R[i]]
  <2>1. RSRecover(R) = IF Len(R) # dataShards + 1 \/ Full = {} \/ Uneven
                       THEN Failed ELSE Reconstruct(Q1)
    BY <1>5 DEF RSRecover
  <2>2. Q1 = Q
    BY <1>7
  <2> HIDE DEF Q, Q1, Uneven, Full
  <2>3. QED
    BY <2>1, <2>2
<1>9. zero \in Shards(s) /\ zero.size = s
  BY DEF Shards
<1>10. /\ Q \in [Indices -> {Empty} \cup Shards(s)] /\ Len(Q) = dataShards + 1
       /\ \A i \in Rest : Q[i] = W[i]
       /\ Q[g] = IF R[g] = Nil THEN zero ELSE Empty
  <2> HIDE DEF zero
  <2>1. \A i \in Rest : Q[i] = W[i]
    BY <1>5
  <2>2. Q[g] = IF R[g] = Nil THEN zero ELSE Empty
    BY <1>5
  <2>3. \A i \in Indices : Q[i] \in {Empty} \cup Shards(s)
    BY <1>2, <1>9, <2>1, <2>2
  <2>4. Q \in [Indices -> {Empty} \cup Shards(s)]
    BY <2>3
  <2>5. Len(Q) = dataShards + 1
    <3>1. ASSUME NEW E, NEW n \in Nat, NEW f \in [1..n -> E] PROVE Len(f) = n
      OBVIOUS
    <3> HIDE DEF Q
    <3>2. QED
      BY <2>4, <3>1, CoderAssumption DEF Indices
  <2>6. QED
    BY <2>1, <2>2, <2>4, <2>5
<1>11. /\ (\A i \in Indices : Q[i].size > 0) => Reconstruct(Q) = Q
       /\ Q[g].size = 0 => Reconstruct(Q) = W
  <2> HIDE DEF Q
  <2>1. \A i \in Indices \ {g} : Q[i] = WithParity(Split(p))[i]
    BY <1>10 DEF W
  <2>2. QED
    BY <1>10, <2>1, ReconstructIs DEF W, s
<1>12. ASSUME R[g] = Nil PROVE RSRecover(R) = [W EXCEPT ![g].ones = {}]
  <2>1. There = Rest
    BY <1>5, <1>12
  <2>2. ~Uneven
    BY <1>5, <1>6, <2>1
  <2> HIDE DEF Uneven, There, Full, Q
  <2>3. Q[g] = zero
    BY <1>10, <1>12
  <2>4. \A i \in Indices : Q[i].size > 0
    BY <1>5, <1>9, <1>10, <2>3
  <2>5. RSRecover(R) = Q
    BY <1>5, <1>6, <1>8, <1>11, <2>2, <2>4
  <2>6. [W EXCEPT ![g].ones = {}] = [i \in Indices |-> IF i = g THEN zero ELSE W[i]]
    <3>1. W[g] \in Shards(s)
      BY <1>2
    <3>2. [W[g] EXCEPT !.ones = {}] = zero
      <4>1. ASSUME NEW a, NEW b
            PROVE  [[size |-> a, ones |-> b] EXCEPT !.ones = {}] = [size |-> a, ones |-> {}]
        OBVIOUS
      <4>2. W[g] = [size |-> s, ones |-> W[g].ones]
        BY <3>1 DEF Shards
      <4>3. QED
        BY <4>1, <4>2
    <3> HIDE DEF zero
    <3>3. QED
      BY <1>5, <3>2
  <2>7. Q = [i \in Indices |-> IF i = g THEN zero ELSE W[i]]
    BY <1>10, <2>3
  <2>8. QED
    BY <2>5, <2>6, <2>7
<1>13. ASSUME R[g] = Empty, g = 1 PROVE RSRecover(R) = W
  <2>1. ~Uneven
    <3>1. SUFFICES ASSUME NEW i \in Full, NEW j \in There, i < j PROVE R[j].size = R[i].size
      OBVIOUS
    <3>2. i \in Rest /\ j \in Indices
      BY <1>6
    <3>3. 1 <= i
      BY <3>2 DEF Indices
    <3>4. j \in Rest
      <4>1. i \in Int /\ j \in Int
        BY <1>4, <3>2
      <4>2. j # 1
        BY <3>1, <3>3, <4>1
      <4>3. QED
        BY <1>13, <3>2, <4>2
    <3>5. QED
      BY <1>5, <3>2, <3>4
  <2> HIDE DEF Uneven, There, Full, Q
  <2>2. Q[g].size = 0
    BY <1>3, <1>10, <1>13 DEF Empty
  <2>3. QED
    BY <1>5, <1>6, <1>8, <1>11, <2>1, <2>2
<1>14. ASSUME R[g] = Empty, g > 1 PROVE RSRecover(R) = Failed
  <2>1. 1 \in Full /\ g \in There /\ R[g].size # R[1].size
    BY <1>3, <1>5, <1>6, <1>14 DEF Empty
  <2>2. Uneven
    BY <1>14, <2>1
  <2> HIDE DEF Uneven, Q, Full
  <2>3. QED
    BY <1>8, <2>2
<1>15. QED
  BY <1>12, <1>13, <1>14

-----------------------------------------------------------------------------
(* The way of one packet *)

CoderInv ==
    /\ coder \in {"xor", "reedSolomon"} /\ payload \in Blocks(0..MaxLength)
    /\ phase \in {"split", "skipped", "encoded", "received", "recovered"}
    /\ phase = "skipped" => payload = Empty
    /\ phase \in {"encoded", "received", "recovered"} =>
          payload.size > 0 /\ encoded = WithParity(Split(payload))
    /\ phase \in {"received", "recovered"} =>
          \E lost \in SUBSET Indices, empty \in SUBSET Indices :
              received = Arrived(encoded, lost, empty)
    /\ phase = "recovered" =>
          result = IF coder = "xor" THEN XorRecover(received) ELSE RSRecover(received)

\* Encode refuses the empty payload alone.
LEMMA OnlyEmptyRefused ==
  ASSUME NEW p \in Blocks(0..MaxLength)
  PROVE  /\ p.size \in Nat
         /\ p.size = 0 => XorEncode(Split(p)) = Failed /\ p = Empty
         /\ p.size > 0 => XorEncode(Split(p)) = WithParity(Split(p)) /\ WithParity(Split(p)) # Failed
<1> DEFINE S == Split(p)
           s == ShardSize(p.size)
<1>1. p.size \in Nat /\ p.ones \subseteq 1..p.size /\ p = [size |-> p.size, ones |-> p.ones]
  <2>1. 0..MaxLength \subseteq Nat
    BY CoderAssumption
  <2>2. QED
    BY <2>1, BlockIs
<1>2. Len(S) = dataShards /\ 1 \in 1..dataShards /\ \A i \in 1..dataShards : S[i].size = s
  BY SplitIs
<1>3. s \in Nat /\ (s = 0 <=> p.size = 0)
  BY <1>1, SizeIs
<1>4. \A i \in 1..dataShards : i \in Indices /\ WithParity(S)[i] = S[i]
  BY EncodedIs
<1>5. WithParity(S) # Failed /\ \A i \in Indices : WithParity(S)[i] # Nil
  BY ErrorAssumption
<1> SUFFICES /\ p.size = 0 => XorEncode(S) = Failed /\ p = Empty
             /\ p.size > 0 => XorEncode(S) = WithParity(S)
  BY <1>1, <1>5
<1> HIDE DEF S, s
<1>6. ASSUME p.size = 0 PROVE XorEncode(S) = Failed /\ p = Empty
  <2>1. S[1].size = 0
    BY <1>2, <1>3, <1>6
  <2>2. p = Empty
    BY <1>1, <1>6 DEF Empty
  <2>3. QED
    BY <2>1, <2>2 DEF XorEncode
<1>7. ASSUME p.size > 0 PROVE XorEncode(S) = WithParity(S)
  <2>1. S[1].size # 0 /\ SameSize(S, 1..Len(S)) /\ ~\E i \in 1..Len(S) : S[i] = Nil
    BY <1>1, <1>2, <1>3, <1>4, <1>5, <1>7 DEF SameSize
  <2>2. QED
    BY <1>2, <2>1 DEF XorEncode
<1>8. QED
  BY <1>6, <1>7

LEMMA CoderStarts == CoderInit => CoderInv
  BY DEF CoderInit, CoderInv

LEMMA CoderStep == CoderInv /\ [CoderNext]_coderVars => CoderInv'
<1> SUFFICES ASSUME CoderInv, [CoderNext]_coderVars PROVE CoderInv'
  OBVIOUS
<1>1. CASE Encode
  <2>1. /\ coder' = coder /\ payload' = payload /\ payload \in Blocks(0..MaxLength)
        /\ coder \in {"xor", "reedSolomon"}
        /\ encoded' = XorEncode(Split(payload))
        /\ phase' = IF encoded' = Failed THEN "skipped" ELSE "encoded"
    BY <1>1 DEF Encode, CoderInv, RSEncode
  <2>2. CASE payload.size = 0
    <3>1. phase' = "skipped" /\ payload = Empty
      BY <2>1, <2>2, OnlyEmptyRefused
    <3>2. QED
      BY <2>1, <3>1 DEF CoderInv
  <2>3. CASE payload.size # 0
    <3>1. payload.size > 0 /\ encoded' = WithParity(Split(payload)) /\ phase' = "encoded"
      BY <2>1, <2>3, OnlyEmptyRefused
    <3>2. encoded' = WithParity(Split(payload'))
      BY <2>1, <3>1
    <3>3. QED
      BY <2>1, <3>1, <3>2 DEF CoderInv
  <2>4. QED
    BY <2>2, <2>3
<1>2. CASE Lose
  <2>1. PICK lost \in SUBSET Indices, empty \in SUBSET Indices :
          received' = Arrived(encoded, lost, empty)
    BY <1>2 DEF Lose, Arrived
  <2>2. phase = "encoded" /\ phase' = "received" /\ UNCHANGED <<coder, payload, encoded, result>>
    BY <1>2 DEF Lose
  <2>3. received' = Arrived(encoded', lost, empty)
    BY <2>1, <2>2
  <2>4. encoded' = WithParity(Split(payload'))
    BY <2>2 DEF CoderInv
  <2>5. QED
    BY <2>2, <2>3, <2>4 DEF CoderInv
<1>3. CASE Recover
  <2>1. /\ phase = "received" /\ phase' = "recovered" /\ UNCHANGED <<coder, payload, encoded, received>>
        /\ result' = IF coder = "xor" THEN XorRecover(received) ELSE RSRecover(received)
    BY <1>3 DEF Recover
  <2>2. PICK lost \in SUBSET Indices, empty \in SUBSET Indices :
          received = Arrived(encoded, lost, empty)
    BY <2>1 DEF CoderInv
  <2>3. received' = Arrived(encoded', lost, empty)
    BY <2>1, <2>2
  <2>4. encoded' = WithParity(Split(payload'))
    BY <2>1 DEF CoderInv
  <2>5. result' = IF coder' = "xor" THEN XorRecover(received') ELSE RSRecover(received')
    BY <2>1
  <2>6. QED
    BY <2>1, <2>3, <2>4, <2>5 DEF CoderInv
<1>4. CASE UNCHANGED coderVars
  <2>1. UNCHANGED <<coder, phase, payload, encoded, received, result>>
    BY <1>4 DEF coderVars
  <2>2. /\ Split(payload)' = Split(payload) /\ WithParity(Split(payload))' = WithParity(Split(payload))
    BY <2>1
  <2>3. QED
    BY <2>1, <2>2 DEF CoderInv
<1>5. QED
  BY <1>1, <1>2, <1>3, <1>4 DEF CoderNext

\* What arrived of the encoded packet, once Recover has run.
LEMMA Arrives ==
  ASSUME CoderInv, phase = "recovered"
  PROVE  \E empty \in SUBSET Indices :
            /\ received = Arrived(encoded, Lost, empty) /\ Lost \in SUBSET Indices
            /\ encoded = WithParity(Split(payload))
            /\ payload \in Blocks(0..MaxLength) /\ payload.size > 0
<1>1. /\ encoded = WithParity(Split(payload)) /\ payload \in Blocks(0..MaxLength) /\ payload.size > 0
  BY DEF CoderInv
<1>2. PICK lost \in SUBSET Indices, empty \in SUBSET Indices : received = Arrived(encoded, lost, empty)
  BY DEF CoderInv
<1>3. ArrivalFacts(encoded, received, ShardSize(payload.size), lost)
  BY <1>1, <1>2, ArrivedIs
<1>4. Lost = lost
  BY <1>3 DEF ArrivalFacts, Lost
<1>5. QED
  BY <1>1, <1>2, <1>4

LEMMA CoderXor == CoderInv => XorRestores
<1> SUFFICES ASSUME CoderInv PROVE XorRestores
  OBVIOUS
<1>1. ASSUME phase = "recovered", coder = "xor"
      PROVE  IF Cardinality(Lost) <= 1
             THEN result = encoded /\ Joined(result, payload.size) = payload
             ELSE result = Failed
  <2>1. PICK empty \in SUBSET Indices :
            /\ received = Arrived(encoded, Lost, empty) /\ Lost \in SUBSET Indices
            /\ encoded = WithParity(Split(payload))
            /\ payload \in Blocks(0..MaxLength) /\ payload.size > 0
    BY <1>1, Arrives
  <2>2. result = XorRecover(received)
    BY <1>1 DEF CoderInv
  <2> HIDE DEF Lost
  <2>3. result = IF Cardinality(Lost) <= 1 THEN encoded ELSE Failed
    BY <2>1, <2>2, XorRecovers
  <2>4. Joined(encoded, payload.size) = payload
    BY <2>1, JoinIs
  <2>5. QED
    BY <2>3, <2>4
<1>2. phase = "skipped" => payload = Empty
  BY DEF CoderInv
<1>3. QED
  BY <1>1, <1>2 DEF XorRestores

\* With a single shard lost, as nil, Reed-Solomon's Recover returns zeroes for it.
NilStaysLost ==
    phase = "recovered" /\ coder = "reedSolomon" =>
        \A g \in Indices : Lost = {g} /\ received[g] = Nil /\ encoded[g].ones # {}
                            => result # encoded

LEMMA CoderRS == CoderInv => NilStaysLost
<1> SUFFICES ASSUME CoderInv, phase = "recovered", coder = "reedSolomon", NEW g \in Indices,
                    Lost = {g}, received[g] = Nil, encoded[g].ones # {}
             PROVE  result # encoded
  BY DEF NilStaysLost
<1>1. PICK empty \in SUBSET Indices :
          /\ received = Arrived(encoded, Lost, empty) /\ Lost \in SUBSET Indices
          /\ encoded = WithParity(Split(payload))
          /\ payload \in Blocks(0..MaxLength) /\ payload.size > 0
  BY Arrives
<1>2. result = RSRecover(received)
  BY DEF CoderInv
<1> HIDE DEF Lost
<1>3. result = [encoded EXCEPT ![g].ones = {}]
  BY <1>1, <1>2, RSRecovers
<1>4. encoded \in [Indices -> Shards(ShardSize(payload.size))]
  BY <1>1, EncodedIs
<1>5. g \in DOMAIN encoded /\ encoded[g] \in Shards(ShardSize(payload.size))
  BY <1>4
<1>6. result[g] = [encoded[g] EXCEPT !.ones = {}]
  BY <1>3, <1>5
<1>7. result[g].ones = {}
  BY <1>5, <1>6 DEF Shards
<1>8. QED
  BY <1>7

\* For any number of data shards and any payload XOR restores the packet from
\* a single loss, refuses more, and only the empty packet is never sent
\* (xor.go:57-105, udp-fec/client.go:194-217).
THEOREM XorRestoresAll == CoderSpec => []XorRestores
<1>1. CoderInit => CoderInv
  BY CoderStarts
<1>2. CoderInv /\ [CoderNext]_coderVars => CoderInv'
  BY CoderStep
<1>3. CoderInv => XorRestores
  BY CoderXor
<1>4. QED
  BY <1>1, <1>2, <1>3, PTL DEF CoderSpec

\* That Reed-Solomon does not keep the promise of encoder.go:8 is no accident of
\* small numbers: for any number of data shards and any payload, a shard that is
\* lost as nil, the only one lost, is not restored unless it was all zeroes
\* (reed_solomon.go:80-90).
THEOREM RSNilStaysLost == CoderSpec => []NilStaysLost
<1>1. CoderInit => CoderInv
  BY CoderStarts
<1>2. CoderInv /\ [CoderNext]_coderVars => CoderInv'
  BY CoderStep
<1>3. CoderInv => NilStaysLost
  BY CoderRS
<1>4. QED
  BY <1>1, <1>2, <1>3, PTL DEF CoderSpec
=============================================================================
