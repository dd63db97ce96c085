---------------------------- MODULE ServerProofs ----------------------------
(***************************************************************************)
(* The server pipeline keeps its invariants for every number of workers,   *)
(* buffers and packets and every capacity of its channels, behind a UDP    *)
(* socket and behind a stream; the servers behind a stream acknowledge a   *)
(* packet once.                                                            *)
(*                                                                         *)
(* Core is about the pipeline behind the reading loop; the steps of the    *)
(* workers and of the output keep it in PacketServer and in StreamServer.  *)
(***************************************************************************)
EXTENDS StreamServer, CountingProofs, SequenceTheorems

OBP == INSTANCE OrderProofs WITH Values <- IDs, StartID <- 1, MaxID <- TotalPackets,
                                         offered <- {}, released <- <<>>, Size <- 1, slots <- <<>>,
                                         ringNext <- 1, count <- 0, taken <- <<>>

\* The line of id waits in the ordered buffer or has been released from it.
Known(id) == id < nextID \/ id \in DOMAIN buffer

\* What a worker has at each step of processMessage.
WorkerStands(w) ==
    /\ wBuf[w] = NoBuf <=> wPC[w] \in {"idle", "done"}
    /\ wPC[w] \in {"mark", "insert", "output", "ack"} => wID[w] \in IDs
    /\ wOut[w] = <<>> <=> wPC[w] # "output"
    /\ wPC[w] \in {"output", "ack"} => benchMode \/ Known(wID[w])

\* The ordered buffer holds, for an id still to come, the line of that id.
BufferExact == \A k \in DOMAIN buffer : buffer[k] = k /\ k > nextID

Core == /\ TypeOK /\ BufferInOnePlace /\ LinesConserved /\ AckAfterOutput
        /\ BufferExact
        /\ \A w \in Workers : WorkerStands(w)

\* What Run has at each of its steps.
RunStands == /\ runPC \in {"loop", "done"} => runBuf = NoBuf
             /\ runPC \in {"receive", "push"} => runBuf \in Bufs

\* The inductive invariant.
ServerInv == Core /\ RunStands

-----------------------------------------------------------------------------
\* The assumptions, piece by piece.
LEMMA Params ==
  /\ TotalPackets \in Nat /\ JobsCap \in Nat /\ OutputCap \in Nat /\ MaxArrivals \in Nat
  /\ IsFiniteSet(Workers) /\ IsFiniteSet(Bufs) /\ NoBuf \notin Bufs
  /\ Bad \notin IDs /\ None \notin IDs
  /\ Cardinality(Bufs) > JobsCap + Cardinality(Workers)
BY ServerAssumption DEF IDs, None

\* A new server satisfies the invariant.
LEMMA InitServer == Init => ServerInv
<1> SUFFICES ASSUME Init PROVE ServerInv
  OBVIOUS
<1>1. TypeOK
  <2>1. jobs \in Seq(Bufs) /\ Len(jobs) = 0 /\ outputCh \in Seq(IDs) /\ Len(outputCh) = 0
           /\ printed \in Seq(IDs) /\ wOut \in [Workers -> Seq(IDs)]
    BY DEF Init
  <2>2. stage \in {Stages[i] : i \in 1..Len(Stages)}
    BY DEF Init, Stages
  <2>3. nextID \in 1..TotalPackets+1 /\ DOMAIN buffer = {} /\ arrivals \in 0..MaxArrivals
    BY Params DEF Init
  <2>4. /\ pool \in [Bufs -> Nat] /\ content \in [Bufs -> Datagrams]
        /\ wPC \in [Workers -> WorkerPCs] /\ wBuf \in [Workers -> Bufs \cup {NoBuf}]
        /\ wID \in [Workers -> IDs \cup {None}]
    BY DEF Init, WorkerPCs, Datagrams
  <2>5. Len(jobs) <= JobsCap /\ Len(outputCh) <= OutputCap
    BY <2>1, Params
  <2>6. /\ benchMode \in BOOLEAN /\ crashed \in BOOLEAN
        /\ runPC \in {"loop", "receive", "push", "done"} /\ runBuf \in Bufs \cup {NoBuf}
        /\ dedup \subseteq IDs /\ acked \subseteq IDs
    BY DEF Init
  <2>7. DOMAIN buffer \subseteq IDs /\ \A k \in DOMAIN buffer : buffer[k] \in IDs
    BY <2>3
  <2>8. QED
    BY <2>1, <2>2, <2>3, <2>4, <2>5, <2>6, <2>7, Zenon DEF TypeOK
<1>2. BufferInOnePlace
  <2>1. ASSUME NEW b \in Bufs PROVE Places(b) = 1
    <3>1. Occurs(jobs, b) = 0
      BY OccursEmpty DEF Init
    <3>2. DOMAIN wBuf = Workers /\ IsFiniteSet(DOMAIN wBuf) /\ b # NoBuf
             /\ \A w \in Workers : wBuf[w] = NoBuf
      BY Params DEF Init
    <3>3. Holders(wBuf, b) \in Nat /\ ~(Holders(wBuf, b) > 0)
      BY <3>2, HoldersNat
    <3>4. pool[b] = 1 /\ runBuf # b
      BY <3>2 DEF Init
    <3>5. QED
      BY <3>1, <3>3, <3>4 DEF Places
  <2>2. QED
    BY <2>1 DEF BufferInOnePlace
<1>3. LinesConserved
  <2>1. ASSUME NEW id \in IDs PROVE Lines(id) = IF id < nextID THEN 1 ELSE 0
    <3>1. Occurs(printed, id) = 0 /\ Occurs(outputCh, id) = 0
      BY OccursEmpty DEF Init
    <3>2. \A w \in DOMAIN wOut : wOut[w] = <<>>
      BY DEF Init
    <3>3. Entries(wOut, id) = 0
      BY <3>2, EntriesEmpty
    <3>4. ~(id < nextID)
      BY Params DEF Init, IDs
    <3>5. QED
      BY <3>1, <3>3, <3>4 DEF Lines
  <2>2. QED
    BY <2>1 DEF LinesConserved
<1>4. AckAfterOutput /\ BufferExact /\ RunStands /\ \A w \in Workers : WorkerStands(w)
  BY DEF Init, AckAfterOutput, BufferExact, RunStands, WorkerStands
<1>5. QED
  BY <1>1, <1>2, <1>3, <1>4 DEF ServerInv, Core

\* What the type invariant says of queues and counts.
LEMMA Shapes ==
  ASSUME TypeOK
  PROVE  /\ jobs \in Seq(Bufs) /\ outputCh \in Seq(IDs) /\ printed \in Seq(IDs)
         /\ Len(jobs) \in Nat /\ Len(outputCh) \in Nat
         /\ IsFiniteSet(DOMAIN wBuf) /\ DOMAIN wBuf = Workers
         /\ IsFiniteSet(DOMAIN wOut) /\ DOMAIN wOut = Workers
         /\ \A w \in Workers : wOut[w] \in Seq(IDs)
         /\ \A b \in Bufs : pool[b] \in Nat /\ Occurs(jobs, b) \in Nat /\ Holders(wBuf, b) \in Nat
<1>1. /\ jobs \in Seq(Bufs) /\ outputCh \in Seq(IDs) /\ printed \in Seq(IDs)
      /\ IsFiniteSet(DOMAIN wBuf) /\ DOMAIN wBuf = Workers
      /\ IsFiniteSet(DOMAIN wOut) /\ DOMAIN wOut = Workers
      /\ \A w \in Workers : wOut[w] \in Seq(IDs)
      /\ \A b \in Bufs : pool[b] \in Nat
  BY Params DEF TypeOK
<1>2. QED
  BY <1>1, OccursNat, HoldersNat

\* A buffer that Run or a worker has is not in the pool, nor with another.
LEMMA HeldOnce ==
  ASSUME TypeOK, BufferInOnePlace, NEW b \in Bufs
  PROVE  /\ runBuf = b => /\ pool[b] = 0 /\ \A i \in 1..Len(jobs) : jobs[i] # b
                          /\ \A w \in Workers : wBuf[w] # b
         /\ \A w \in Workers : wBuf[w] = b =>
               /\ pool[b] = 0 /\ runBuf # b /\ \A i \in 1..Len(jobs) : jobs[i] # b
               /\ \A u \in Workers : wBuf[u] = b => u = w
<1>1. /\ pool[b] \in Nat /\ Occurs(jobs, b) \in Nat /\ Holders(wBuf, b) \in Nat
      /\ jobs \in Seq(Bufs) /\ IsFiniteSet(DOMAIN wBuf) /\ DOMAIN wBuf = Workers
  BY Shapes
<1>2. Places(b) = 1
  BY DEF BufferInOnePlace
<1>3. Occurs(jobs, b) > 0 <=> \E i \in 1..Len(jobs) : jobs[i] = b
  BY <1>1, OccursSome
<1>4. Holders(wBuf, b) > 0 <=> \E w \in Workers : wBuf[w] = b
  BY <1>1, HoldersNat
<1>5. Holders(wBuf, b) <= 1 /\ (runBuf = b => Holders(wBuf, b) = 0 /\ Occurs(jobs, b) = 0 /\ pool[b] = 0)
         /\ (Holders(wBuf, b) > 0 => Occurs(jobs, b) = 0 /\ pool[b] = 0 /\ runBuf # b)
  BY <1>1, <1>2 DEF Places
<1>6. \A u, w \in Workers : wBuf[u] = b /\ wBuf[w] = b => u = w
  BY <1>1, <1>5, HoldersOne
<1>7. QED
  BY <1>1, <1>3, <1>4, <1>5, <1>6

\* While Run has no buffer there is one in the pool.
LEMMA GetNeverFails ==
  ASSUME TypeOK, BufferInOnePlace, runBuf = NoBuf
  PROVE  GetBuf \in Bufs /\ pool[GetBuf] > 0
<1>1. /\ jobs \in Seq(Bufs) /\ IsFiniteSet(DOMAIN wBuf) /\ DOMAIN wBuf = Workers
      /\ Len(jobs) \in Nat /\ Len(jobs) <= JobsCap
  BY Shapes DEF TypeOK
<1>2. Cardinality(Bufs) > Len(jobs) + Cardinality(DOMAIN wBuf)
  <2>1. Cardinality(Bufs) \in Nat /\ Cardinality(Workers) \in Nat
    BY Params, FS_CardinalityType
  <2>2. QED
    BY <1>1, <2>1, Params
<1>3. PICK b \in Bufs : (\A i \in 1..Len(jobs) : jobs[i] # b) /\ (\A w \in Workers : wBuf[w] # b)
  BY <1>1, <1>2, Params, SomeFree
<1>4. Occurs(jobs, b) = 0
  <2>1. Occurs(jobs, b) \in Nat /\ ~(Occurs(jobs, b) > 0)
    BY <1>1, <1>3, OccursNat, OccursSome
  <2>2. QED
    BY <2>1
<1>5. Holders(wBuf, b) = 0
  <2>1. Holders(wBuf, b) \in Nat /\ ~(Holders(wBuf, b) > 0)
    BY <1>1, <1>3, HoldersNat
  <2>2. QED
    BY <2>1
<1>6. Places(b) = 1 /\ runBuf # b
  BY Params DEF BufferInOnePlace
<1>7. pool[b] \in Nat
  BY Shapes
<1>8. pool[b] > 0
  BY <1>4, <1>5, <1>6, <1>7 DEF Places
<1>9. QED
  BY <1>8 DEF GetBuf

-----------------------------------------------------------------------------
(* The steps of a worker.                                                  *)

\* What a step leaves of the others: they keep what they have, and what is known
\* stays known.
LEMMA OthersStand ==
  ASSUME Core, NEW u \in Workers, benchMode' = benchMode,
         wPC'[u] = wPC[u], wBuf'[u] = wBuf[u], wID'[u] = wID[u], wOut'[u] = wOut[u],
         \A id \in IDs : Known(id) => Known(id)'
  PROVE  WorkerStands(u)'
BY DEF Core, WorkerStands

\* A step that moves one worker on and touches neither buffers nor lines.
LEMMA LightStep ==
  ASSUME Core, NEW w \in Workers, NEW pc, Goto(w, pc), TypeOK',
         UNCHANGED <<benchMode, pool, runBuf, jobs, wBuf, wOut, orderVars, outVars>>,
         \A u \in Workers : u # w => wID'[u] = wID[u],
         acked' = acked \/ (acked' = acked \cup {wID[w]} /\ wPC[w] = "ack"),
         WorkerStands(w)'
  PROVE  Core'
<1>1. BufferInOnePlace'
  BY DEF Core, BufferInOnePlace, Places
<1>2. LinesConserved'
  BY DEF Core, LinesConserved, Lines, outVars, orderVars
<1>3. BufferExact'
  BY DEF Core, BufferExact, orderVars
<1>4. AckAfterOutput'
  BY DEF Core, AckAfterOutput, WorkerStands, Known, orderVars
<1>5. ASSUME NEW u \in Workers, u # w PROVE WorkerStands(u)'
  <2>1. wPC'[u] = wPC[u]
    BY <1>5 DEF Goto, Core, TypeOK
  <2>2. QED
    BY <1>5, <2>1, OthersStand DEF Known, orderVars
<1>6. QED
  BY <1>1, <1>2, <1>3, <1>4, <1>5 DEF Core

\* The loop over jobs ends.
LEMMA WorkerEndCore ==
  ASSUME Core, NEW w \in Workers, WorkerEnd(w)
  PROVE  Core'
<1>1. /\ Goto(w, "done") /\ wPC[w] = "idle"
      /\ UNCHANGED <<benchMode, poolVars, runVars, jobs, wBuf, wID, wOut, dedup, orderVars,
                     outVars, acked, stage, crashed, arrivals>>
  BY DEF WorkerEnd
<1>2. TypeOK'
  BY <1>1 DEF Core, TypeOK, Goto, WorkerPCs, poolVars, runVars, orderVars, outVars
<1>3. wPC'[w] = "done"
  BY <1>1 DEF Core, TypeOK, Goto
<1>4. WorkerStands(w)'
  BY <1>1, <1>3 DEF Core, WorkerStands
<1>5. /\ UNCHANGED <<benchMode, pool, runBuf, jobs, wBuf, wOut, orderVars, outVars>>
      /\ acked' = acked \/ (acked' = acked \cup {wID[w]} /\ wPC[w] = "ack")
      /\ \A u \in Workers : u # w => wID'[u] = wID[u]
  BY <1>1 DEF poolVars, runVars
<1>6. QED
  BY <1>1, <1>2, <1>4, <1>5, LightStep

\* The packet is read, and looked up.
LEMMA DecodeCore ==
  ASSUME Core, NEW w \in Workers, Decode(w)
  PROVE  Core'
<1>1. wPC[w] = "decode" /\ wBuf[w] \in Bufs
  BY DEF Decode, Core, WorkerStands, TypeOK
<1>2. content[wBuf[w]] \in Datagrams
  BY <1>1 DEF Core, TypeOK
<1>3. UNCHANGED <<benchMode, poolVars, runVars, jobs, wBuf, wOut, dedup, orderVars,
                  outVars, acked, stage, crashed, arrivals>>
  BY DEF Decode
<1>4. PICK pc \in {"put", "ack", "mark"} :
         /\ Goto(w, pc) /\ (pc = "ack" => benchMode)
         /\ \/ pc = "put" /\ wID' = wID
            \/ wID' = [wID EXCEPT ![w] = content[wBuf[w]]] /\ content[wBuf[w]] \in IDs
  BY <1>2 DEF Decode, Datagrams
<1>5. TypeOK'
  BY <1>3, <1>4 DEF Core, TypeOK, Goto, WorkerPCs, poolVars, runVars, orderVars, outVars
<1>6. wPC'[w] = pc /\ (pc # "put" => wID'[w] \in IDs)
  BY <1>4 DEF Core, TypeOK, Goto
<1>7. WorkerStands(w)'
  <2>1. WorkerStands(w) /\ wBuf' = wBuf /\ wOut' = wOut /\ benchMode' = benchMode
    BY <1>3 DEF Core
  <2>2. QED
    BY <1>1, <1>4, <1>6, <2>1 DEF WorkerStands
<1>8. \A u \in Workers : u # w => wID'[u] = wID[u]
  BY <1>4 DEF Core, TypeOK
<1>9. /\ UNCHANGED <<benchMode, pool, runBuf, jobs, wBuf, wOut, orderVars, outVars>>
      /\ acked' = acked \/ (acked' = acked \cup {wID[w]} /\ wPC[w] = "ack")
      /\ \A u \in Workers : u # w => wID'[u] = wID[u]
  BY <1>3, <1>8 DEF poolVars, runVars
<1>10. QED
  BY <1>4, <1>4, <1>5, <1>7, <1>9, LightStep

\* dedup.Set
LEMMA MarkCore ==
  ASSUME Core, NEW w \in Workers, Mark(w)
  PROVE  Core'
<1>1. /\ Goto(w, "insert") /\ wPC[w] = "mark" /\ dedup' = dedup \cup {wID[w]}
      /\ UNCHANGED <<benchMode, poolVars, runVars, jobs, wBuf, wID, wOut, orderVars,
                     outVars, acked, stage, crashed, arrivals>>
  BY DEF Mark
<1>2. wID[w] \in IDs
  BY <1>1 DEF Core, WorkerStands
<1>3. TypeOK'
  BY <1>1, <1>2 DEF Core, TypeOK, Goto, WorkerPCs, poolVars, runVars, orderVars, outVars
<1>4. wPC'[w] = "insert"
  BY <1>1 DEF Core, TypeOK, Goto
<1>5. WorkerStands(w)'
  BY <1>1, <1>2, <1>4 DEF Core, WorkerStands
<1>6. /\ UNCHANGED <<benchMode, pool, runBuf, jobs, wBuf, wOut, orderVars, outVars>>
      /\ acked' = acked \/ (acked' = acked \cup {wID[w]} /\ wPC[w] = "ack")
      /\ \A u \in Workers : u # w => wID'[u] = wID[u]
  BY <1>1 DEF poolVars, runVars
<1>7. QED
  BY <1>1, <1>3, <1>5, <1>6, LightStep

\* The ACK is sent, or fails.
LEMMA AckCore ==
  ASSUME Core, NEW w \in Workers, wPC[w] = "ack", Goto(w, "put"),
         acked' = acked \/ acked' = acked \cup {wID[w]},
         UNCHANGED <<benchMode, poolVars, runVars, jobs, wBuf, wID, wOut, dedup, orderVars,
                     outVars, stage, crashed, arrivals>>
  PROVE  Core'
<1>1. wID[w] \in IDs
  BY DEF Core, WorkerStands
<1>2. TypeOK'
  BY <1>1 DEF Core, TypeOK, Goto, WorkerPCs, poolVars, runVars, orderVars, outVars
<1>3. wPC'[w] = "put"
  BY DEF Core, TypeOK, Goto
<1>4. WorkerStands(w)'
  BY <1>3 DEF Core, WorkerStands
<1>5. QED
  BY <1>2, <1>4, LightStep DEF poolVars, runVars

\* The next job.
LEMMA WorkerTakeCore ==
  ASSUME Core, NEW w \in Workers, WorkerTake(w)
  PROVE  Core'
<1> DEFINE b == Head(jobs)
<1>1. /\ wPC[w] = "idle" /\ jobs # <<>> /\ Goto(w, "decode")
      /\ wBuf' = [wBuf EXCEPT ![w] = b] /\ jobs' = Tail(jobs)
      /\ UNCHANGED <<benchMode, poolVars, runVars, wID, wOut, dedup, orderVars, outVars,
                     acked, stage, crashed, arrivals>>
  BY DEF WorkerTake
<1>2. TypeOK /\ wBuf[w] = NoBuf
  BY <1>1 DEF Core, WorkerStands
<1>3. /\ b \in Bufs /\ Tail(jobs) \in Seq(Bufs) /\ Len(Tail(jobs)) = Len(jobs) - 1
      /\ jobs \in Seq(Bufs) /\ Len(jobs) \in Nat
  BY <1>1, <1>2, Shapes, HeadTailProperties
<1>4. TypeOK'
  <2>1. jobs' \in Seq(Bufs) /\ Len(jobs') <= JobsCap
    <3>1. Len(jobs) <= JobsCap /\ jobs' = Tail(jobs)
      BY <1>1, <1>2 DEF TypeOK
    <3>2. QED
      BY <1>3, <3>1, Params
  <2> HIDE DEF b
  <2>2. QED
    BY <1>1, <1>2, <1>3, <2>1 DEF TypeOK, Goto, WorkerPCs, poolVars, runVars, orderVars, outVars
<1>5. BufferInOnePlace'
  <2>1. ASSUME NEW a \in Bufs PROVE Places(a)' = 1
    <3>1. /\ IsFiniteSet(DOMAIN wBuf) /\ DOMAIN wBuf = Workers
          /\ pool[a] \in Nat /\ Occurs(jobs, a) \in Nat /\ Holders(wBuf, a) \in Nat
      BY <1>2, Shapes
    <3>2. Occurs(Tail(jobs), a) = Occurs(jobs, a) - IF b = a THEN 1 ELSE 0
      BY <1>1, <1>3, OccursTail
    <3> HIDE DEF b
    <3>3. /\ DOMAIN wBuf' = DOMAIN wBuf /\ wBuf'[w] = b
          /\ \A u \in DOMAIN wBuf : u # w => wBuf'[u] = wBuf[u]
      BY <1>1, <3>1
    <3>4. Holders(wBuf', a) = Holders(wBuf, a) - (IF wBuf[w] = a THEN 1 ELSE 0)
                                               + (IF b = a THEN 1 ELSE 0)
      BY <3>1, <3>3, HoldersExcept
    <3>5. /\ Places(a) = 1 /\ wBuf[w] # a /\ jobs' = Tail(jobs)
          /\ pool' = pool /\ runBuf' = runBuf
      BY <1>1, <1>2, Params DEF Core, BufferInOnePlace, poolVars, runVars
    <3>6. /\ Places(a) = pool[a] + (IF runBuf = a THEN 1 ELSE 0) + Occurs(jobs, a) + Holders(wBuf, a)
          /\ Places(a)' = pool'[a] + (IF runBuf' = a THEN 1 ELSE 0) + Occurs(jobs', a)
                             + Holders(wBuf', a)
      BY DEF Places
    <3>7. QED
      BY <3>1, <3>2, <3>4, <3>5, <3>6
  <2>2. QED
    BY <2>1 DEF BufferInOnePlace
<1>6. LinesConserved' /\ BufferExact' /\ AckAfterOutput'
  BY <1>1 DEF Core, LinesConserved, Lines, BufferExact, AckAfterOutput, outVars, orderVars
<1>7. ASSUME NEW u \in Workers PROVE WorkerStands(u)'
  <2>1. CASE u = w
    <3>1. wPC'[w] = "decode" /\ wBuf'[w] \in Bufs
      <4> HIDE DEF b
      <4>1. QED
        BY <1>1, <1>2, <1>3 DEF TypeOK, Goto
    <3>2. QED
      BY <1>1, <2>1, <3>1, Params DEF Core, WorkerStands
  <2>2. CASE u # w
    <3>1. wPC'[u] = wPC[u] /\ wBuf'[u] = wBuf[u]
      BY <1>1, <1>2, <2>2 DEF TypeOK, Goto
    <3>2. QED
      BY <1>1, <3>1, OthersStand DEF Known, orderVars
  <2>3. QED
    BY <2>1, <2>2
<1>8. QED
  BY <1>4, <1>5, <1>6, <1>7 DEF Core

\* The buffer goes back to the pool.
LEMMA WorkerPutCore ==
  ASSUME Core, NEW w \in Workers, WorkerPut(w)
  PROVE  Core'
<1> DEFINE b == wBuf[w]
<1>1. /\ wPC[w] = "put" /\ Goto(w, "idle")
      /\ pool' = [pool EXCEPT ![b] = @ + 1] /\ content' = [content EXCEPT ![b] = Bad]
      /\ wBuf' = [wBuf EXCEPT ![w] = NoBuf] /\ wID' = [wID EXCEPT ![w] = None]
      /\ UNCHANGED <<benchMode, runVars, jobs, wOut, dedup, orderVars, outVars, acked,
                     stage, crashed, arrivals>>
  BY DEF WorkerPut, PutBuf
<1>2. TypeOK /\ b \in Bufs
  BY <1>1 DEF Core, WorkerStands, TypeOK
<1>3. TypeOK'
  BY <1>1, <1>2, SMTT(30) DEF TypeOK, Goto, WorkerPCs, Datagrams, runVars, orderVars, outVars
<1>4. BufferInOnePlace'
  <2>1. ASSUME NEW a \in Bufs PROVE Places(a)' = 1
    <3>1. /\ IsFiniteSet(DOMAIN wBuf) /\ DOMAIN wBuf = Workers
          /\ pool[a] \in Nat /\ Occurs(jobs, a) \in Nat /\ Holders(wBuf, a) \in Nat
      BY <1>2, Shapes
    <3>2. pool'[a] = pool[a] + IF b = a THEN 1 ELSE 0
      BY <1>1, <1>2, <3>1 DEF TypeOK
    <3>3. /\ DOMAIN wBuf' = DOMAIN wBuf /\ wBuf'[w] = NoBuf
          /\ \A u \in DOMAIN wBuf : u # w => wBuf'[u] = wBuf[u]
      BY <1>1, <3>1
    <3>4. Holders(wBuf', a) = Holders(wBuf, a) - (IF wBuf[w] = a THEN 1 ELSE 0)
                                               + (IF NoBuf = a THEN 1 ELSE 0)
      BY <3>1, <3>3, HoldersExcept
    <3>5. Places(a) = 1 /\ NoBuf # a /\ jobs' = jobs /\ runBuf' = runBuf
      BY <1>1, Params DEF Core, BufferInOnePlace, runVars
    <3>6. /\ Places(a) = pool[a] + (IF runBuf = a THEN 1 ELSE 0) + Occurs(jobs, a) + Holders(wBuf, a)
          /\ Places(a)' = pool'[a] + (IF runBuf' = a THEN 1 ELSE 0) + Occurs(jobs', a)
                             + Holders(wBuf', a)
      BY DEF Places
    <3>7. QED
      BY <3>1, <3>2, <3>4, <3>5, <3>6
  <2>2. QED
    BY <2>1 DEF BufferInOnePlace
<1>5. LinesConserved' /\ BufferExact' /\ AckAfterOutput'
  BY <1>1 DEF Core, LinesConserved, Lines, BufferExact, AckAfterOutput, outVars, orderVars
<1>6. ASSUME NEW u \in Workers PROVE WorkerStands(u)'
  <2>1. CASE u = w
    <3>1. wPC'[w] = "idle" /\ wBuf'[w] = NoBuf
      BY <1>1, <1>2 DEF TypeOK, Goto
    <3>2. QED
      BY <1>1, <2>1, <3>1 DEF Core, WorkerStands
  <2>2. CASE u # w
    <3>1. wPC'[u] = wPC[u] /\ wBuf'[u] = wBuf[u] /\ wID'[u] = wID[u]
      BY <1>1, <1>2, <2>2 DEF TypeOK, Goto
    <3>2. QED
      BY <1>1, <3>1, OthersStand DEF Known, orderVars
  <2>3. QED
    BY <2>1, <2>2
<1>7. QED
  BY <1>3, <1>4, <1>5, <1>6 DEF Core

LEMMA InsertBodyHere ==
  ASSUME NEW id \in IDs, id \in OBP!Ids, OBP!Waiting, OBP!InsertBody(id, id),
         1 \in Nat /\ 1 \in Nat \ {0} /\ TotalPackets \in Nat /\ 1 <= TotalPackets
  PROVE  /\ OBP!Waiting'
         /\ nextID' \in nextID..TotalPackets+1
         /\ \A k \in Int : (k < nextID' \/ k \in DOMAIN buffer')
                            <=> (k < nextID \/ k \in DOMAIN buffer \/ k = id)
         /\ \A k \in DOMAIN buffer' : \/ k \in DOMAIN buffer /\ buffer'[k] = buffer[k]
                                      \/ k = id /\ buffer'[k] = id
         /\ OBP!Batch(id, id) \in Seq(IDs)
         /\ Len(OBP!Batch(id, id)) = nextID' - nextID
         /\ \A i \in 1..Len(OBP!Batch(id, id)) :
               \/ nextID + i - 1 = id /\ OBP!Batch(id, id)[i] = id
               \/ /\ nextID + i - 1 \in DOMAIN buffer
                  /\ OBP!Batch(id, id)[i] = buffer[nextID + i - 1]
<1>1. OBP!Waiting'
  BY OBP!InsertBodyFacts
<1>2. nextID' \in nextID..TotalPackets+1
  BY OBP!InsertBodyFacts
<1>3. \A k \in Int : (k < nextID' \/ k \in DOMAIN buffer')
                      <=> (k < nextID \/ k \in DOMAIN buffer \/ k = id)
  BY OBP!InsertBodyFacts
<1>4. \A k \in DOMAIN buffer' : \/ k \in DOMAIN buffer /\ buffer'[k] = buffer[k]
                                \/ k = id /\ buffer'[k] = id
  BY OBP!InsertBodyFacts
<1>5. OBP!Batch(id, id) \in Seq(IDs) /\ Len(OBP!Batch(id, id)) = nextID' - nextID
  BY OBP!InsertBodyFacts
<1>6. \A i \in 1..Len(OBP!Batch(id, id)) :
         \/ nextID + i - 1 = id /\ OBP!Batch(id, id)[i] = id
         \/ /\ nextID + i - 1 \in DOMAIN buffer
            /\ OBP!Batch(id, id)[i] = buffer[nextID + i - 1]
  BY OBP!BatchValues
<1>7. QED
  BY <1>1, <1>2, <1>3, <1>4, <1>5, <1>6

\* What Insert does with the line of an id, as the ordered buffer's proofs give it.
LEMMA InsertFacts ==
  ASSUME Core, NEW id \in IDs, OB!InsertBody(id, id)
  PROVE  /\ nextID' \in nextID..TotalPackets+1 /\ nextID \in Int
         /\ \A k \in Int : (k < nextID' \/ k \in DOMAIN buffer')
                            <=> (k < nextID \/ k \in DOMAIN buffer \/ k = id)
         /\ DOMAIN buffer' \subseteq IDs
         /\ \A k \in DOMAIN buffer' : buffer'[k] = k /\ k > nextID'
         /\ OB!Batch(id, id) \in Seq(IDs)
         /\ Len(OB!Batch(id, id)) = nextID' - nextID
         /\ \A i \in 1..Len(OB!Batch(id, id)) : OB!Batch(id, id)[i] = nextID + i - 1
<1>1. 1 \in Nat /\ 1 \in Nat \ {0} /\ TotalPackets \in Nat /\ 1 <= TotalPackets
  BY Params DEF IDs
<1>2. OBP!Waiting
  BY <1>1 DEF OBP!Waiting, OBP!Ids, Core, TypeOK, BufferExact, IDs
<1>3. id \in OBP!Ids
  BY <1>1 DEF OBP!Ids, IDs
<1>4. OBP!InsertBody(id, id)
  BY DEF OB!InsertBody, OBP!InsertBody, OB!Filled, OBP!Filled, OB!RunEnd, OBP!RunEnd
<1>5. OB!Batch(id, id) = OBP!Batch(id, id)
  BY DEF OB!Batch, OBP!Batch, OB!Filled, OBP!Filled, OB!RunEnd, OBP!RunEnd
<1>6. /\ OBP!Waiting'
      /\ nextID' \in nextID..TotalPackets+1
      /\ \A k \in Int : (k < nextID' \/ k \in DOMAIN buffer')
                         <=> (k < nextID \/ k \in DOMAIN buffer \/ k = id)
      /\ \A k \in DOMAIN buffer' : \/ k \in DOMAIN buffer /\ buffer'[k] = buffer[k]
                                   \/ k = id /\ buffer'[k] = id
      /\ OBP!Batch(id, id) \in Seq(IDs)
      /\ Len(OBP!Batch(id, id)) = nextID' - nextID
      /\ \A i \in 1..Len(OBP!Batch(id, id)) :
            \/ nextID + i - 1 = id /\ OBP!Batch(id, id)[i] = id
            \/ /\ nextID + i - 1 \in DOMAIN buffer
               /\ OBP!Batch(id, id)[i] = buffer[nextID + i - 1]
  BY <1>1, <1>2, <1>3, <1>4, InsertBodyHere
<1>7. nextID \in Int
  BY <1>1 DEF Core, TypeOK
<1>8. DOMAIN buffer' \subseteq IDs /\ \A k \in DOMAIN buffer' : buffer'[k] = k
  BY <1>6 DEF Core, TypeOK, BufferExact
<1>9. \A k \in DOMAIN buffer' : k > nextID'
  BY <1>6 DEF OBP!Waiting
<1>10. \A i \in 1..Len(OBP!Batch(id, id)) : OBP!Batch(id, id)[i] = nextID + i - 1
  BY <1>6 DEF Core, BufferExact
<1>11. QED
  BY <1>5, <1>6, <1>7, <1>8, <1>9, <1>10

\* orderedBuf.Insert
LEMMA InsertLineCore ==
  ASSUME Core, NEW w \in Workers, InsertLine(w)
  PROVE  Core'
<1> DEFINE id == wID[w]
           batch == OB!Batch(id, id)
<1>1. /\ wPC[w] = "insert" /\ OB!InsertBody(id, id)
      /\ wOut' = [wOut EXCEPT ![w] = batch]
      /\ Goto(w, IF wOut'[w] = <<>> THEN "ack" ELSE "output")
      /\ UNCHANGED <<benchMode, poolVars, runVars, jobs, wBuf, wID, dedup, outVars, acked,
                     stage, crashed, arrivals>>
  BY DEF InsertLine
<1>2. TypeOK /\ id \in IDs /\ wOut[w] = <<>>
  BY <1>1 DEF Core, WorkerStands
<1>3. /\ nextID' \in nextID..TotalPackets+1 /\ nextID \in Int
      /\ \A k \in Int : (k < nextID' \/ k \in DOMAIN buffer')
                         <=> (k < nextID \/ k \in DOMAIN buffer \/ k = id)
      /\ DOMAIN buffer' \subseteq IDs
      /\ \A k \in DOMAIN buffer' : buffer'[k] = k /\ k > nextID'
      /\ batch \in Seq(IDs) /\ Len(batch) = nextID' - nextID
      /\ \A i \in 1..Len(batch) : batch[i] = nextID + i - 1
  BY <1>1, <1>2, InsertFacts
<1> HIDE DEF batch
<1>4. wOut'[w] = batch /\ \A u \in Workers : u # w => wOut'[u] = wOut[u]
  BY <1>1, <1>2 DEF TypeOK
<1>5. TypeOK'
  <2>1. nextID' \in 1..TotalPackets+1 /\ \A k \in DOMAIN buffer' : buffer'[k] \in IDs
    BY <1>2, <1>3, Params DEF TypeOK
  <2>2. wOut' \in [Workers -> Seq(IDs)]
    BY <1>1, <1>2, <1>3 DEF TypeOK
  <2>3. wPC' \in [Workers -> WorkerPCs]
    BY <1>1, <1>2 DEF TypeOK, Goto, WorkerPCs
  <2>4. QED
    BY <1>1, <1>2, <1>3, <2>1, <2>2, <2>3 DEF TypeOK, poolVars, runVars, outVars
<1>6. BufferInOnePlace'
  BY <1>1 DEF Core, BufferInOnePlace, Places, poolVars, runVars
<1>7. ASSUME NEW x \in IDs PROVE Known(x) => Known(x)'
  BY <1>3, <1>7, Params DEF Known, IDs
<1>8. LinesConserved'
  <2>1. ASSUME NEW x \in IDs PROVE Lines(x)' = IF x < nextID' THEN 1 ELSE 0
    <3>1. /\ IsFiniteSet(DOMAIN wOut) /\ DOMAIN wOut = Workers
          /\ \A u \in DOMAIN wOut : wOut[u] \in Seq(IDs)
          /\ printed \in Seq(IDs) /\ outputCh \in Seq(IDs)
      BY <1>2, Shapes
    <3>2. DOMAIN wOut' = DOMAIN wOut
      BY <1>1
    <3>3. Entries(wOut', x) = Entries(wOut, x) - Occurs(wOut[w], x) + Occurs(batch, x)
             /\ Entries(wOut, x) \in Nat
      BY <1>3, <1>4, <3>1, <3>2, EntriesExcept
    <3>4. Occurs(wOut[w], x) = 0
      BY <1>2, OccursEmpty
    <3>5. x \in Int /\ nextID \in Int /\ nextID' \in Int /\ nextID <= nextID'
      BY <1>3, Params DEF IDs
    <3>6. Occurs(batch, x) = IF nextID <= x /\ x < nextID + Len(batch) THEN 1 ELSE 0
      BY <1>3, <3>5, OccursRun
    <3>7. /\ Occurs(printed, x) \in Nat /\ Occurs(outputCh, x) \in Nat
          /\ printed' = printed /\ outputCh' = outputCh
      BY <1>1, <3>1, OccursNat DEF outVars
    <3>8. Lines(x) = IF x < nextID THEN 1 ELSE 0
      BY DEF Core, LinesConserved
    <3>9. /\ Lines(x) = Occurs(printed, x) + Occurs(outputCh, x) + Entries(wOut, x)
          /\ Lines(x)' = Occurs(printed', x) + Occurs(outputCh', x) + Entries(wOut', x)
      BY DEF Lines
    <3>10. nextID + Len(batch) = nextID'
      <4>1. Len(batch) = nextID' - nextID
        BY <1>3
      <4>2. \A m, n \in Int : m + (n - m) = n
        OBVIOUS
      <4>3. QED
        BY <3>5, <4>1, <4>2, Zenon
    <3>11. Lines(x)' = Lines(x) + Occurs(batch, x)
      <4>1. Occurs(batch, x) \in Nat
        BY <1>3, OccursNat
      <4>2. QED
        BY <3>3, <3>4, <3>7, <3>9, <4>1
    <3>12. QED
      BY <3>5, <3>6, <3>8, <3>10, <3>11
  <2>2. QED
    BY <2>1 DEF LinesConserved
<1>9. BufferExact' /\ AckAfterOutput'
  <2>1. acked' = acked /\ acked \subseteq IDs /\ benchMode' = benchMode
    BY <1>1, <1>2 DEF TypeOK
  <2>2. QED
    BY <1>3, <1>7, <2>1 DEF Core, AckAfterOutput, BufferExact, Known
<1>10. ASSUME NEW u \in Workers PROVE WorkerStands(u)'
  <2>1. CASE u = w
    <3>1. wPC'[w] = IF batch = <<>> THEN "ack" ELSE "output"
      BY <1>1, <1>2, <1>4 DEF TypeOK, Goto
    <3>2. id < nextID' \/ id \in DOMAIN buffer'
      <4>1. id \in Int
        BY <1>2, Params DEF IDs
      <4>2. QED
        BY <1>3, <4>1
    <3>3. /\ wBuf'[w] = wBuf[w] /\ wID'[w] = id /\ benchMode' = benchMode
          /\ wBuf[w] # NoBuf
      BY <1>1 DEF Core, WorkerStands
    <3>4. QED
      BY <1>1, <1>2, <1>4, <2>1, <3>1, <3>2, <3>3 DEF WorkerStands, Known
  <2>2. CASE u # w
    <3>1. wPC'[u] = wPC[u]
      BY <1>1, <1>2, <2>2 DEF TypeOK, Goto
    <3>2. QED
      BY <1>1, <1>4, <1>7, <2>2, <3>1, OthersStand
  <2>3. QED
    BY <2>1, <2>2
<1>11. QED
  BY <1>5, <1>6, <1>8, <1>9, <1>10 DEF Core

\* s.outputCh <- r
LEMMA SendLineCore ==
  ASSUME Core, NEW w \in Workers, SendLine(w)
  PROVE  Core'
<1> DEFINE h == Head(wOut[w])
           rest == Tail(wOut[w])
<1>1. /\ wPC[w] = "output" /\ Len(outputCh) < OutputCap
      /\ outputCh' = Append(outputCh, h) /\ wOut' = [wOut EXCEPT ![w] = rest]
      /\ Goto(w, IF wOut'[w] = <<>> THEN "ack" ELSE "output")
      /\ UNCHANGED <<benchMode, poolVars, runVars, jobs, wBuf, wID, dedup, orderVars, printed,
                     acked, stage, crashed, arrivals>>
  BY DEF SendLine
<1>2. TypeOK /\ wOut[w] # <<>>
  BY <1>1 DEF Core, WorkerStands
<1>3. /\ wOut[w] \in Seq(IDs) /\ h \in IDs /\ rest \in Seq(IDs)
      /\ outputCh \in Seq(IDs) /\ Len(outputCh) \in Nat
  BY <1>2, Shapes, HeadTailProperties
<1>4. /\ outputCh' \in Seq(IDs) /\ Len(outputCh') <= OutputCap
  <2>1. Append(outputCh, h) \in Seq(IDs) /\ Len(Append(outputCh, h)) = Len(outputCh) + 1
    BY <1>3, AppendProperties
  <2> HIDE DEF h
  <2>2. QED
    BY <1>1, <1>3, <2>1, Params
<1>5. ASSUME NEW x \in IDs
      PROVE  /\ Occurs(outputCh', x) = Occurs(outputCh, x) + IF h = x THEN 1 ELSE 0
             /\ Occurs(rest, x) = Occurs(wOut[w], x) - IF h = x THEN 1 ELSE 0
             /\ Occurs(wOut[w], x) \in Nat /\ Occurs(outputCh, x) \in Nat
  <2>1. Occurs(rest, x) = Occurs(wOut[w], x) - IF h = x THEN 1 ELSE 0
    BY <1>2, <1>3, OccursTail
  <2> HIDE DEF h, rest
  <2>2. Occurs(Append(outputCh, h), x) = Occurs(outputCh, x) + IF h = x THEN 1 ELSE 0
    BY <1>3, OccursAppend
  <2>3. QED
    BY <1>1, <1>3, <2>1, <2>2, OccursNat
<1> HIDE DEF h, rest
<1>6. /\ wOut'[w] = rest /\ DOMAIN wOut' = Workers
      /\ \A u \in Workers : u # w => wOut'[u] = wOut[u]
  BY <1>1, <1>2 DEF TypeOK
<1>7. TypeOK'
  <2>1. wOut' \in [Workers -> Seq(IDs)] /\ wPC' \in [Workers -> WorkerPCs]
    BY <1>1, <1>2, <1>3 DEF TypeOK, Goto, WorkerPCs
  <2>2. QED
    BY <1>1, <1>2, <1>4, <2>1 DEF TypeOK, poolVars, runVars, orderVars
<1>8. BufferInOnePlace'
  BY <1>1 DEF Core, BufferInOnePlace, Places, poolVars, runVars
<1>9. LinesConserved'
  <2>1. ASSUME NEW x \in IDs PROVE Lines(x)' = IF x < nextID' THEN 1 ELSE 0
    <3>1. /\ IsFiniteSet(DOMAIN wOut) /\ DOMAIN wOut = Workers
          /\ \A u \in DOMAIN wOut : wOut[u] \in Seq(IDs)
          /\ printed \in Seq(IDs)
      BY <1>2, Shapes
    <3>2. Entries(wOut', x) = Entries(wOut, x) - Occurs(wOut[w], x) + Occurs(rest, x)
             /\ Entries(wOut, x) \in Nat
      BY <1>3, <1>6, <3>1, EntriesExcept
    <3>3. Occurs(printed, x) \in Nat /\ printed' = printed /\ nextID' = nextID
      BY <1>1, <3>1, OccursNat DEF orderVars
    <3>4. Lines(x) = IF x < nextID THEN 1 ELSE 0
      BY DEF Core, LinesConserved
    <3>5. /\ Lines(x) = Occurs(printed, x) + Occurs(outputCh, x) + Entries(wOut, x)
          /\ Lines(x)' = Occurs(printed', x) + Occurs(outputCh', x) + Entries(wOut', x)
      BY DEF Lines
    <3>6. Lines(x)' = Lines(x)
      BY <1>5, <3>2, <3>3, <3>5
    <3>7. QED
      BY <3>3, <3>4, <3>6
  <2>2. QED
    BY <2>1 DEF LinesConserved
<1>10. BufferExact' /\ AckAfterOutput'
  BY <1>1 DEF Core, AckAfterOutput, BufferExact, orderVars
<1>11. ASSUME NEW u \in Workers PROVE WorkerStands(u)'
  <2>1. CASE u = w
    <3>1. wPC'[w] = IF rest = <<>> THEN "ack" ELSE "output"
      BY <1>1, <1>2, <1>6 DEF TypeOK, Goto
    <3>2. wBuf' = wBuf /\ wID' = wID /\ WorkerStands(w) /\ Known(wID[w])' = Known(wID[w])
             /\ benchMode' = benchMode
      BY <1>1 DEF Core, Known, orderVars
    <3>3. QED
      BY <1>1, <1>6, <2>1, <3>1, <3>2 DEF WorkerStands, Known
  <2>2. CASE u # w
    <3>1. wPC'[u] = wPC[u]
      BY <1>1, <1>2, <2>2 DEF TypeOK, Goto
    <3>2. QED
      BY <1>1, <1>6, <2>2, <3>1, OthersStand DEF Known, orderVars
  <2>3. QED
    BY <2>1, <2>2
<1>12. QED
  BY <1>7, <1>8, <1>9, <1>10, <1>11 DEF Core

-----------------------------------------------------------------------------
(* The output, the duplicate memory, and Shutdown.                         *)

\* What leaves the pipeline alone keeps Core.
LEMMA PipelineAlone ==
  ASSUME Core, TypeOK', UNCHANGED <<benchMode, pool, runBuf, jobs, workerVars, orderVars, acked>>,
         \A id \in IDs : Lines(id)' = Lines(id)
  PROVE  Core'
<1>1. BufferInOnePlace' /\ BufferExact' /\ AckAfterOutput' /\ LinesConserved'
  BY DEF Core, BufferInOnePlace, Places, BufferExact, AckAfterOutput, LinesConserved,
     workerVars, orderVars
<1>2. \A w \in Workers : WorkerStands(w)'
  BY OthersStand DEF workerVars, orderVars, Known
<1>3. QED
  BY <1>1, <1>2 DEF Core

LEMMA OutputCore ==
  ASSUME Core, OutputPipeline
  PROVE  Core'
<1> DEFINE h == Head(outputCh)
<1>1. /\ outputCh # <<>> /\ printed' = Append(printed, h) /\ outputCh' = Tail(outputCh)
      /\ UNCHANGED <<benchMode, poolVars, runVars, jobs, workerVars, dedup, orderVars, acked,
                     stage, crashed, arrivals>>
  BY DEF OutputPipeline
<1>2. /\ TypeOK /\ h \in IDs /\ Tail(outputCh) \in Seq(IDs) /\ outputCh \in Seq(IDs)
      /\ Len(Tail(outputCh)) = Len(outputCh) - 1 /\ Len(outputCh) \in Nat
      /\ printed \in Seq(IDs)
  BY <1>1, Shapes, HeadTailProperties DEF Core
<1>3. ASSUME NEW x \in IDs
      PROVE  /\ Occurs(printed', x) = Occurs(printed, x) + IF h = x THEN 1 ELSE 0
             /\ Occurs(outputCh', x) = Occurs(outputCh, x) - IF h = x THEN 1 ELSE 0
             /\ Occurs(outputCh, x) \in Nat /\ Occurs(printed, x) \in Nat
  <2>1. Occurs(Tail(outputCh), x) = Occurs(outputCh, x) - IF h = x THEN 1 ELSE 0
    BY <1>1, <1>2, OccursTail
  <2> HIDE DEF h
  <2>2. Occurs(Append(printed, h), x) = Occurs(printed, x) + IF h = x THEN 1 ELSE 0
    BY <1>2, OccursAppend
  <2>3. QED
    BY <1>1, <1>2, <2>1, <2>2, OccursNat
<1>4. TypeOK'
  <2>1. Append(printed, h) \in Seq(IDs)
    BY <1>2, AppendProperties
  <2> HIDE DEF h
  <2>2. printed' \in Seq(IDs) /\ outputCh' \in Seq(IDs) /\ Len(outputCh') = Len(outputCh) - 1
    BY <1>1, <1>2, <2>1
  <2>3. Len(outputCh') <= OutputCap
    BY <1>2, <2>2, Params DEF TypeOK
  <2>4. QED
    BY <1>1, <1>2, <2>2, <2>3 DEF TypeOK, poolVars, runVars, workerVars, orderVars
<1> HIDE DEF h
<1>5. ASSUME NEW x \in IDs PROVE Lines(x)' = Lines(x)
  <2>1. /\ IsFiniteSet(DOMAIN wOut) /\ DOMAIN wOut = Workers
        /\ \A u \in DOMAIN wOut : wOut[u] \in Seq(IDs)
    BY <1>2, Shapes
  <2>2. wOut' = wOut
    BY <1>1 DEF workerVars
  <2>3. /\ Lines(x) = Occurs(printed, x) + Occurs(outputCh, x) + Entries(wOut, x)
        /\ Lines(x)' = Occurs(printed', x) + Occurs(outputCh', x) + Entries(wOut', x)
    BY DEF Lines
  <2>4. QED
    BY <1>3, <2>2, <2>3
<1>6. QED
  BY <1>1, <1>4, <1>5, PipelineAlone DEF poolVars, runVars

LEMMA ExpireCore ==
  ASSUME Core, NEW id \in IDs, DedupExpire(id)
  PROVE  Core'
<1>1. TypeOK'
  BY DEF Core, TypeOK, DedupExpire, poolVars, runVars, workerVars, orderVars, outVars
<1>2. \A x \in IDs : Lines(x)' = Lines(x)
  BY DEF DedupExpire, Lines, outVars, workerVars
<1>3. QED
  BY <1>1, <1>2, PipelineAlone DEF DedupExpire, poolVars, runVars

LEMMA ShutdownCore ==
  ASSUME Core, ShutdownStep
  PROVE  Core'
<1>1. stage' \in {Stages[i] : i \in 1..Len(Stages)} /\ crashed' \in BOOLEAN
  <2>1. Len(Stages) = 5
    BY DEF Stages
  <2>2. PICK i \in 1..4 : /\ crashed' = (Stages[i+1] = "outputClosed" /\ ~OutputMade)
                          /\ stage' = IF crashed' THEN stage ELSE Stages[i+1]
    BY <2>1 DEF ShutdownStep
  <2>3. i + 1 \in 1..5
    OBVIOUS
  <2>4. QED
    BY <2>1, <2>2, <2>3 DEF Core, TypeOK
<1>2. UNCHANGED <<benchMode, poolVars, runVars, jobs, workerVars, dedup, orderVars,
                  outVars, acked, arrivals>>
  BY DEF ShutdownStep
<1>3. TypeOK'
  BY <1>1, <1>2 DEF Core, TypeOK, poolVars, runVars, workerVars, orderVars, outVars
<1>4. \A x \in IDs : Lines(x)' = Lines(x)
  BY <1>2 DEF Lines, outVars, workerVars
<1>5. QED
  BY <1>2, <1>3, <1>4, PipelineAlone DEF poolVars, runVars

LEMMA PanicCore ==
  ASSUME Core, Panic
  PROVE  Core'
<1>1. TypeOK'
  BY DEF Core, TypeOK, Panic, poolVars, runVars, workerVars, orderVars, outVars
<1>2. \A x \in IDs : Lines(x)' = Lines(x)
  BY DEF Panic, Lines, outVars, workerVars
<1>3. QED
  BY <1>1, <1>2, PipelineAlone DEF Panic, poolVars, runVars

-----------------------------------------------------------------------------
(* The steps of the reading loop.                                          *)

\* What every step of a reading loop leaves alone.
ReadingStep ==
    /\ runPC' \in {"loop", "receive", "push", "done"} /\ arrivals' \in 0..MaxArrivals
    /\ UNCHANGED <<benchMode, workerVars, dedup, orderVars, outVars, acked, stage, crashed>>

LEMMA ReadingCore ==
  ASSUME Core, ReadingStep, BufferInOnePlace',
         pool' \in [Bufs -> Nat], content' \in [Bufs -> Datagrams],
         runBuf' \in Bufs \cup {NoBuf}, jobs' \in Seq(Bufs), Len(jobs') <= JobsCap
  PROVE  Core'
<1>1. TypeOK'
  BY DEF Core, TypeOK, ReadingStep, workerVars, orderVars, outVars
<1>2. BufferExact' /\ AckAfterOutput' /\ LinesConserved'
  BY DEF Core, ReadingStep, BufferExact, AckAfterOutput, LinesConserved, Lines,
     workerVars, orderVars, outVars
<1>3. \A w \in Workers : WorkerStands(w)'
  BY OthersStand DEF ReadingStep, workerVars, orderVars, Known
<1>4. QED
  BY <1>1, <1>2, <1>3 DEF Core

\* Run keeps what it has.
LEMMA KeepCore ==
  ASSUME Core, ReadingStep, content' \in [Bufs -> Datagrams], UNCHANGED <<pool, runBuf, jobs>>
  PROVE  Core'
<1>1. BufferInOnePlace'
  BY DEF Core, ReadingStep, BufferInOnePlace, Places, workerVars
<1>2. QED
  BY <1>1, ReadingCore DEF Core, TypeOK

\* bufPool.Get
LEMMA GetCore ==
  ASSUME Core, ReadingStep, content' \in [Bufs -> Datagrams], runBuf = NoBuf,
         pool' = [pool EXCEPT ![GetBuf] = @ - 1], runBuf' = GetBuf, jobs' = jobs
  PROVE  Core' /\ runBuf' \in Bufs
<1> DEFINE g == GetBuf
<1>1. TypeOK /\ g \in Bufs /\ pool[g] > 0
  BY GetNeverFails DEF Core
<1> HIDE DEF g
<1>2. pool' = [pool EXCEPT ![g] = @ - 1] /\ runBuf' = g
  BY DEF g
<1>3. pool \in [Bufs -> Nat] /\ pool[g] - 1 \in Nat
  BY <1>1 DEF TypeOK
<1>4. pool' \in [Bufs -> Nat]
  BY <1>2, <1>3
<1>5. BufferInOnePlace'
  <2>1. ASSUME NEW a \in Bufs PROVE Places(a)' = 1
    <3>1. pool[a] \in Nat /\ Occurs(jobs, a) \in Nat /\ Holders(wBuf, a) \in Nat
      BY <1>1, Shapes
    <3>2. pool'[a] = pool[a] - IF g = a THEN 1 ELSE 0
      BY <1>1, <1>2, <1>3, <3>1
    <3>3. Places(a) = 1 /\ NoBuf # a /\ wBuf' = wBuf /\ jobs' = jobs
      BY Params DEF Core, BufferInOnePlace, ReadingStep, workerVars
    <3>4. /\ Places(a) = pool[a] + (IF runBuf = a THEN 1 ELSE 0) + Occurs(jobs, a) + Holders(wBuf, a)
          /\ Places(a)' = pool'[a] + (IF runBuf' = a THEN 1 ELSE 0) + Occurs(jobs', a)
                             + Holders(wBuf', a)
      BY DEF Places
    <3>5. QED
      BY <1>2, <3>1, <3>2, <3>3, <3>4
  <2>2. QED
    BY <2>1 DEF BufferInOnePlace
<1>6. QED
  BY <1>1, <1>2, <1>4, <1>5, ReadingCore DEF TypeOK

\* bufPool.Put
LEMMA PutCore ==
  ASSUME Core, ReadingStep, runBuf \in Bufs, PutBuf(runBuf), runBuf' = NoBuf, jobs' = jobs
  PROVE  Core'
<1>1. TypeOK /\ pool \in [Bufs -> Nat]
  BY DEF Core, TypeOK
<1>2. pool' = [pool EXCEPT ![runBuf] = @ + 1] /\ content' = [content EXCEPT ![runBuf] = Bad]
  BY DEF PutBuf
<1>3. pool' \in [Bufs -> Nat] /\ content' \in [Bufs -> Datagrams]
  BY <1>1, <1>2 DEF TypeOK, Datagrams
<1>4. BufferInOnePlace'
  <2>1. ASSUME NEW a \in Bufs PROVE Places(a)' = 1
    <3>1. pool[a] \in Nat /\ Occurs(jobs, a) \in Nat /\ Holders(wBuf, a) \in Nat
      BY <1>1, Shapes
    <3>2. pool'[a] = pool[a] + IF runBuf = a THEN 1 ELSE 0
      BY <1>1, <1>2
    <3>3. Places(a) = 1 /\ NoBuf # a /\ wBuf' = wBuf /\ jobs' = jobs
      BY Params DEF Core, BufferInOnePlace, ReadingStep, workerVars
    <3>4. /\ Places(a) = pool[a] + (IF runBuf = a THEN 1 ELSE 0) + Occurs(jobs, a) + Holders(wBuf, a)
          /\ Places(a)' = pool'[a] + (IF runBuf' = a THEN 1 ELSE 0) + Occurs(jobs', a)
                             + Holders(wBuf', a)
      BY DEF Places
    <3>5. QED
      BY <3>1, <3>2, <3>3, <3>4
  <2>2. QED
    BY <2>1 DEF BufferInOnePlace
<1>5. QED
  BY <1>1, <1>3, <1>4, ReadingCore DEF TypeOK

\* s.jobs <- buf
LEMMA PushCore ==
  ASSUME Core, ReadingStep, runBuf \in Bufs, Len(jobs) < JobsCap,
         jobs' = Append(jobs, runBuf), UNCHANGED poolVars, runBuf' = NoBuf
  PROVE  Core'
<1>1. TypeOK /\ pool' = pool /\ content' = content
  BY DEF Core, poolVars
<1>2. jobs \in Seq(Bufs) /\ Len(jobs) \in Nat
  BY <1>1, Shapes
<1>3. jobs' \in Seq(Bufs) /\ Len(jobs') = Len(jobs) + 1
  BY <1>2, AppendProperties
<1>4. Len(jobs') <= JobsCap
  BY <1>2, <1>3, Params
<1>5. BufferInOnePlace'
  <2>1. ASSUME NEW a \in Bufs PROVE Places(a)' = 1
    <3>1. pool[a] \in Nat /\ Occurs(jobs, a) \in Nat /\ Holders(wBuf, a) \in Nat
      BY <1>1, Shapes
    <3>2. Occurs(jobs', a) = Occurs(jobs, a) + IF runBuf = a THEN 1 ELSE 0
      BY <1>2, OccursAppend
    <3>3. Places(a) = 1 /\ NoBuf # a /\ wBuf' = wBuf
      BY Params DEF Core, BufferInOnePlace, ReadingStep, workerVars
    <3>4. /\ Places(a) = pool[a] + (IF runBuf = a THEN 1 ELSE 0) + Occurs(jobs, a) + Holders(wBuf, a)
          /\ Places(a)' = pool'[a] + (IF runBuf' = a THEN 1 ELSE 0) + Occurs(jobs', a)
                             + Holders(wBuf', a)
      BY DEF Places
    <3>5. QED
      BY <1>1, <3>1, <3>2, <3>3, <3>4
  <2>2. QED
    BY <2>1 DEF BufferInOnePlace
<1>6. QED
  BY <1>1, <1>3, <1>4, <1>5, ReadingCore DEF TypeOK

-----------------------------------------------------------------------------
(* The server.                                                             *)

\* A worker's step that Run does not see.
LEMMA WorkerInv ==
  ASSUME ServerInv, NEW w \in Workers, Worker(w)
  PROVE  ServerInv'
<1>1. Core /\ RunStands
  BY DEF ServerInv
<1>2. CASE SendLinePanics(w)
  BY <1>1, <1>2, PanicCore DEF SendLinePanics, Panic, ServerInv, RunStands, runVars
<1>3. CASE SendAck(w)
  <2>1. Core'
    BY <1>1, <1>3, AckCore DEF SendAck
  <2>2. QED
    BY <1>1, <1>3, <2>1 DEF SendAck, ServerInv, RunStands, runVars
<1>4. CASE WorkerTake(w)
  BY <1>1, <1>4, WorkerTakeCore DEF WorkerTake, ServerInv, RunStands, runVars
<1>5. CASE WorkerEnd(w)
  BY <1>1, <1>5, WorkerEndCore DEF WorkerEnd, ServerInv, RunStands, runVars
<1>6. CASE Decode(w)
  BY <1>1, <1>6, DecodeCore DEF Decode, ServerInv, RunStands, runVars
<1>7. CASE Mark(w)
  BY <1>1, <1>7, MarkCore DEF Mark, ServerInv, RunStands, runVars
<1>8. CASE InsertLine(w)
  BY <1>1, <1>8, InsertLineCore DEF InsertLine, ServerInv, RunStands, runVars
<1>9. CASE SendLine(w)
  BY <1>1, <1>9, SendLineCore DEF SendLine, ServerInv, RunStands, runVars
<1>10. CASE WorkerPut(w)
  BY <1>1, <1>10, WorkerPutCore DEF WorkerPut, ServerInv, RunStands, runVars
<1>11. QED
  BY <1>2, <1>3, <1>4, <1>5, <1>6, <1>7, <1>8, <1>9, <1>10 DEF Worker

\* Run's step.
LEMMA RunInv ==
  ASSUME ServerInv, Run \/ RunReceiveError \/ \E d \in Datagrams : RunReceive(d)
  PROVE  ServerInv'
<1>1. Core /\ RunStands /\ TypeOK
  BY DEF ServerInv, Core
<1>2. arrivals \in 0..MaxArrivals /\ content \in [Bufs -> Datagrams] /\ MaxArrivals \in Nat
  BY <1>1, Params DEF TypeOK
<1>3. CASE RunLoop
  <2>1. ReadingStep /\ runBuf = NoBuf /\ content' = content /\ jobs' = jobs
    BY <1>1, <1>2, <1>3 DEF RunLoop, ReadingStep, RunStands
  <2>2. CASE Reached("stopClosed")
    <3>1. runPC' = "done" /\ UNCHANGED <<pool, runBuf>>
      BY <1>3, <2>2 DEF RunLoop
    <3>2. Core'
      BY <1>1, <1>2, <2>1, <3>1, KeepCore
    <3>3. QED
      BY <2>1, <3>1, <3>2 DEF ServerInv, RunStands
  <2>3. CASE ~Reached("stopClosed")
    <3>1. runPC' = "receive" /\ pool' = [pool EXCEPT ![GetBuf] = @ - 1] /\ runBuf' = GetBuf
      BY <1>3, <2>3 DEF RunLoop
    <3>2. Core' /\ runBuf' \in Bufs
      BY <1>1, <1>2, <2>1, <3>1, GetCore
    <3>3. QED
      BY <3>1, <3>2 DEF ServerInv, RunStands
  <2>4. QED
    BY <2>2, <2>3
<1>4. ASSUME NEW d \in Datagrams, RunReceive(d) PROVE ServerInv'
  <2>1. /\ ReadingStep /\ runPC' = "push" /\ runBuf \in Bufs /\ UNCHANGED <<pool, runBuf, jobs>>
        /\ content' = [content EXCEPT ![runBuf] = d]
    BY <1>1, <1>2, <1>4 DEF RunReceive, ReadingStep, RunStands
  <2>2. content' \in [Bufs -> Datagrams]
    BY <1>2, <2>1
  <2>3. Core'
    BY <1>1, <2>1, <2>2, KeepCore
  <2>4. QED
    BY <2>1, <2>3 DEF ServerInv, RunStands
<1>5. CASE RunReceiveError
  <2>1. /\ ReadingStep /\ runPC' \in {"loop", "done"} /\ runBuf \in Bufs /\ runBuf' = NoBuf
        /\ PutBuf(runBuf) /\ jobs' = jobs
    BY <1>1, <1>2, <1>5 DEF RunReceiveError, ReadingStep, RunStands
  <2>2. Core'
    BY <1>1, <2>1, PutCore
  <2>3. QED
    BY <2>1, <2>2 DEF ServerInv, RunStands
<1>6. CASE RunPush
  <2>1. ReadingStep /\ runPC' = "loop" /\ runBuf \in Bufs /\ runBuf' = NoBuf
    BY <1>1, <1>2, <1>6 DEF RunPush, ReadingStep, RunStands
  <2>2. CASE Len(jobs) < JobsCap
    <3>1. jobs' = Append(jobs, runBuf) /\ UNCHANGED poolVars
      BY <1>6, <2>2 DEF RunPush
    <3>2. Core'
      BY <1>1, <2>1, <2>2, <3>1, PushCore
    <3>3. QED
      BY <2>1, <3>2 DEF ServerInv, RunStands
  <2>3. CASE ~(Len(jobs) < JobsCap)
    <3>1. PutBuf(runBuf) /\ jobs' = jobs
      BY <1>6, <2>3 DEF RunPush
    <3>2. Core'
      BY <1>1, <2>1, <3>1, PutCore
    <3>3. QED
      BY <2>1, <3>2 DEF ServerInv, RunStands
  <2>4. QED
    BY <2>2, <2>3
<1>7. CASE RunPushPanics
  BY <1>1, <1>7, PanicCore DEF RunPushPanics, Panic, ServerInv, RunStands, runVars
<1>8. QED
  BY <1>3, <1>4, <1>5, <1>6, <1>7 DEF Run

\* Every step of the server keeps the invariant.
LEMMA ServerStep == ServerInv /\ [Next]_vars => ServerInv'
<1> SUFFICES ASSUME ServerInv, [Next]_vars PROVE ServerInv'
  OBVIOUS
<1>1. Core /\ RunStands /\ TypeOK
  BY DEF ServerInv, Core
<1>2. CASE Run \/ RunReceiveError \/ \E d \in Datagrams : RunReceive(d)
  BY <1>2, RunInv
<1>3. ASSUME NEW w \in Workers, Worker(w) PROVE ServerInv'
  BY <1>3, WorkerInv
<1>4. CASE OutputPipeline
  BY <1>1, <1>4, OutputCore DEF OutputPipeline, ServerInv, RunStands, runVars
<1>5. ASSUME NEW id \in IDs, DedupExpire(id) PROVE ServerInv'
  BY <1>1, <1>5, ExpireCore DEF DedupExpire, ServerInv, RunStands, runVars
<1>6. CASE ShutdownStep
  BY <1>1, <1>6, ShutdownCore DEF ShutdownStep, ServerInv, RunStands, runVars
<1>7. CASE UNCHANGED vars
  <2>1. UNCHANGED <<benchMode, poolVars, runVars, jobs, workerVars, dedup, orderVars, outVars,
                    acked, stage, crashed, arrivals>>
    BY <1>7 DEF vars
  <2>2. ReadingStep /\ content' \in [Bufs -> Datagrams]
    BY <1>1, <2>1 DEF TypeOK, ReadingStep, runVars, poolVars
  <2>3. QED
    BY <1>1, <2>1, <2>2, KeepCore DEF ServerInv, RunStands, runVars, poolVars
<1>8. QED
  BY <1>2, <1>3, <1>4, <1>5, <1>6, <1>7 DEF Next

\* The inductive invariant holds throughout.
THEOREM ServerCorrect == Spec => []ServerInv
BY InitServer, ServerStep, PTL DEF Spec

\* Every variable keeps to its type: queues to their capacity, ids to 1..TotalPackets.
THEOREM ServerTypes == Spec => []TypeOK
BY ServerCorrect, PTL DEF ServerInv, Core

\* Every packet buffer is in exactly one place: in the pool, in Run's hands, in
\* s.jobs or with one worker (server.go:92-93, 111-129).
THEOREM ServerBuffers == Spec => []BufferInOnePlace
BY ServerCorrect, PTL DEF ServerInv, Core

\* Every id below nextID has one line, on the screen or on its way, and no other
\* has any, whatever two workers do with the same id (server.go:150-165).
THEOREM ServerLines == Spec => []LinesConserved
BY ServerCorrect, PTL DEF ServerInv, Core

\* No packet is acknowledged before its line is in the ordered buffer
\* (server.go:163-180).
THEOREM ServerAcks == Spec => []AckAfterOutput
BY ServerCorrect, PTL DEF ServerInv, Core

-----------------------------------------------------------------------------
(***************************************************************************)
(* The servers behind a stream.  A packet lies in a buffer, and a buffer is*)
(* in one place: so instead of counting where a packet is, the inductive   *)
(* invariant speaks of the buffers that are on their way, whose packets are*)
(* all different.                                                          *)
(***************************************************************************)

\* Who holds a packet that is neither acknowledged nor dropped.
Reader    == IF runPC = "push" THEN {runBuf} ELSE {}
Queue     == {jobs[i] : i \in 1..Len(jobs)}
Early     == {w \in Workers : wPC[w] \in {"decode", "mark"}}
Late      == {w \in Workers : wPC[w] \in {"insert", "output", "ack"}}
Unmarked  == Reader \cup Queue \cup {wBuf[w] : w \in Early}
OnTheWay  == Unmarked \cup {wBuf[w] : w \in Late}

\* What the reading loop has at each of its steps.
StreamStands ==
    /\ runPC \in {"loop", "done"} => runBuf = NoBuf
    /\ runPC = "receive" => IF quic THEN runBuf = NoBuf ELSE runBuf \in Bufs
    /\ runPC = "push" => runBuf \in Bufs

StreamTypes ==
    /\ quic \in BOOLEAN /\ connUp \in BOOLEAN
    /\ arrived \subseteq IDs /\ acked \subseteq arrived /\ overflowed \subseteq arrived
    /\ dedup \subseteq arrived

\* The packets on their way were read and not answered, and no two are the same;
\* while the connection works none is missing.
WaysApart ==
    /\ \A b \in OnTheWay : content[b] \in IDs => content[b] \in arrived \ (acked \cup overflowed)
    /\ \A b, c \in OnTheWay : content[b] \in IDs /\ content[b] = content[c] => b = c
    /\ acked \cap overflowed = {}
    /\ \A id \in arrived : \/ id \in acked \cup overflowed \/ ~connUp
                           \/ \E b \in OnTheWay : content[b] = id

\* A worker works on the packet in its buffer, and dedup does not know a packet
\* that no worker has marked.
WorkersKnow ==
    /\ \A w \in Workers : wPC[w] \in {"mark", "insert", "output", "ack"}
                              => wID[w] = content[wBuf[w]]
    /\ \A b \in Unmarked : content[b] \notin dedup

\* The inductive invariant.
StreamInv == Core /\ StreamStands /\ StreamTypes /\ WaysApart /\ WorkersKnow

-----------------------------------------------------------------------------
(* Where a buffer is.                                                      *)

\* A buffer in the jobs channel is nowhere else.
LEMMA QueuedOnce ==
  ASSUME TypeOK, BufferInOnePlace, NEW b \in Queue
  PROVE  /\ b \in Bufs /\ pool[b] = 0 /\ runBuf # b /\ \A w \in Workers : wBuf[w] # b
         /\ Occurs(jobs, b) = 1
<1>1. jobs \in Seq(Bufs) /\ IsFiniteSet(DOMAIN wBuf) /\ DOMAIN wBuf = Workers /\ Len(jobs) \in Nat
  BY Shapes
<1>2. PICK i \in 1..Len(jobs) : jobs[i] = b
  BY DEF Queue
<1>3. b \in Bufs
  BY <1>1, <1>2, ElementOfSeq
<1>4. /\ pool[b] \in Nat /\ Occurs(jobs, b) \in Nat /\ Holders(wBuf, b) \in Nat /\ Places(b) = 1
  BY <1>3, Shapes DEF BufferInOnePlace
<1>5. Occurs(jobs, b) > 0
  BY <1>1, <1>2, OccursSome
<1>6. pool[b] = 0 /\ runBuf # b /\ ~(Holders(wBuf, b) > 0) /\ Occurs(jobs, b) = 1
  BY <1>4, <1>5 DEF Places
<1>7. \A w \in Workers : wBuf[w] # b
  BY <1>1, <1>6, HoldersNat
<1>8. QED
  BY <1>3, <1>6, <1>7

\* The buffer of a worker is nowhere else.
LEMMA WorkerHolds ==
  ASSUME Core, NEW w \in Workers, wPC[w] \notin {"idle", "done"}
  PROVE  /\ wBuf[w] \in Bufs /\ wBuf[w] \notin Queue /\ runBuf # wBuf[w] /\ pool[wBuf[w]] = 0
         /\ \A u \in Workers : wBuf[u] = wBuf[w] => u = w
<1>1. TypeOK /\ BufferInOnePlace /\ wBuf[w] \in Bufs
  BY DEF Core, WorkerStands, TypeOK
<1>2. QED
  BY <1>1, HeldOnce DEF Queue

\* What is on its way is a buffer, and not in the pool.
LEMMA OnTheWayOut ==
  ASSUME Core, StreamStands, NEW b \in OnTheWay
  PROVE  b \in Bufs /\ pool[b] = 0
<1>1. TypeOK /\ BufferInOnePlace
  BY DEF Core
<1>2. CASE b \in Reader
  BY <1>1, <1>2, HeldOnce DEF Reader, StreamStands
<1>3. CASE b \in Queue
  BY <1>1, <1>3, QueuedOnce
<1>4. CASE \E w \in Early \cup Late : b = wBuf[w]
  BY <1>4, WorkerHolds DEF Early, Late
<1>5. QED
  BY <1>2, <1>3, <1>4 DEF OnTheWay, Unmarked

\* What a worker's move does to the buffers on their way.
LEMMA WorkerMoves ==
  ASSUME Core, NEW w \in Workers, wPC[w] \notin {"idle", "done"}, NEW pc, Goto(w, pc),
         wBuf' = wBuf, UNCHANGED <<runVars, jobs>>
  PROVE  /\ Unmarked' = (Unmarked \ {wBuf[w]})
                           \cup (IF pc \in {"decode", "mark"} THEN {wBuf[w]} ELSE {})
         /\ OnTheWay' = (OnTheWay \ {wBuf[w]})
                           \cup (IF pc \in {"decode", "mark", "insert", "output", "ack"}
                                 THEN {wBuf[w]} ELSE {})
<1>1. wPC'[w] = pc /\ \A u \in Workers : u # w => wPC'[u] = wPC[u]
  BY DEF Core, TypeOK, Goto
<1>2. Reader' = Reader /\ Queue' = Queue /\ wBuf[w] \notin Reader \cup Queue
  BY WorkerHolds DEF Reader, Queue, runVars
<1>3. \A u \in Workers : u # w => wBuf[u] # wBuf[w]
  BY WorkerHolds
<1>4. Early' = (Early \ {w}) \cup (IF pc \in {"decode", "mark"} THEN {w} ELSE {})
  BY <1>1 DEF Early
<1>5. Late' = (Late \ {w}) \cup (IF pc \in {"insert", "output", "ack"} THEN {w} ELSE {})
  BY <1>1 DEF Late
<1>6. {wBuf[u] : u \in Early'} = ({wBuf[u] : u \in Early} \ {wBuf[w]})
                                    \cup (IF pc \in {"decode", "mark"} THEN {wBuf[w]} ELSE {})
  BY <1>3, <1>4 DEF Early
<1>7. {wBuf[u] : u \in Late'} = ({wBuf[u] : u \in Late} \ {wBuf[w]})
                                    \cup (IF pc \in {"insert", "output", "ack"} THEN {wBuf[w]} ELSE {})
  BY <1>3, <1>5 DEF Late
<1>8. Unmarked' = (Unmarked \ {wBuf[w]})
                     \cup (IF pc \in {"decode", "mark"} THEN {wBuf[w]} ELSE {})
  BY <1>2, <1>6 DEF Unmarked
<1>9. QED
  BY <1>7, <1>8 DEF OnTheWay

-----------------------------------------------------------------------------
(* What a step does to WaysApart.                                          *)

\* The same packets are on their way.
LEMMA SameWays ==
  ASSUME WaysApart, OnTheWay' = OnTheWay, \A b \in OnTheWay : content'[b] = content[b],
         UNCHANGED <<arrived, acked, overflowed>>, connUp' => connUp
  PROVE  WaysApart'
BY DEF WaysApart

\* A packet leaves: acknowledged, dropped, or lost with the connection.
LEMMA WayEnds ==
  ASSUME WaysApart, NEW b \in OnTheWay, OnTheWay' = OnTheWay \ {b},
         \A c \in OnTheWay : c # b => content'[c] = content[c],
         UNCHANGED <<arrived, connUp>>,
         \/ /\ acked' = acked \cup ({content[b]} \cap IDs) /\ overflowed' = overflowed
         \/ /\ overflowed' = overflowed \cup ({content[b]} \cap IDs) /\ acked' = acked
         \/ UNCHANGED <<acked, overflowed>> /\ (content[b] \notin IDs \/ ~connUp),
         arrived \subseteq IDs
  PROVE  WaysApart'
<1>1. \A c \in OnTheWay' : c \in OnTheWay /\ c # b /\ content'[c] = content[c]
  OBVIOUS
<1>2. \A c \in OnTheWay' : content[c] \in IDs => content[c] # content[b]
  BY <1>1 DEF WaysApart
<1>3. \A c \in OnTheWay' : content'[c] \in IDs => content'[c] \in arrived' \ (acked' \cup overflowed')
  BY <1>1, <1>2 DEF WaysApart
<1>4. \A c, e \in OnTheWay' : content'[c] \in IDs /\ content'[c] = content'[e] => c = e
  BY <1>1 DEF WaysApart
<1>5. acked' \cap overflowed' = {}
  BY DEF WaysApart
<1>6. ASSUME NEW id \in arrived'
      PROVE  id \in acked' \cup overflowed' \/ ~connUp' \/ \E c \in OnTheWay' : content'[c] = id
  <2>1. CASE id = content[b]
    BY <1>6, <2>1
  <2>2. CASE id # content[b]
    BY <1>6, <2>2 DEF WaysApart
  <2>3. QED
    BY <2>1, <2>2
<1>7. QED
  BY <1>3, <1>4, <1>5, <1>6 DEF WaysApart

\* A packet comes.
LEMMA WayBegins ==
  ASSUME WaysApart, NEW b, b \notin OnTheWay, OnTheWay' = OnTheWay \cup {b},
         \A c \in OnTheWay : content'[c] = content[c],
         content'[b] \notin arrived, arrived' = arrived \cup ({content'[b]} \cap IDs),
         UNCHANGED <<acked, overflowed>>, acked \subseteq arrived, overflowed \subseteq arrived,
         connUp' = connUp
  PROVE  WaysApart'
<1>1. \A c \in OnTheWay' : content'[c] \in IDs => content'[c] \in arrived' \ (acked' \cup overflowed')
  BY DEF WaysApart
<1>2. \A c \in OnTheWay : content[c] \in IDs => content'[c] # content'[b]
  BY DEF WaysApart
<1>3. \A c, e \in OnTheWay' : content'[c] \in IDs /\ content'[c] = content'[e] => c = e
  BY <1>2 DEF WaysApart
<1>4. acked' \cap overflowed' = {}
  BY DEF WaysApart
<1>5. \A id \in arrived' : id \in acked' \cup overflowed' \/ ~connUp'
                             \/ \E c \in OnTheWay' : content'[c] = id
  BY DEF WaysApart
<1>6. QED
  BY <1>1, <1>3, <1>4, <1>5 DEF WaysApart

\* A step that leaves the packets where they are.
LEMMA Aside ==
  ASSUME StreamInv, Core', StreamStands', Reader' = Reader,
         UNCHANGED <<jobs, wPC, wBuf, wID, dedup, arrived, acked, overflowed, quic>>,
         \A b \in OnTheWay : content'[b] = content[b], connUp' \in BOOLEAN, connUp' => connUp
  PROVE  StreamInv'
<1>1. Unmarked' = Unmarked /\ OnTheWay' = OnTheWay
  BY DEF Queue, Early, Late, Unmarked, OnTheWay
<1>2. WaysApart'
  BY <1>1, SameWays DEF StreamInv
<1>3. StreamTypes'
  BY DEF StreamInv, StreamTypes
<1>4. \A w \in Workers : wPC[w] \in {"mark", "insert", "output", "ack"} => wBuf[w] \in OnTheWay
  BY DEF OnTheWay, Unmarked, Early, Late
<1>5. \A b \in Unmarked : b \in OnTheWay
  BY DEF OnTheWay
<1>6. WorkersKnow'
  BY <1>1, <1>4, <1>5 DEF StreamInv, WorkersKnow
<1>7. QED
  BY <1>2, <1>3, <1>6 DEF StreamInv

-----------------------------------------------------------------------------
(* The steps of the reading loop.                                          *)

LEMMA StreamLoopInv ==
  ASSUME StreamInv, StreamLoop
  PROVE  StreamInv'
<1>1. Core /\ StreamStands /\ TypeOK /\ StreamTypes
  BY DEF StreamInv, Core
<1>2. arrivals \in 0..MaxArrivals /\ content \in [Bufs -> Datagrams]
  BY <1>1 DEF TypeOK
<1>3. /\ ReadingStep /\ runBuf = NoBuf /\ runPC = "loop" /\ runPC' \in {"done", "receive"}
      /\ UNCHANGED <<content, jobs, connVars, workerVars, dedup, acked>>
  BY <1>1, <1>2 DEF StreamLoop, ReadingStep, StreamStands
<1>4. Core' /\ StreamStands'
  <2>1. CASE Reached("stopClosed") \/ quic
    <3>1. UNCHANGED <<pool, runBuf>> /\ (runPC' = "done" \/ quic)
      BY <2>1 DEF StreamLoop
    <3>2. Core'
      BY <1>1, <1>2, <1>3, <3>1, KeepCore
    <3>3. QED
      BY <1>3, <3>1, <3>2 DEF StreamStands, connVars
  <2>2. CASE ~(Reached("stopClosed") \/ quic)
    <3>1. runPC' = "receive" /\ pool' = [pool EXCEPT ![GetBuf] = @ - 1] /\ runBuf' = GetBuf
      BY <2>2 DEF StreamLoop
    <3>2. Core' /\ runBuf' \in Bufs
      BY <1>1, <1>2, <1>3, <3>1, GetCore
    <3>3. QED
      BY <1>3, <2>2, <3>1, <3>2 DEF StreamStands, connVars
  <2>3. QED
    BY <2>1, <2>2
<1>5. Reader' = Reader
  BY <1>3 DEF Reader
<1>6. connUp \in BOOLEAN
  BY <1>1 DEF StreamTypes
<1>7. QED
  BY <1>3, <1>4, <1>5, <1>6, Aside DEF connVars, workerVars

LEMMA StreamReceiveInv ==
  ASSUME StreamInv, NEW d \in Datagrams, StreamReceive(d)
  PROVE  StreamInv'
<1> DEFINE b == IF quic THEN GetBuf ELSE runBuf
<1>1. Core /\ StreamStands /\ TypeOK /\ BufferInOnePlace /\ StreamTypes /\ WaysApart /\ WorkersKnow
  BY DEF StreamInv, Core
<1>2. /\ runPC = "receive" /\ runPC' = "push" /\ runBuf' = b
      /\ pool' = IF quic THEN [pool EXCEPT ![b] = @ - 1] ELSE pool
      /\ content' = [content EXCEPT ![b] = d]
      /\ arrived' = arrived \cup ({d} \cap IDs) /\ d \notin arrived
      /\ UNCHANGED <<benchMode, jobs, workerVars, dedup, orderVars, outVars, acked, stage,
                     crashed, arrivals, quic, connUp, overflowed>>
  BY <1>1, Params DEF StreamReceive, StreamTypes
<1>3. b \in Bufs /\ (quic => runBuf = NoBuf /\ pool[b] > 0)
  BY <1>1, <1>2, GetNeverFails DEF StreamStands
<1>4. b \notin OnTheWay
  <2>1. CASE quic
    <3>1. ASSUME b \in OnTheWay PROVE FALSE
      BY <1>1, <1>3, <2>1, <3>1, OnTheWayOut
    <3>2. QED
      BY <3>1
  <2>2. CASE ~quic
    <3>1. runBuf = b /\ b \in Bufs /\ Reader = {}
      BY <1>2, <1>3, <2>2 DEF Reader
    <3>2. (\A i \in 1..Len(jobs) : jobs[i] # b) /\ (\A w \in Workers : wBuf[w] # b)
      BY <1>1, <3>1, HeldOnce
    <3>3. QED
      BY <3>1, <3>2 DEF OnTheWay, Unmarked, Queue, Early, Late
  <2>3. QED
    BY <2>1, <2>2
<1> HIDE DEF b
<1>5. ReadingStep /\ content' \in [Bufs -> Datagrams] /\ jobs' = jobs
  BY <1>1, <1>2, <1>3 DEF ReadingStep, TypeOK
<1>6. Core'
  <2>1. CASE quic
    <3>1. runBuf = NoBuf /\ pool' = [pool EXCEPT ![GetBuf] = @ - 1] /\ runBuf' = GetBuf
      BY <1>2, <1>3, <2>1 DEF b
    <3>2. QED
      BY <1>1, <1>5, <3>1, GetCore
  <2>2. CASE ~quic
    <3>1. UNCHANGED <<pool, runBuf, jobs>>
      BY <1>2, <2>2 DEF b
    <3>2. QED
      BY <1>1, <1>5, <3>1, KeepCore
  <2>3. QED
    BY <2>1, <2>2
<1>7. StreamStands'
  BY <1>2, <1>3 DEF StreamStands
<1>8. StreamTypes'
  BY <1>1, <1>2 DEF StreamTypes
<1>9. Unmarked' = Unmarked \cup {b} /\ OnTheWay' = OnTheWay \cup {b}
  BY <1>2 DEF Unmarked, OnTheWay, Reader, Queue, Early, Late, workerVars
<1>10. content'[b] = d /\ \A c \in OnTheWay : content'[c] = content[c]
  BY <1>1, <1>2, <1>3, <1>4, OnTheWayOut DEF TypeOK
<1>11. WaysApart'
  BY <1>1, <1>2, <1>4, <1>9, <1>10, WayBegins DEF StreamTypes
<1>12. WorkersKnow'
  <2>1. \A w \in Workers : wPC[w] \in {"mark", "insert", "output", "ack"} => wBuf[w] \in OnTheWay
    BY DEF OnTheWay, Unmarked, Early, Late
  <2>2. \A c \in Unmarked : c \in OnTheWay
    BY DEF OnTheWay
  <2>3. d \notin dedup
    BY <1>1, <1>2 DEF StreamTypes
  <2>4. UNCHANGED <<wPC, wBuf, wID, dedup>>
    BY <1>2 DEF workerVars
  <2>5. QED
    BY <1>1, <1>9, <1>10, <2>1, <2>2, <2>3, <2>4 DEF WorkersKnow
<1>13. QED
  BY <1>6, <1>7, <1>8, <1>11, <1>12 DEF StreamInv

LEMMA StreamErrorInv ==
  ASSUME StreamInv, StreamError
  PROVE  StreamInv'
<1>1. Core /\ StreamStands /\ TypeOK /\ BufferInOnePlace /\ StreamTypes
  BY DEF StreamInv, Core
<1>2. /\ runPC = "receive" /\ runPC' \in {"done", "loop"} /\ runBuf' = NoBuf
      /\ UNCHANGED <<benchMode, jobs, workerVars, dedup, orderVars, outVars, acked, stage, crashed,
                     arrivals, connVars>>
  BY DEF StreamError
<1>3. /\ ReadingStep /\ runPC = "receive" /\ runPC' \in {"done", "loop"} /\ runBuf' = NoBuf
      /\ UNCHANGED <<jobs, connVars, workerVars, dedup, acked>>
  BY <1>1, <1>2 DEF ReadingStep, TypeOK
<1>4. StreamStands' /\ Reader' = Reader
  BY <1>3 DEF StreamStands, Reader
<1>5. Core' /\ \A c \in OnTheWay : content'[c] = content[c]
  <2>1. CASE quic
    <3>1. runBuf = NoBuf /\ UNCHANGED <<pool, content>>
      BY <1>1, <1>3, <2>1 DEF StreamError, StreamStands, poolVars
    <3>2. content' \in [Bufs -> Datagrams] /\ UNCHANGED <<pool, runBuf, jobs>>
      BY <1>1, <1>3, <3>1 DEF TypeOK
    <3>3. QED
      BY <1>1, <1>3, <3>1, <3>2, KeepCore
  <2>2. CASE ~quic
    <3>1. runBuf \in Bufs /\ PutBuf(runBuf)
      BY <1>1, <1>3, <2>2 DEF StreamError, StreamStands
    <3>2. Core'
      BY <1>1, <1>3, <3>1, PutCore
    <3>3. Reader = {}
      BY <1>3 DEF Reader
    <3>4. (\A i \in 1..Len(jobs) : jobs[i] # runBuf) /\ (\A w \in Workers : wBuf[w] # runBuf)
      BY <1>1, <3>1, HeldOnce
    <3>5. runBuf \notin OnTheWay
      BY <3>3, <3>4 DEF OnTheWay, Unmarked, Queue, Early, Late
    <3>6. \A c \in OnTheWay : c \in Bufs /\ c # runBuf
      BY <1>1, <3>5, OnTheWayOut
    <3>7. content' = [content EXCEPT ![runBuf] = Bad] /\ content \in [Bufs -> Datagrams]
      BY <1>1, <3>1 DEF PutBuf, TypeOK
    <3>8. QED
      BY <3>2, <3>6, <3>7
  <2>3. QED
    BY <2>1, <2>2
<1>6. connUp \in BOOLEAN
  BY <1>1 DEF StreamTypes
<1>7. QED
  BY <1>3, <1>4, <1>5, <1>6, Aside DEF connVars, workerVars

LEMMA StreamPushInv ==
  ASSUME StreamInv, StreamPush
  PROVE  StreamInv'
<1>1. Core /\ StreamStands /\ TypeOK /\ BufferInOnePlace /\ StreamTypes /\ WaysApart /\ WorkersKnow
  BY DEF StreamInv, Core
<1>2. /\ runPC = "push" /\ runPC' = "loop" /\ runBuf' = NoBuf /\ runBuf \in Bufs
      /\ UNCHANGED <<benchMode, workerVars, dedup, orderVars, outVars, acked, stage, crashed,
                     arrivals, quic, connUp, arrived>>
  BY <1>1 DEF StreamPush, RunPush, StreamStands
<1>3. ReadingStep
  BY <1>1, <1>2 DEF ReadingStep, TypeOK
<1>4. StreamStands'
  BY <1>2 DEF StreamStands
<1>5. Reader = {runBuf} /\ Reader' = {} /\ Early' = Early /\ Late' = Late /\ wBuf' = wBuf
  BY <1>2 DEF Reader, Early, Late, workerVars
<1>6. \A w \in Workers : wPC[w] \in {"mark", "insert", "output", "ack"} => wBuf[w] \in OnTheWay
  BY DEF OnTheWay, Unmarked, Early, Late
<1>7. /\ (\A i \in 1..Len(jobs) : jobs[i] # runBuf) /\ (\A w \in Workers : wBuf[w] # runBuf)
      /\ jobs \in Seq(Bufs)
  BY <1>1, <1>2, HeldOnce, Shapes
<1>8. CASE Len(jobs) < JobsCap
  <2>1. jobs' = Append(jobs, runBuf) /\ UNCHANGED <<pool, content, overflowed>>
    BY <1>8 DEF StreamPush, RunPush, poolVars
  <2>2. Core'
    BY <1>1, <1>2, <1>3, <1>8, <2>1, PushCore DEF poolVars
  <2>3. Queue' = Queue \cup {runBuf}
    <3>1. Len(jobs) \in Nat /\ Len(jobs') = Len(jobs) + 1 /\ jobs'[Len(jobs) + 1] = runBuf
             /\ \A i \in 1..Len(jobs) : jobs'[i] = jobs[i]
      BY <1>2, <1>7, <2>1, AppendProperties
    <3>2. 1..Len(jobs') = 1..Len(jobs) \cup {Len(jobs) + 1}
      BY <3>1
    <3>3. QED
      BY <3>1, <3>2 DEF Queue
  <2>4. Unmarked' = Unmarked /\ OnTheWay' = OnTheWay
    BY <1>5, <2>3 DEF Unmarked, OnTheWay
  <2>5. WaysApart'
    BY <1>1, <1>2, <2>1, <2>4, SameWays
  <2>6. StreamTypes' /\ WorkersKnow'
    BY <1>1, <1>2, <2>1, <2>4 DEF StreamTypes, WorkersKnow, workerVars
  <2>7. QED
    BY <1>4, <2>2, <2>5, <2>6 DEF StreamInv
<1>9. CASE ~(Len(jobs) < JobsCap)
  <2>1. /\ PutBuf(runBuf) /\ jobs' = jobs
        /\ overflowed' = overflowed \cup ({content[runBuf]} \cap IDs)
    BY <1>9 DEF StreamPush, RunPush
  <2>2. Core'
    BY <1>1, <1>2, <1>3, <2>1, PutCore
  <2>3. Queue' = Queue /\ runBuf \in OnTheWay
    BY <1>5, <2>1 DEF Queue, OnTheWay, Unmarked
  <2>4. Unmarked' = Unmarked \ {runBuf} /\ OnTheWay' = OnTheWay \ {runBuf}
    BY <1>5, <1>7, <2>3, ZenonT(40) DEF Unmarked, OnTheWay, Queue, Early, Late
  <2>5. \A c \in OnTheWay : c # runBuf => content'[c] = content[c]
    <3>1. content' = [content EXCEPT ![runBuf] = Bad] /\ content \in [Bufs -> Datagrams]
      BY <1>1, <2>1 DEF PutBuf, TypeOK
    <3>2. \A c \in OnTheWay : c \in Bufs
      BY <1>1, OnTheWayOut
    <3>3. QED
      BY <3>1, <3>2
  <2>6. WaysApart'
    <3>1. UNCHANGED <<arrived, connUp>> /\ acked' = acked /\ arrived \subseteq IDs
      BY <1>1, <1>2 DEF StreamTypes
    <3>2. QED
      BY <1>1, <2>1, <2>3, <2>4, <2>5, <3>1, WayEnds
  <2>7. content[runBuf] \in IDs => content[runBuf] \in arrived
    BY <1>1, <2>3 DEF WaysApart
  <2>8. StreamTypes'
    BY <1>1, <1>2, <2>1, <2>7 DEF StreamTypes
  <2>9. WorkersKnow'
    <3>1. UNCHANGED <<wPC, wBuf, wID, dedup>>
      BY <1>2 DEF workerVars
    <3>2. \A c \in Unmarked' : c \in Unmarked /\ content'[c] = content[c]
      BY <2>4, <2>5 DEF OnTheWay
    <3>3. \A w \in Workers : wPC[w] \in {"mark", "insert", "output", "ack"}
                                => content'[wBuf[w]] = content[wBuf[w]]
      BY <1>6, <1>7, <2>5
    <3>4. QED
      BY <1>1, <3>1, <3>2, <3>3 DEF WorkersKnow
  <2>10. QED
    BY <1>4, <2>2, <2>6, <2>8, <2>9 DEF StreamInv
<1>10. QED
  BY <1>8, <1>9

-----------------------------------------------------------------------------
(* The steps of a worker.                                                  *)

\* What a worker that goes on with its packet leaves alone: it marks the packet,
\* or it does not.
LEMMA WorkerGoesOn ==
  ASSUME StreamInv, Core', NEW w \in Workers, wPC[w] \in {"mark", "insert", "output"},
         NEW pc \in {"insert", "output", "ack"}, Goto(w, pc),
         UNCHANGED <<content, runVars, jobs, wBuf, wID, acked, connVars>>,
         dedup' = dedup \/ dedup' = dedup \cup {wID[w]}
  PROVE  StreamInv'
<1>1. Core /\ StreamStands /\ StreamTypes /\ WaysApart /\ WorkersKnow
  BY DEF StreamInv
<1>2. wBuf[w] \in OnTheWay /\ wID[w] = content[wBuf[w]] /\ wID[w] \in IDs
  BY <1>1 DEF OnTheWay, Unmarked, Early, Late, WorkersKnow, Core, WorkerStands
<1>3. Unmarked' = Unmarked \ {wBuf[w]} /\ OnTheWay' = OnTheWay
  BY <1>1, <1>2, WorkerMoves
<1>4. content' = content /\ wBuf' = wBuf /\ wID' = wID /\ acked' = acked
      /\ quic' = quic /\ connUp' = connUp /\ arrived' = arrived /\ overflowed' = overflowed
      /\ runPC' = runPC /\ runBuf' = runBuf
  BY DEF connVars, runVars
<1>5. WaysApart'
  BY <1>1, <1>3, <1>4, SameWays
<1>6. StreamStands'
  BY <1>1, <1>4 DEF StreamStands
<1>7. wID[w] \in arrived
  BY <1>1, <1>2 DEF WaysApart
<1>8. StreamTypes'
  BY <1>1, <1>4, <1>7 DEF StreamTypes
<1>9. WorkersKnow'
  <2>1. \A u \in Workers : wPC'[u] \in {"mark", "insert", "output", "ack"} =>
                              wPC[u] \in {"mark", "insert", "output", "ack"}
    BY <1>1 DEF Core, TypeOK, Goto
  <2>2. \A b \in Unmarked' : content[b] # wID[w]
    BY <1>1, <1>2, <1>3 DEF WaysApart, OnTheWay
  <2>3. QED
    BY <1>1, <1>3, <1>4, <2>1, <2>2 DEF WorkersKnow
<1>10. QED
  BY <1>1, <1>5, <1>6, <1>8, <1>9 DEF StreamInv

\* A worker has done with its packet: it is acknowledged or the connection is gone,
\* or it was never a packet.
LEMMA WorkerHasDone ==
  ASSUME StreamInv, Core', NEW w \in Workers, wPC[w] \in {"decode", "ack"}, Goto(w, "put"),
         UNCHANGED <<content, runVars, jobs, wBuf, wID, dedup, connVars>>,
         \/ acked' = acked /\ (content[wBuf[w]] \notin IDs \/ ~connUp)
         \/ acked' = acked \cup ({content[wBuf[w]]} \cap IDs)
  PROVE  StreamInv'
<1>1. Core /\ StreamStands /\ StreamTypes /\ WaysApart /\ WorkersKnow
  BY DEF StreamInv
<1>2. wBuf[w] \in OnTheWay
  BY DEF OnTheWay, Unmarked, Early, Late
<1>3. Unmarked' = Unmarked \ {wBuf[w]} /\ OnTheWay' = OnTheWay \ {wBuf[w]}
  BY <1>1, WorkerMoves
<1>4. content' = content /\ wBuf' = wBuf /\ wID' = wID /\ dedup' = dedup
      /\ quic' = quic /\ connUp' = connUp /\ arrived' = arrived /\ overflowed' = overflowed
      /\ runPC' = runPC /\ runBuf' = runBuf
  BY DEF connVars, runVars
<1>5. WaysApart'
  <2>1. arrived \subseteq IDs
    BY <1>1 DEF StreamTypes
  <2>2. \/ acked' = acked \cup ({content[wBuf[w]]} \cap IDs) /\ overflowed' = overflowed
        \/ overflowed' = overflowed \cup ({content[wBuf[w]]} \cap IDs) /\ acked' = acked
        \/ UNCHANGED <<acked, overflowed>> /\ (content[wBuf[w]] \notin IDs \/ ~connUp)
    BY <1>4
  <2>3. QED
    BY <1>1, <1>2, <1>3, <1>4, <2>1, <2>2, WayEnds
<1>6. content[wBuf[w]] \in IDs => content[wBuf[w]] \in arrived
  BY <1>1, <1>2 DEF WaysApart
<1>7. StreamStands' /\ StreamTypes'
  BY <1>1, <1>4, <1>6 DEF StreamStands, StreamTypes
<1>8. WorkersKnow'
  <2>1. \A u \in Workers : wPC'[u] \in {"mark", "insert", "output", "ack"} =>
                              wPC[u] \in {"mark", "insert", "output", "ack"}
    BY <1>1 DEF Core, TypeOK, Goto
  <2>2. QED
    BY <1>1, <1>3, <1>4, <2>1 DEF WorkersKnow
<1>9. QED
  BY <1>5, <1>7, <1>8 DEF StreamInv

LEMMA StreamDecodeInv ==
  ASSUME StreamInv, NEW w \in Workers, Decode(w), UNCHANGED connVars
  PROVE  StreamInv'
<1> DEFINE d == content[wBuf[w]]
<1>1. Core /\ StreamStands /\ StreamTypes /\ WaysApart /\ WorkersKnow /\ TypeOK
  BY DEF StreamInv, Core
<1>2. /\ wPC[w] = "decode" /\ wBuf[w] \in Unmarked /\ wBuf[w] \in OnTheWay /\ wBuf[w] \in Bufs
      /\ d \in Datagrams /\ d \notin dedup
  <2>1. wPC[w] = "decode" /\ wBuf[w] \in Unmarked /\ wBuf[w] \in OnTheWay
    BY DEF Decode, OnTheWay, Unmarked, Early
  <2>2. wBuf[w] \in Bufs
    BY <1>1, <2>1, WorkerHolds
  <2>3. QED
    BY <1>1, <2>1, <2>2 DEF WorkersKnow, TypeOK
<1>3. Core'
  BY <1>1, DecodeCore
<1>4. UNCHANGED <<content, runVars, jobs, wBuf, dedup, acked, connVars>>
  BY DEF Decode, poolVars
<1> HIDE DEF d
<1>5. CASE d = Bad
  <2>1. Goto(w, "put") /\ wID' = wID /\ content[wBuf[w]] \notin IDs
    BY <1>5, Params DEF Decode, d
  <2>2. QED
    BY <1>2, <1>3, <1>4, <2>1, WorkerHasDone
<1>6. CASE d # Bad
  <2>1. PICK pc \in {"ack", "mark"} : Goto(w, pc) /\ wID' = [wID EXCEPT ![w] = d]
    BY <1>2, <1>6 DEF Decode, d
  <2>2. wPC[w] \notin {"idle", "done"}
    BY <1>2
  <2>3. runPC' = runPC /\ runBuf' = runBuf /\ UNCHANGED <<runVars, jobs>>
        /\ wBuf' = wBuf /\ content' = content /\ dedup' = dedup
        /\ quic' = quic /\ connUp' = connUp /\ arrived' = arrived /\ overflowed' = overflowed
    BY <1>4 DEF connVars, runVars
  <2>4. Unmarked' \subseteq Unmarked /\ OnTheWay' = OnTheWay
    BY <1>1, <1>2, <2>1, <2>2, <2>3, WorkerMoves
  <2>5. WaysApart'
    BY <1>1, <1>4, <2>3, <2>4, SameWays
  <2>6. StreamStands' /\ StreamTypes'
    BY <1>1, <1>4, <2>3 DEF StreamStands, StreamTypes
  <2>7. WorkersKnow'
    <3>1. wID'[w] = content[wBuf[w]]
      BY <1>1, <2>1 DEF TypeOK, d
    <3>2. \A u \in Workers : u # w => wID'[u] = wID[u] /\ wPC'[u] = wPC[u]
      BY <1>1, <2>1 DEF TypeOK, Goto
    <3>3. QED
      BY <1>1, <2>3, <2>4, <3>1, <3>2 DEF WorkersKnow
  <2>8. QED
    BY <1>3, <2>5, <2>6, <2>7 DEF StreamInv
<1>7. QED
  BY <1>5, <1>6

LEMMA StreamTakeInv ==
  ASSUME StreamInv, NEW w \in Workers, WorkerTake(w), UNCHANGED connVars
  PROVE  StreamInv'
<1> DEFINE h == Head(jobs)
<1>1. Core /\ StreamStands /\ StreamTypes /\ WaysApart /\ WorkersKnow /\ TypeOK
  BY DEF StreamInv, Core
<1>2. Core'
  BY <1>1, WorkerTakeCore
<1>3. /\ wPC[w] = "idle" /\ jobs # <<>> /\ Goto(w, "decode")
      /\ wBuf' = [wBuf EXCEPT ![w] = h] /\ jobs' = Tail(jobs)
      /\ UNCHANGED <<content, runVars, wID, dedup, acked, connVars>>
  BY DEF WorkerTake, poolVars
<1>4. Queue = Queue' \cup {h}
  <2>1. jobs \in Seq(Bufs) /\ Len(jobs) \in Nat /\ Len(jobs) > 0
    BY <1>1, <1>3, Shapes, EmptySeq
  <2>2. /\ h = jobs[1] /\ Len(Tail(jobs)) = Len(jobs) - 1
        /\ \A i \in 1..Len(jobs)-1 : Tail(jobs)[i] = jobs[i+1]
    BY <1>3, <2>1, HeadTailProperties
  <2> HIDE DEF h
  <2>3. \A i \in 1..Len(jobs) : i = 1 \/ (i - 1 \in 1..Len(jobs)-1 /\ (i - 1) + 1 = i)
    BY <2>1
  <2>4. \A i \in 1..Len(jobs) : jobs[i] = h \/ \E j \in 1..Len(jobs)-1 : jobs[i] = Tail(jobs)[j]
    BY <2>2, <2>3
  <2>5. \A j \in 1..Len(jobs)-1 : j + 1 \in 1..Len(jobs)
    BY <2>1
  <2>6. 1 \in 1..Len(jobs)
    BY <2>1
  <2>7. QED
    BY <1>3, <2>2, <2>4, <2>5, <2>6 DEF Queue
<1> HIDE DEF h
<1>5. /\ wPC'[w] = "decode" /\ \A u \in Workers : u # w => wPC'[u] = wPC[u]
      /\ wBuf'[w] = h /\ \A u \in Workers : u # w => wBuf'[u] = wBuf[u]
  BY <1>1, <1>3 DEF TypeOK, Goto
<1>6. Early' = Early \cup {w} /\ Late' = Late /\ w \notin Early \cup Late /\ Reader' = Reader
  BY <1>3, <1>5 DEF Early, Late, Reader, runVars
<1>7. Unmarked' = Unmarked
  <2>1. {wBuf'[u] : u \in Early'} = {wBuf[u] : u \in Early} \cup {h}
    BY <1>5, <1>6 DEF Early
  <2>2. QED
    BY <1>4, <1>6, <2>1 DEF Unmarked
<1>8. OnTheWay' = OnTheWay
  <2>1. {wBuf'[u] : u \in Late'} = {wBuf[u] : u \in Late}
    BY <1>5, <1>6 DEF Late
  <2>2. QED
    BY <1>7, <2>1 DEF OnTheWay
<1>9. content' = content /\ dedup' = dedup /\ acked' = acked /\ wID' = wID
      /\ quic' = quic /\ connUp' = connUp /\ arrived' = arrived /\ overflowed' = overflowed
      /\ runPC' = runPC /\ runBuf' = runBuf
  BY <1>3 DEF connVars, runVars
<1>10. WaysApart'
  BY <1>1, <1>8, <1>9, SameWays
<1>11. StreamStands' /\ StreamTypes'
  BY <1>1, <1>9 DEF StreamStands, StreamTypes
<1>12. WorkersKnow'
  BY <1>1, <1>5, <1>7, <1>9 DEF WorkersKnow
<1>13. QED
  BY <1>2, <1>10, <1>11, <1>12 DEF StreamInv

LEMMA StreamPutInv ==
  ASSUME StreamInv, NEW w \in Workers, WorkerPut(w), UNCHANGED connVars
  PROVE  StreamInv'
<1> DEFINE b == wBuf[w]
<1>1. Core /\ StreamStands /\ StreamTypes /\ WaysApart /\ WorkersKnow /\ TypeOK
  BY DEF StreamInv, Core
<1>2. Core'
  BY <1>1, WorkerPutCore
<1>3. /\ wPC[w] = "put" /\ Goto(w, "idle") /\ content' = [content EXCEPT ![b] = Bad]
      /\ wBuf' = [wBuf EXCEPT ![w] = NoBuf] /\ wID' = [wID EXCEPT ![w] = None]
      /\ UNCHANGED <<runVars, jobs, dedup, acked, connVars>>
  BY DEF WorkerPut, PutBuf
<1>4. /\ b \in Bufs /\ b \notin Queue /\ runBuf # b /\ \A u \in Workers : wBuf[u] = b => u = w
  BY <1>1, <1>3, WorkerHolds
<1> HIDE DEF b
<1>5. /\ wPC'[w] = "idle" /\ \A u \in Workers : u # w => wPC'[u] = wPC[u]
      /\ \A u \in Workers : u # w => wBuf'[u] = wBuf[u] /\ wID'[u] = wID[u]
  BY <1>1, <1>3 DEF TypeOK, Goto
<1>6. /\ Early' = Early /\ Late' = Late /\ w \notin Early \cup Late
      /\ Reader' = Reader /\ Queue' = Queue
  BY <1>3, <1>5 DEF Early, Late, Reader, Queue, runVars
<1>7. Unmarked' = Unmarked /\ OnTheWay' = OnTheWay
  <2>1. /\ {wBuf'[u] : u \in Early'} = {wBuf[u] : u \in Early}
        /\ {wBuf'[u] : u \in Late'} = {wBuf[u] : u \in Late}
    BY <1>5, <1>6 DEF Early, Late
  <2>2. QED
    BY <1>6, <2>1 DEF Unmarked, OnTheWay
<1>8. b \notin OnTheWay
  BY <1>4, <1>6 DEF OnTheWay, Unmarked, Reader, Early, Late
<1>9. \A c \in OnTheWay : content'[c] = content[c]
  <2>1. \A c \in OnTheWay : c \in Bufs /\ c # b
    BY <1>1, <1>8, OnTheWayOut
  <2>2. QED
    BY <1>1, <1>3, <2>1 DEF TypeOK
<1>10. dedup' = dedup /\ acked' = acked
      /\ quic' = quic /\ connUp' = connUp /\ arrived' = arrived /\ overflowed' = overflowed
      /\ runPC' = runPC /\ runBuf' = runBuf
  BY <1>3 DEF connVars, runVars
<1>11. WaysApart'
  BY <1>1, <1>7, <1>9, <1>10, SameWays
<1>12. StreamStands' /\ StreamTypes'
  BY <1>1, <1>10 DEF StreamStands, StreamTypes
<1>13. WorkersKnow'
  <2>1. \A u \in Workers : wPC[u] \in {"mark", "insert", "output", "ack"} => wBuf[u] \in OnTheWay
    BY DEF OnTheWay, Unmarked, Early, Late
  <2>2. \A c \in Unmarked : c \in OnTheWay
    BY DEF OnTheWay
  <2>3. QED
    BY <1>1, <1>5, <1>7, <1>9, <1>10, <2>1, <2>2 DEF WorkersKnow
<1>14. QED
  BY <1>2, <1>11, <1>12, <1>13 DEF StreamInv

LEMMA StreamEndInv ==
  ASSUME StreamInv, NEW w \in Workers, WorkerEnd(w), UNCHANGED connVars
  PROVE  StreamInv'
<1>1. Core /\ StreamStands /\ StreamTypes /\ WaysApart /\ WorkersKnow /\ TypeOK
  BY DEF StreamInv, Core
<1>2. Core'
  BY <1>1, WorkerEndCore
<1>3. /\ wPC[w] = "idle" /\ Goto(w, "done")
      /\ UNCHANGED <<content, runVars, jobs, wBuf, wID, dedup, acked, connVars>>
  BY DEF WorkerEnd, poolVars
<1>4. wPC'[w] = "done" /\ \A u \in Workers : u # w => wPC'[u] = wPC[u]
  BY <1>1, <1>3 DEF TypeOK, Goto
<1>5. Early' = Early /\ Late' = Late /\ Reader' = Reader /\ Queue' = Queue /\ wBuf' = wBuf
  BY <1>3, <1>4 DEF Early, Late, Reader, Queue, runVars
<1>6. Unmarked' = Unmarked /\ OnTheWay' = OnTheWay
  BY <1>5 DEF Unmarked, OnTheWay
<1>7. content' = content /\ dedup' = dedup /\ acked' = acked /\ wID' = wID
      /\ quic' = quic /\ connUp' = connUp /\ arrived' = arrived /\ overflowed' = overflowed
      /\ runPC' = runPC /\ runBuf' = runBuf
  BY <1>3 DEF connVars, runVars
<1>8. WaysApart'
  BY <1>1, <1>6, <1>7, SameWays
<1>9. StreamStands' /\ StreamTypes'
  BY <1>1, <1>7 DEF StreamStands, StreamTypes
<1>10. WorkersKnow'
  BY <1>1, <1>4, <1>5, <1>6, <1>7 DEF WorkersKnow
<1>11. QED
  BY <1>2, <1>8, <1>9, <1>10 DEF StreamInv

-----------------------------------------------------------------------------
(* The servers.                                                            *)

LEMMA InitStream == StreamInit => StreamInv
<1> SUFFICES ASSUME StreamInit PROVE StreamInv
  OBVIOUS
<1>1. Core
  BY InitServer DEF StreamInit, ServerInv
<1>2. OnTheWay = {} /\ Unmarked = {}
  BY DEF StreamInit, Init, OnTheWay, Unmarked, Reader, Queue, Early, Late
<1>3. StreamStands /\ StreamTypes
  BY DEF StreamInit, Init, StreamStands, StreamTypes
<1>4. WaysApart /\ WorkersKnow
  BY <1>2 DEF StreamInit, Init, WaysApart, WorkersKnow
<1>5. QED
  BY <1>1, <1>3, <1>4 DEF StreamInv

LEMMA StreamWorkerInv ==
  ASSUME StreamInv, NEW w \in Workers, StreamWorker(w)
  PROVE  StreamInv'
<1>1. Core /\ TypeOK /\ StreamTypes /\ StreamStands /\ WorkersKnow
  BY DEF StreamInv, Core
<1>2. CASE StreamAck(w)
  <2>1. /\ wPC[w] = "ack" /\ acked' = (IF connUp THEN acked \cup {wID[w]} ELSE acked)
        /\ Goto(w, "put")
        /\ UNCHANGED <<benchMode, poolVars, runVars, jobs, wBuf, wID, wOut, dedup, orderVars,
                       outVars, stage, crashed, arrivals, connVars>>
    BY <1>2 DEF StreamAck
  <2>2. Core'
    BY <1>1, <2>1, AckCore
  <2>3. wID[w] \in IDs /\ wID[w] = content[wBuf[w]]
    BY <1>1, <2>1 DEF Core, WorkerStands, WorkersKnow
  <2>4. \/ acked' = acked /\ (content[wBuf[w]] \notin IDs \/ ~connUp)
        \/ acked' = acked \cup ({content[wBuf[w]]} \cap IDs)
    BY <2>1, <2>3
  <2>5. UNCHANGED <<content, runVars, jobs, wBuf, wID, dedup, connVars>>
    BY <2>1 DEF poolVars
  <2>6. QED
    BY <2>1, <2>2, <2>4, <2>5, WorkerHasDone
<1>3. CASE WorkerTake(w) /\ UNCHANGED connVars
  BY <1>3, StreamTakeInv
<1>4. CASE WorkerEnd(w) /\ UNCHANGED connVars
  BY <1>4, StreamEndInv
<1>5. CASE Decode(w) /\ UNCHANGED connVars
  BY <1>5, StreamDecodeInv
<1>6. CASE Mark(w) /\ UNCHANGED connVars
  <2>1. /\ wPC[w] = "mark" /\ Goto(w, "insert") /\ dedup' = dedup \cup {wID[w]}
        /\ UNCHANGED <<content, runVars, jobs, wBuf, wID, acked, connVars>>
    BY <1>6 DEF Mark, poolVars
  <2>2. Core'
    BY <1>1, <1>6, MarkCore
  <2>3. QED
    BY <2>1, <2>2, WorkerGoesOn
<1>7. CASE InsertLine(w) /\ UNCHANGED connVars
  <2>1. PICK pc \in {"insert", "output", "ack"} : Goto(w, pc)
    BY <1>7 DEF InsertLine
  <2>2. /\ wPC[w] = "insert" /\ dedup' = dedup
        /\ UNCHANGED <<content, runVars, jobs, wBuf, wID, acked, connVars>>
    BY <1>7 DEF InsertLine, poolVars
  <2>3. Core'
    BY <1>1, <1>7, InsertLineCore
  <2>4. QED
    BY <2>1, <2>2, <2>3, WorkerGoesOn
<1>8. CASE SendLine(w) /\ UNCHANGED connVars
  <2>1. PICK pc \in {"insert", "output", "ack"} : Goto(w, pc)
    BY <1>8 DEF SendLine
  <2>2. /\ wPC[w] = "output" /\ dedup' = dedup
        /\ UNCHANGED <<content, runVars, jobs, wBuf, wID, acked, connVars>>
    BY <1>8 DEF SendLine, poolVars
  <2>3. Core'
    BY <1>1, <1>8, SendLineCore
  <2>4. QED
    BY <2>1, <2>2, <2>3, WorkerGoesOn
<1>9. CASE WorkerPut(w) /\ UNCHANGED connVars
  BY <1>9, StreamPutInv
<1>10. CASE SendLinePanics(w) /\ UNCHANGED connVars
  <2>1. Core'
    BY <1>1, <1>10, PanicCore DEF SendLinePanics
  <2>2. /\ UNCHANGED <<jobs, wPC, wBuf, wID, dedup, acked, content, runPC, runBuf>>
        /\ quic' = quic /\ connUp' = connUp /\ arrived' = arrived /\ overflowed' = overflowed
    BY <1>10 DEF SendLinePanics, Panic, connVars, runVars, workerVars, poolVars
  <2>3. StreamStands' /\ Reader' = Reader /\ connUp \in BOOLEAN
    BY <1>1, <2>2 DEF StreamStands, StreamTypes, Reader
  <2>4. QED
    BY <2>1, <2>2, <2>3, Aside
<1>11. QED
  BY <1>2, <1>3, <1>4, <1>5, <1>6, <1>7, <1>8, <1>9, <1>10 DEF StreamWorker

\* Every step of the servers keeps the invariant.
LEMMA StreamStep == StreamInv /\ [StreamNext]_<<vars, connVars>> => StreamInv'
<1> SUFFICES ASSUME StreamInv, [StreamNext]_<<vars, connVars>> PROVE StreamInv'
  OBVIOUS
<1>1. Core /\ TypeOK /\ StreamTypes /\ StreamStands
  BY DEF StreamInv, Core
<1>2. CASE StreamLoop
  BY <1>2, StreamLoopInv
<1>3. CASE StreamError
  BY <1>3, StreamErrorInv
<1>4. CASE StreamPush
  BY <1>4, StreamPushInv
<1>5. ASSUME NEW d \in Datagrams, StreamReceive(d) PROVE StreamInv'
  BY <1>5, StreamReceiveInv
<1>6. ASSUME NEW w \in Workers, StreamWorker(w) PROVE StreamInv'
  BY <1>6, StreamWorkerInv
<1>7. CASE \/ RunPushPanics /\ UNCHANGED connVars
           \/ StreamOutput \/ StreamShutdown \/ ConnBreak \/ UNCHANGED <<vars, connVars>>
  <2>1. Core'
    <3>1. CASE RunPushPanics
      BY <1>1, <3>1, PanicCore DEF RunPushPanics
    <3>2. CASE StreamOutput
      BY <1>1, <3>2, OutputCore DEF StreamOutput
    <3>3. CASE StreamShutdown
      BY <1>1, <3>3, ShutdownCore DEF StreamShutdown
    <3>4. CASE ConnBreak \/ UNCHANGED <<vars, connVars>>
      <4>1. UNCHANGED vars
        BY <3>4 DEF ConnBreak
      <4>2. UNCHANGED <<benchMode, poolVars, runVars, jobs, workerVars, dedup, orderVars, outVars,
                        acked, stage, crashed, arrivals>>
        BY <4>1 DEF vars
      <4>3. ReadingStep /\ content' \in [Bufs -> Datagrams] /\ UNCHANGED <<pool, runBuf, jobs>>
        BY <1>1, <4>2 DEF TypeOK, ReadingStep, runVars, poolVars
      <4>4. QED
        BY <1>1, <4>3, KeepCore
    <3>5. QED
      BY <1>7, <3>1, <3>2, <3>3, <3>4
  <2>2. /\ UNCHANGED <<jobs, wPC, wBuf, wID, dedup, acked, content, runPC, runBuf>>
        /\ quic' = quic /\ arrived' = arrived /\ overflowed' = overflowed
        /\ connUp' \in BOOLEAN /\ (connUp' => connUp)
    <3>1. CASE RunPushPanics /\ UNCHANGED connVars
      BY <1>1, <3>1 DEF RunPushPanics, Panic, connVars, runVars, workerVars, poolVars, StreamTypes
    <3>2. CASE StreamOutput
      BY <1>1, <3>2 DEF StreamOutput, OutputPipeline, connVars, runVars, workerVars, poolVars,
                        StreamTypes
    <3>3. CASE StreamShutdown
      BY <1>1, <3>3 DEF StreamShutdown, ShutdownStep, connVars, runVars, workerVars, poolVars,
                        StreamTypes
    <3>4. CASE ConnBreak
      BY <1>1, <3>4 DEF ConnBreak, vars, runVars, workerVars, poolVars, StreamTypes
    <3>5. CASE UNCHANGED <<vars, connVars>>
      BY <1>1, <3>5 DEF vars, connVars, runVars, workerVars, poolVars, StreamTypes
    <3>6. QED
      BY <1>7, <3>1, <3>2, <3>3, <3>4, <3>5
  <2>3. StreamStands' /\ Reader' = Reader
    BY <1>1, <2>2 DEF StreamStands, Reader
  <2>4. QED
    BY <2>1, <2>2, <2>3, Aside
<1>8. QED
  BY <1>2, <1>3, <1>4, <1>5, <1>6, <1>7 DEF StreamNext, StreamRun

-----------------------------------------------------------------------------
(* From the buffers to the counts.                                         *)

LEMMA OneOfTwo ==
  ASSUME StreamTypes, WaysApart, NEW id
  PROVE  Answered(id) = IF id \in acked \cup overflowed THEN 1 ELSE 0
<1> DEFINE a == <<"ack", acked>>
           f == <<"full", overflowed>>
           S == {s \in {a, f} : id \in s[2]}
<1>1. a # f /\ a[2] = acked /\ f[2] = overflowed
  OBVIOUS
<1>2. S = (IF id \in acked THEN {a} ELSE {}) \cup (IF id \in overflowed THEN {f} ELSE {})
  BY <1>1
<1>3. ~(id \in acked /\ id \in overflowed)
  BY DEF WaysApart
<1>4. Cardinality({a}) = 1 /\ Cardinality({f}) = 1 /\ Cardinality({}) = 0
  BY FS_Singleton, FS_EmptySet
<1> HIDE DEF a, f
<1>5. Cardinality(S) = IF id \in acked \cup overflowed THEN 1 ELSE 0
  <2>1. CASE id \in acked
    BY <1>2, <1>3, <1>4, <2>1
  <2>2. CASE id \in overflowed
    BY <1>2, <1>3, <1>4, <2>2
  <2>3. CASE id \notin acked \cup overflowed
    BY <1>2, <1>4, <2>3
  <2>4. QED
    BY <2>1, <2>2, <2>3
<1>6. QED
  BY <1>5 DEF Answered, a, f

\* The workers that count in Working are those that hold a packet on its way.
LEMMA WorkingIsEarlyLate ==
  ASSUME Core, NEW id
  PROVE  {w \in Workers : wBuf[w] # NoBuf /\ wPC[w] # "put" /\ content[wBuf[w]] = id}
            = {w \in Early \cup Late : content[wBuf[w]] = id}
<1>1. \A w \in Workers : wBuf[w] # NoBuf <=> wPC[w] \notin {"idle", "done"}
  BY DEF Core, WorkerStands
<1>2. \A w \in Workers : wPC[w] \in WorkerPCs
  BY DEF Core, TypeOK
<1>3. QED
  BY <1>1, <1>2 DEF Early, Late, WorkerPCs

\* The counts of AckedOnce, read off the buffers.
LEMMA CountsAreWays ==
  ASSUME StreamInv, NEW id \in IDs
  PROVE  Reading(id) + Queued(id) + Working(id)
            = IF \E b \in OnTheWay : content[b] = id THEN 1 ELSE 0
<1> DEFINE Q == {i \in 1..Len(jobs) : content[jobs[i]] = id}
           W == {w \in Early \cup Late : content[wBuf[w]] = id}
<1>1. Core /\ TypeOK /\ BufferInOnePlace /\ StreamStands /\ WaysApart
  BY DEF StreamInv, Core
<1>2. Queued(id) = Cardinality(Q)
  BY DEF Queued
<1>3. Working(id) = Cardinality(W)
  BY <1>1, WorkingIsEarlyLate DEF Working
<1>4. Cardinality({}) = 0
  BY FS_EmptySet
<1>5. \A i \in 1..Len(jobs) : jobs[i] \in OnTheWay
  BY DEF Queue, OnTheWay, Unmarked
<1>6. \A w \in Early \cup Late : wBuf[w] \in OnTheWay /\ w \in Workers
                                   /\ wPC[w] \notin {"idle", "done"}
  BY DEF Early, Late, OnTheWay, Unmarked
<1>7. runPC = "push" => runBuf \in OnTheWay
  BY DEF OnTheWay, Unmarked, Reader
<1>8. CASE ~\E b \in OnTheWay : content[b] = id
  <2>1. Q = {} /\ W = {} /\ Reading(id) = 0
    BY <1>5, <1>6, <1>7, <1>8 DEF Reading
  <2> HIDE DEF Q, W
  <2>2. QED
    BY <1>2, <1>3, <1>4, <1>8, <2>1
<1>9. ASSUME NEW b \in OnTheWay, content[b] = id
      PROVE  Reading(id) + Queued(id) + Working(id) = 1
  <2>1. \A c \in OnTheWay : content[c] = id => c = b
    BY <1>1, <1>9 DEF WaysApart
  <2>2. b \in Bufs
    BY <1>1, OnTheWayOut
  <2>3. CASE b \in Queue
    <3>1. (\A w \in Workers : wBuf[w] # b) /\ runBuf # b /\ Occurs(jobs, b) = 1
      BY <1>1, <2>3, QueuedOnce
    <3>2. Q = {i \in 1..Len(jobs) : jobs[i] = b}
      BY <1>5, <1>9, <2>1
    <3>3. W = {} /\ Reading(id) = 0
      BY <1>6, <1>7, <2>1, <3>1 DEF Reading
    <3>4. Cardinality(Q) = 1
      BY <3>1, <3>2 DEF Occurs
    <3> HIDE DEF Q, W
    <3>5. QED
      BY <1>2, <1>3, <1>4, <3>3, <3>4
  <2>4. ASSUME NEW w \in Early \cup Late, wBuf[w] = b
        PROVE  Reading(id) + Queued(id) + Working(id) = 1
    <3>1. b \notin Queue /\ runBuf # b /\ \A u \in Workers : wBuf[u] = b => u = w
      BY <1>1, <1>6, <2>4, WorkerHolds
    <3>2. W = {w}
      BY <1>6, <1>9, <2>1, <2>4, <3>1
    <3>3. Q = {} /\ Reading(id) = 0
      BY <1>5, <1>7, <2>1, <3>1 DEF Queue, Reading
    <3>4. Cardinality(W) = 1
      BY <3>2, FS_Singleton
    <3> HIDE DEF Q, W
    <3>5. QED
      BY <1>2, <1>3, <1>4, <3>3, <3>4
  <2>5. CASE b \in Reader
    <3>1. runPC = "push" /\ runBuf = b
      BY <2>5 DEF Reader
    <3>2. (\A i \in 1..Len(jobs) : jobs[i] # b) /\ (\A w \in Workers : wBuf[w] # b)
      BY <1>1, <2>2, <3>1, HeldOnce
    <3>3. Q = {} /\ W = {}
      BY <1>5, <1>6, <2>1, <3>2
    <3>4. Reading(id) = 1
      BY <1>9, <3>1 DEF Reading
    <3> HIDE DEF Q, W
    <3>5. QED
      BY <1>2, <1>3, <1>4, <3>3, <3>4
  <2>6. QED
    BY <2>3, <2>4, <2>5 DEF OnTheWay, Unmarked
<1>10. QED
  BY <1>8, <1>9

LEMMA StreamInvAckedOnce == StreamInv => AckedOnce
<1> SUFFICES ASSUME StreamInv, NEW id \in arrived
             PROVE  LET places == Reading(id) + Queued(id) + Working(id) + Answered(id)
                    IN  places = 1 \/ (places = 0 /\ ~connUp)
  BY DEF AckedOnce
<1>1. StreamTypes /\ WaysApart /\ id \in IDs
  BY DEF StreamInv, StreamTypes
<1>2. Reading(id) + Queued(id) + Working(id) = IF \E b \in OnTheWay : content[b] = id THEN 1 ELSE 0
  BY <1>1, CountsAreWays
<1>3. Answered(id) = IF id \in acked \cup overflowed THEN 1 ELSE 0
  BY <1>1, OneOfTwo
<1>4. (\E b \in OnTheWay : content[b] = id) => id \notin acked \cup overflowed
  BY <1>1 DEF WaysApart
<1>5. (\E b \in OnTheWay : content[b] = id) \/ id \in acked \cup overflowed \/ ~connUp
  BY <1>1 DEF WaysApart
<1>6. QED
  BY <1>2, <1>3, <1>4, <1>5

\* The inductive invariant holds throughout.
THEOREM StreamCorrect == StreamSpec => []StreamInv
BY InitStream, StreamStep, PTL DEF StreamSpec

\* Over a stream too, buffers neither leak nor alias, every line below nextID is
\* there once, and no ACK is ahead of its line.
THEOREM StreamKeepsPipeline ==
  StreamSpec => [](TypeOK /\ BufferInOnePlace /\ LinesConserved /\ AckAfterOutput)
<1>1. StreamInv => TypeOK /\ BufferInOnePlace /\ LinesConserved /\ AckAfterOutput
  BY DEF StreamInv, Core
<1>2. QED
  BY <1>1, StreamCorrect, PTL

\* A packet that was read is acknowledged at most once, and neither lost nor
\* doubled on its way, unless s.jobs was full or the connection broke
\* (quic/server.go:114-195, sctp/server.go:100-167).
THEOREM StreamAcksOnce == StreamSpec => []AckedOnce
BY StreamCorrect, StreamInvAckedOnce, PTL

=============================================================================
