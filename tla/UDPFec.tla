------------------------------- MODULE UDPFec -------------------------------
(***************************************************************************)
(* The UDP+FEC variant, client and server together (internal/variants/     *)
(* udp-fec): generators, ACK receiver, retransmission daemon, Run and      *)
(* Shutdown on one side; Run, jobs channel, workers and Shutdown on the    *)
(* other; in between a network that loses, delays, repeats and reorders.   *)
(* The server's variables begin with s or w.                               *)
(*                                                                         *)
(* The network is two sets that only grow: a shard of a packet in `sent'   *)
(* and an ACK in `acked' may arrive at any time, again, or never.  That is *)
(* why the shards of a group are sent in one step: one that is sent a      *)
(* little later is one that travels a little longer, and one not sent any  *)
(* more is a lost one.  For the same reason a Shutdown is one step: what a *)
(* socket still swallows while it closes is lost.                          *)
(*                                                                         *)
(* Abstracted: the data, split and encoded as in Fec, since the server     *)
(* never looks at them; the pooled buffers, since no worker reads its own  *)
(* (Run has taken both ids out of it); time, of which LayerCache and       *)
(* UDPClient speak: a deadline may have passed at any scan or not; the     *)
(* counters, which nobody reads.  The server builds a dedup cache and      *)
(* never uses it.                                                          *)
(***************************************************************************)
EXTENDS Integers, Sequences, SequencesExt, FiniteSets, Counting

CONSTANTS TotalPackets,
          Generators,      \* config.Workers
          DataShards,
          NumLayers,       \* 3 in NewClient
          RetryTTL, InitialInterval, MaxInterval, Multiplier,
          Workers,         \* the server's 30 workers
          JobsCap          \* cap(s.jobs), 150_000 in the code

ASSUME FecAssumption ==
    /\ TotalPackets \in Nat \ {0} /\ Generators \in Nat \ {0}
    /\ DataShards \in Nat \ {0} /\ JobsCap \in Nat \ {0}
    /\ NumLayers \in Nat \ {0} /\ IsFiniteSet(Workers)

VARIABLES
    benchMode,                              \* config.BenchMode of both sides
    layers, nextID, buffer,                 \* c.layerCache, c.orderedOutput
    genPC, genID,                           \* per generator: step, loop variable
    ackPC, ackID, ackOut,                   \* ackReceiver: step, id, lines to print
    dmnPC, dmnPeek, dmnOut,                 \* retransmitterDaemon
    cOpen,                                  \* FALSE once Shutdown has run
    printed,                                \* lines written to c.out
    sent, acked,                            \* the network
    jobs, server,                           \* s.jobs; "up", shut "down" or "crashed"
    wPC, wID, wOut,                         \* per worker: step, id, lines to print
    sNextID, sBuffer, sPrinted              \* s.orderedBuf, lines written to s.out

orderVars  == <<nextID, buffer>>
genVars    == <<genPC, genID>>
ackVars    == <<ackPC, ackID, ackOut>>
dmnVars    == <<dmnPC, dmnPeek, dmnOut>>
clientVars == <<layers, orderVars, genVars, ackVars, dmnVars, cOpen, printed>>
workerVars == <<wPC, wID, wOut>>
lineVars   == <<sNextID, sBuffer, sPrinted>>
serverVars == <<jobs, server, workerVars, lineVars>>
vars == <<benchMode, clientVars, sent, acked, serverVars>>

IDs == 1..TotalPackets
Gens == 0..Generators-1
None == 0

\* What the server reads from shard i of a group: uint8(i).
Datagram(id, i) == [id |-> id, shard |-> i % 256]
ShardIDs == {i % 256 : i \in 0..DataShards}

Line(id, verdict) == [id |-> id, verdict |-> verdict]
Lines == [id : IDs, verdict : {"OK", "LOST"}]

LC == INSTANCE LayerCache WITH Keys <- IDs, Values <- {"shards"}, peeked <- dmnPeek
CB == INSTANCE OrderedBuffer WITH Values <- Lines, StartID <- 1, MaxID <- TotalPackets,
                                  offered <- {}, released <- <<>>
SB == INSTANCE OrderedBuffer WITH Values <- IDs, StartID <- 1, MaxID <- TotalPackets,
                                  nextID <- sNextID, buffer <- sBuffer,
                                  offered <- {}, released <- <<>>

ClientInit ==
    /\ layers = [i \in 0..NumLayers-1 |-> <<>>]
    /\ nextID = 1 /\ buffer = [k \in {} |-> {}]
    /\ genPC = [g \in Gens |-> "send"] /\ genID = [g \in Gens |-> g + 1]
    /\ ackPC = "receive" /\ ackID = None /\ ackOut = <<>>
    /\ dmnPC = "scan" /\ dmnPeek = {} /\ dmnOut = <<>>
    /\ cOpen = TRUE /\ printed = <<>>

ServerInit ==
    /\ jobs = <<>> /\ server = "up"
    /\ wPC = [w \in Workers |-> "idle"] /\ wID = [w \in Workers |-> None]
    /\ wOut = [w \in Workers |-> <<>>]
    /\ sNextID = 1 /\ sBuffer = [k \in {} |-> {}] /\ sPrinted = <<>>

Init == benchMode \in BOOLEAN /\ ClientInit /\ ServerInit /\ sent = {} /\ acked = {}

-----------------------------------------------------------------------------
(* Client: generator.  A payload is never empty here, so Encode never       *)
(* refuses it (see Fec).                                                    *)

SendGroup(id) == sent' = IF cOpen THEN sent \cup {id} ELSE sent

NextPacket(g) == /\ genID' = [genID EXCEPT ![g] = @ + Generators]
                 /\ genPC' = [genPC EXCEPT ![g] = "send"]

GenSend(g) ==
    /\ genPC[g] = "send"
    /\ genID[g] <= TotalPackets
    /\ SendGroup(genID[g])
    /\ IF benchMode THEN NextPacket(g)
                    ELSE genPC' = [genPC EXCEPT ![g] = "register"] /\ UNCHANGED genID
    /\ UNCHANGED <<benchMode, layers, orderVars, ackVars, dmnVars, cOpen, printed, acked,
                   serverVars>>

GenRegister(g) ==
    /\ genPC[g] = "register"
    /\ LC!Set(genID[g], "shards")
    /\ NextPacket(g)
    /\ UNCHANGED <<benchMode, orderVars, ackVars, dmnVars, cOpen, printed, sent, acked,
                   serverVars>>

-----------------------------------------------------------------------------
(* Client: ackReceiver.  The server's verdict is always OK.  In benchmark   *)
(* mode it only counts.  A definition named <definition>_<fault>, here and  *)
(* below, stands for a plausible bug; nothing uses it.                      *)

\* The lines c.orderedOutput.Insert hands back.
Statuses_Stale(id, line) == CB!Batch_Stale(id, line)
Statuses(id, line) == CB!Batch(id, line)

AckReceive(id) ==
    /\ ackPC = "receive" /\ cOpen /\ ~benchMode
    /\ id \in acked
    /\ ackPC' = "delete" /\ ackID' = id
    /\ UNCHANGED <<benchMode, layers, orderVars, genVars, ackOut, dmnVars, cOpen, printed,
                   sent, acked, serverVars>>

AckDelete ==
    /\ ackPC = "delete"
    /\ LC!Delete(ackID)
    /\ ackPC' = "insert"
    /\ UNCHANGED <<benchMode, orderVars, genVars, ackID, ackOut, dmnVars, cOpen, printed,
                   sent, acked, serverVars>>

AckInsert ==
    /\ ackPC = "insert"
    /\ CB!InsertBody(ackID, Line(ackID, "OK"))
    /\ ackOut' = Statuses(ackID, Line(ackID, "OK"))
    /\ ackPC' = IF ackOut' = <<>> THEN "receive" ELSE "print"
    /\ ackID' = None
    /\ UNCHANGED <<benchMode, layers, genVars, dmnVars, cOpen, printed, sent, acked,
                   serverVars>>

AckPrint ==
    /\ ackPC = "print"
    /\ printed' = Append(printed, Head(ackOut))
    /\ ackOut' = Tail(ackOut)
    /\ ackPC' = IF ackOut' = <<>> THEN "receive" ELSE "print"
    /\ UNCHANGED <<benchMode, layers, orderVars, genVars, ackID, dmnVars, cOpen, sent, acked,
                   serverVars>>

-----------------------------------------------------------------------------
(* Client: retransmitterDaemon *)

\* PeekExpiredScan finds a tail whose deadline has passed; whether it has is
\* open.  A scan that finds none, and the sleep after it, change nothing.
DmnScan ==
    /\ dmnPC = "scan" /\ cOpen
    /\ \E i \in LC!Layer : /\ layers[i] # <<>>
                           /\ dmnPeek' = {[key |-> Head(layers[i]).key, layer |-> i]}
    /\ dmnPC' = "promote"
    /\ UNCHANGED <<benchMode, layers, orderVars, genVars, ackVars, dmnOut, cOpen, printed,
                   sent, acked, serverVars>>

DmnPromote ==
    /\ dmnPC = "promote"
    /\ \E p \in dmnPeek : /\ LC!PromoteLayer(p.key, p.layer)
                          /\ dmnPC' = IF LC!PromoteAlive(p.layer) THEN "resend" ELSE "lost"
    /\ UNCHANGED <<benchMode, orderVars, genVars, ackVars, dmnPeek, dmnOut, cOpen,
                   printed, sent, acked, serverVars>>

DmnResend ==
    /\ dmnPC = "resend"
    /\ \E p \in dmnPeek : SendGroup(p.key)
    /\ dmnPC' = "scan" /\ dmnPeek' = {}
    /\ UNCHANGED <<benchMode, layers, orderVars, genVars, ackVars, dmnOut, cOpen,
                   printed, acked, serverVars>>

DmnLost ==
    /\ dmnPC = "lost"
    /\ \E p \in dmnPeek : /\ CB!InsertBody(p.key, Line(p.key, "LOST"))
                          /\ dmnOut' = Statuses(p.key, Line(p.key, "LOST"))
    /\ dmnPC' = IF dmnOut' = <<>> THEN "scan" ELSE "print"
    /\ dmnPeek' = {}
    /\ UNCHANGED <<benchMode, layers, genVars, ackVars, cOpen, printed, sent, acked,
                   serverVars>>

DmnPrint ==
    /\ dmnPC = "print"
    /\ printed' = Append(printed, Head(dmnOut))
    /\ dmnOut' = Tail(dmnOut)
    /\ dmnPC' = IF dmnOut' = <<>> THEN "scan" ELSE "print"
    /\ UNCHANGED <<benchMode, layers, orderVars, genVars, ackVars, dmnPeek, cOpen,
                   sent, acked, serverVars>>

-----------------------------------------------------------------------------
(* Client: Run and Shutdown, which main calls when Run returns.  Run waits   *)
(* for the generators, and then for an empty cache or its timer (50 ms in    *)
(* benchmark mode), which may strike at any time.                            *)

RunReturned == \A g \in Gens : genPC[g] = "send" /\ genID[g] > TotalPackets

ClientShutdown ==
    /\ cOpen /\ RunReturned
    /\ cOpen' = FALSE
    /\ UNCHANGED <<benchMode, layers, orderVars, genVars, ackVars, dmnVars, printed, sent,
                   acked, serverVars>>

Client == \/ \E g \in Gens : GenSend(g) \/ GenRegister(g)
          \/ \E id \in IDs : AckReceive(id)
          \/ AckDelete \/ AckInsert \/ AckPrint
          \/ DmnScan \/ DmnPromote \/ DmnResend \/ DmnLost \/ DmnPrint
          \/ ClientShutdown

-----------------------------------------------------------------------------
(* Server: Run and Shutdown.  Run is always somewhere around ReceiveTo: when *)
(* Shutdown closes stopCh and jobs, it may see that before it reads again    *)
(* and end, or read one more datagram first.                                 *)

\* ReceiveTo and the non-blocking send to jobs.
Receive(d) ==
    /\ server = "up"
    /\ jobs' = IF Len(jobs) < JobsCap THEN Append(jobs, d) ELSE jobs
    /\ UNCHANGED <<benchMode, clientVars, sent, acked, server, workerVars, lineVars>>

\* The send of that one datagram to the closed jobs.
ReceivePanics ==
    /\ server = "down" /\ sent # {}
    /\ server' = "crashed"
    /\ UNCHANGED <<benchMode, clientVars, sent, acked, jobs, workerVars, lineVars>>

ServerShutdown ==
    /\ server = "up"
    /\ server' = "down"
    /\ UNCHANGED <<benchMode, clientVars, sent, acked, jobs, workerVars, lineVars>>

-----------------------------------------------------------------------------
(* Server: worker and processShard.  Only shard 0 of a packet counts.        *)

\* The lines s.orderedBuf.Insert hands back.
ServerLines_Stale(id) == SB!Batch_Stale(id, id)
ServerLines(id) == SB!Batch(id, id)

Goto(w, pc) == wPC' = [wPC EXCEPT ![w] = pc]

ServerHas(id) == id < sNextID \/ id \in DOMAIN sBuffer

WorkerTake_AnyShard(w) ==
    /\ server # "crashed" /\ wPC[w] = "idle" /\ jobs # <<>>
    /\ Goto(w, IF Head(jobs).shard = 0 /\ ~benchMode THEN "insert" ELSE "ack")
    /\ wID' = [wID EXCEPT ![w] = Head(jobs).id]
    /\ jobs' = Tail(jobs)
    /\ UNCHANGED <<benchMode, clientVars, sent, acked, server, wOut, lineVars>>
WorkerTake(w) ==
    /\ server # "crashed" /\ wPC[w] = "idle" /\ jobs # <<>>
    /\ LET sm == Head(jobs)
       IN  IF sm.shard = 0
           THEN /\ Goto(w, IF benchMode THEN "ack" ELSE "insert")
                /\ wID' = [wID EXCEPT ![w] = sm.id]
           ELSE UNCHANGED <<wPC, wID>>
    /\ jobs' = Tail(jobs)
    /\ UNCHANGED <<benchMode, clientVars, sent, acked, server, wOut, lineVars>>

WorkerInsert_NoAck(w) ==
    /\ server # "crashed" /\ wPC[w] = "insert"
    /\ SB!InsertBody(wID[w], wID[w])
    /\ wOut' = [wOut EXCEPT ![w] = ServerLines(wID[w])]
    /\ Goto(w, IF wOut'[w] = <<>> THEN "idle" ELSE "print")
    /\ UNCHANGED <<benchMode, clientVars, sent, acked, jobs, server, wID, sPrinted>>
WorkerInsert(w) ==
    /\ server # "crashed" /\ wPC[w] = "insert"
    /\ SB!InsertBody(wID[w], wID[w])
    /\ wOut' = [wOut EXCEPT ![w] = ServerLines(wID[w])]
    /\ Goto(w, IF wOut'[w] = <<>> THEN "ack" ELSE "print")
    /\ UNCHANGED <<benchMode, clientVars, sent, acked, jobs, server, wID, sPrinted>>

\* One fmt.Fprintln, outside every lock.
WorkerPrint(w) ==
    /\ server # "crashed" /\ wPC[w] = "print"
    /\ sPrinted' = Append(sPrinted, Head(wOut[w]))
    /\ wOut' = [wOut EXCEPT ![w] = Tail(@)]
    /\ Goto(w, IF wOut'[w] = <<>> THEN "ack" ELSE "print")
    /\ UNCHANGED <<benchMode, clientVars, sent, acked, jobs, server, wID, sNextID, sBuffer>>

WorkerAck(w) ==
    /\ server # "crashed" /\ wPC[w] = "ack"
    /\ \/ acked' = acked \cup {wID[w]}
       \/ server = "down" /\ UNCHANGED acked
    /\ wID' = [wID EXCEPT ![w] = None]
    /\ Goto(w, "idle")
    /\ UNCHANGED <<benchMode, clientVars, sent, jobs, server, wOut, lineVars>>

Worker(w) == \/ WorkerTake(w) \/ WorkerInsert(w) \/ WorkerPrint(w) \/ WorkerAck(w)

-----------------------------------------------------------------------------
Next == \/ Client
        \/ \E id \in sent, i \in 0..DataShards : Receive(Datagram(id, i))
        \/ ReceivePanics \/ ServerShutdown
        \/ \E w \in Workers : Worker(w)

Spec == Init /\ [][Next]_vars

\* The workers are alike.
WorkerSymmetry == Permutations(Workers)

-----------------------------------------------------------------------------
(* Properties *)

\* On each side a packet has one line: the client's screen and its two printers
\* hold one status per id below nextID, although the server, which knows no
\* duplicates, acknowledges a packet each time its shard 0 comes; and the
\* server's screen and its workers hold one line per id below its own nextID,
\* although two workers may process the same shard at once, and process it again
\* after a retransmission (client.go:258-260, 285-287, server.go:146-156).
StatusLines == ToSet(printed) \cup ToSet(ackOut) \cup ToSet(dmnOut)
StatusOnce == /\ Len(printed) + Len(ackOut) + Len(dmnOut) = nextID - 1
              /\ \A id \in IDs : id < nextID <=> \E l \in StatusLines : l.id = id
LineOnce == \A id \in IDs : Occurs(sPrinted, id) + Entries(wOut, id) = IF id < sNextID THEN 1 ELSE 0
OneLineEach == StatusOnce /\ LineOnce

\* What the client says was delivered was: an OK, printed, in a printer's hands
\* or waiting, is for a packet whose line the server has released or holds,
\* even if LOST and OK raced for it (client.go:252-260, server.go:154-163).
KnownStatuses == StatusLines \cup {buffer[k] : k \in DOMAIN buffer}
OkIsTrue == \A id \in IDs : Line(id, "OK") \in KnownStatuses => ServerHas(id)

\* A packet the server has is acknowledged or about to be, even if its line
\* waits for another packet's; otherwise the client would give up a packet that
\* is on the server's screen (server.go:146-164).
HeldIsAnswered ==
    server = "up" => \A id \in IDs : ServerHas(id) =>
        \/ id \in acked
        \/ \E w \in Workers : wID[w] = id /\ wPC[w] \in {"print", "ack"}

=============================================================================
