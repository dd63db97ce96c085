------------------------------ MODULE UDPClient ------------------------------
(***************************************************************************)
(* The reference UDP client (internal/variants/udp/client.go): generator   *)
(* goroutines, the ACK receiver, the retransmission daemon, Run and        *)
(* Shutdown, over one LayerCache and one OrderedBuffer.  Every lock-        *)
(* protected call and every datagram is one step; everything in between    *)
(* may interleave, so the code's unlocked windows are all present: send    *)
(* before registration (196-204), peek before promotion (256-260), delete  *)
(* before insert (230-238), insert before print (238-239, 266-267).        *)
(*                                                                         *)
(* The network may lose, delay, repeat and reorder datagrams.  The server  *)
(* is external here (see PacketServer): it accepts the first datagram of   *)
(* an id and acknowledges it, at most MaxAcks ACKs arriving per id.  A     *)
(* verdict of an ACK is always OK: the server never sends the FAIL byte,   *)
(* because Deserialize already refuses a bad checksum (udp/server.go:137). *)
(* Datagrams shorter than 9 bytes, which ackReceiver skips, and the        *)
(* formatting of lines are left out.                                       *)
(***************************************************************************)
EXTENDS LayerCache

CONSTANTS Workers,          \* number of generator goroutines
          TotalPackets,
          MaxAcks           \* bound: ACKs the network delivers per id

\* The layers (3 in NewClient) hold payloads under the ids of packets; a payload
\* is named after the packet it was generated for.
ASSUME ClientAssumption == /\ Workers \in Nat \ {0}
                           /\ TotalPackets \in Nat
                           /\ MaxAcks \in Nat
                           /\ Keys = 1..TotalPackets /\ Values = 1..TotalPackets

VARIABLES
    benchMode,              \* config.BenchMode
    nextID, buffer,         \* c.orderedOutput; `layers' is c.layerCache
    genPC, genID,           \* per generator: its step and its loop variable
    ackPC, ackID, ackOut,   \* ackReceiver: step, id at hand, lines still to print
    dmnPC, dmnData, dmnWake, dmnOut,  \* retransmitterDaemon; its peek is `peeked'
    ackCount, lostCount,    \* the metrics (sentCount follows from genPC, genID)
    runPC,                  \* Run, then Shutdown, as main calls them
    datagrams,              \* [id, data] sent so far: each may arrive, repeatedly
    transmitted,            \* per id: how often it was handed to conn.Send
    accepted,               \* per id: the payload the server accepted, if any
    ackIssued, ackInFlight, \* per id: ACKs the network will have carried / carries
    reportedLost,           \* ids for which the daemon inserted LOST
    printed                 \* the lines written to c.out, as [id, verdict]

cacheVars  == <<layers>>
orderVars  == <<nextID, buffer>>
genVars    == <<genPC, genID>>
ackVars    == <<ackPC, ackID, ackOut, ackCount>>
dmnVars    == <<dmnPC, peeked, dmnData, dmnWake, dmnOut, lostCount, reportedLost>>
netVars    == <<datagrams, transmitted>>
serverVars == <<accepted, ackIssued, ackInFlight>>
clientVars == <<benchMode, cacheVars, orderVars, genVars, ackVars, dmnVars, runPC,
                netVars, serverVars, printed>>

IDs == 1..TotalPackets
Generators == 0..Workers-1
None == 0
Lines == [id : IDs, verdict : {"OK", "LOST"}]
Line(id, verdict) == [id |-> id, verdict |-> verdict]

OB == INSTANCE OrderedBuffer WITH Values <- Lines, StartID <- 1, MaxID <- TotalPackets,
                                  offered <- {}, released <- <<>>

ClientInit ==
    /\ benchMode \in BOOLEAN
    /\ layers = [i \in Layer |-> <<>>]
    /\ nextID = 1 /\ buffer = [k \in {} |-> {}]
    /\ genPC = [g \in Generators |-> "send"]
    /\ genID = [g \in Generators |-> g + 1]
    /\ ackPC = "receive" /\ ackID = None /\ ackOut = <<>>
    /\ dmnPC = IF benchMode THEN "done" ELSE "scan"
    /\ peeked = {} /\ dmnData = None /\ dmnWake = 0 /\ dmnOut = <<>>
    /\ ackCount = 0 /\ lostCount = 0
    /\ runPC = "generate"
    /\ datagrams = {} /\ transmitted = [id \in IDs |-> 0]
    /\ accepted = [id \in IDs |-> None]
    /\ ackIssued = [id \in IDs |-> 0] /\ ackInFlight = [id \in IDs |-> 0]
    /\ reportedLost = {}
    /\ printed = <<>>

-----------------------------------------------------------------------------
(* The wire: a closed socket swallows what is sent; nobody checks the error *)

Open     == runPC # "closed"
Stopping == runPC \in {"stopping", "closed"}   \* close(c.stopCh)

Transmit(id, data) ==
    IF Open
    THEN /\ datagrams' = datagrams \cup {[id |-> id, data |-> data]}
         /\ transmitted' = [transmitted EXCEPT ![id] = @ + 1]
    ELSE UNCHANGED netVars

\* The server accepts the first datagram of an id; from then on ACKs for the
\* id may be under way.
ServerAck(d) ==
    /\ ackIssued[d.id] < MaxAcks
    /\ accepted' = [accepted EXCEPT ![d.id] = IF @ = None THEN d.data ELSE @]
    /\ ackIssued' = [ackIssued EXCEPT ![d.id] = @ + 1]
    /\ ackInFlight' = [ackInFlight EXCEPT ![d.id] = @ + 1]
    /\ UNCHANGED <<benchMode, cacheVars, orderVars, genVars, ackVars, dmnVars,
                   runPC, netVars, printed>>

-----------------------------------------------------------------------------
(* generator: sends its ids Workers apart, each before it is registered *)

NextPacket(g) ==
    /\ genID' = [genID EXCEPT ![g] = @ + Workers]
    /\ genPC' = [genPC EXCEPT ![g] = "send"]

GenSend(g) ==
    /\ genPC[g] = "send"
    /\ genID[g] <= TotalPackets /\ ~Stopping
    /\ Transmit(genID[g], genID[g])
    /\ IF benchMode
       THEN NextPacket(g)
       ELSE genPC' = [genPC EXCEPT ![g] = "register"] /\ UNCHANGED genID
    /\ UNCHANGED <<benchMode, cacheVars, orderVars, ackVars, dmnVars, runPC, serverVars, printed>>

GenRegister(g) ==
    /\ genPC[g] = "register"
    /\ Set(genID[g], genID[g])
    /\ NextPacket(g)
    /\ UNCHANGED <<benchMode, orderVars, ackVars, dmnVars, runPC, netVars, serverVars, printed>>

GenDone(g) ==
    /\ genPC[g] = "send"
    /\ genID[g] > TotalPackets \/ Stopping
    /\ genPC' = [genPC EXCEPT ![g] = "done"]
    /\ UNCHANGED <<benchMode, cacheVars, orderVars, genID, ackVars, dmnVars, runPC,
                   netVars, serverVars, printed>>

Generator(g) == GenSend(g) \/ GenRegister(g) \/ GenDone(g)

-----------------------------------------------------------------------------
(* ackReceiver *)

AckReceive(id) ==
    /\ ackPC = "receive"
    /\ Open
    /\ ackInFlight[id] > 0
    /\ ackInFlight' = [ackInFlight EXCEPT ![id] = @ - 1]
    /\ ackCount' = ackCount + 1
    /\ IF benchMode
       THEN UNCHANGED <<ackPC, ackID>>
       ELSE ackPC' = "delete" /\ ackID' = id
    /\ UNCHANGED <<benchMode, cacheVars, orderVars, genVars, ackOut, dmnVars, runPC,
                   netVars, accepted, ackIssued, printed>>

AckDelete ==
    /\ ackPC = "delete"
    /\ Delete(ackID)
    /\ ackPC' = "insert"
    /\ UNCHANGED <<benchMode, orderVars, genVars, ackID, ackOut, ackCount, dmnVars,
                   runPC, netVars, serverVars, printed>>

AckInsert ==
    /\ ackPC = "insert"
    /\ OB!InsertBody(ackID, Line(ackID, "OK"))
    /\ ackOut' = OB!Batch(ackID, Line(ackID, "OK"))
    /\ ackPC' = IF ackOut' = <<>> THEN "receive" ELSE "print"
    /\ ackID' = None
    /\ UNCHANGED <<benchMode, cacheVars, genVars, ackCount, dmnVars, runPC,
                   netVars, serverVars, printed>>

\* One fmt.Fprintln of the returned batch, outside every lock.
AckPrint ==
    /\ ackPC = "print"
    /\ printed' = Append(printed, Head(ackOut))
    /\ ackOut' = Tail(ackOut)
    /\ ackPC' = IF ackOut' = <<>> THEN "receive" ELSE "print"
    /\ UNCHANGED <<benchMode, cacheVars, orderVars, genVars, ackID, ackCount, dmnVars,
                   runPC, netVars, serverVars>>

\* ReceiveTo fails once the socket is closed.
AckStop ==
    /\ ackPC = "receive"
    /\ ~Open
    /\ ackPC' = "done"
    /\ UNCHANGED <<benchMode, cacheVars, orderVars, genVars, ackID, ackOut, ackCount,
                   dmnVars, runPC, netVars, serverVars, printed>>

AckReceiver == AckDelete \/ AckInsert \/ AckPrint \/ AckStop

-----------------------------------------------------------------------------
(* retransmitterDaemon *)

DmnScan ==
    /\ dmnPC = "scan"
    /\ IF Stopping
       THEN dmnPC' = "done" /\ UNCHANGED peeked
       ELSE IF FoundExpired
       THEN dmnPC' = "promote" /\ peeked' = {PeekExpiredScan}
       ELSE dmnPC' = "deadline" /\ UNCHANGED peeked
    /\ UNCHANGED <<benchMode, cacheVars, orderVars, genVars, ackVars, dmnData, dmnWake,
                   dmnOut, lostCount, reportedLost, runPC, netVars, serverVars, printed>>

\* Only the layer index of the peek decides what is popped; its key decides
\* under which key the popped payload lives on.
DmnPromote_FirstLayer ==
    /\ dmnPC = "promote"
    /\ \E p \in peeked :
        /\ PromoteLayer(p.key, 0)
        /\ IF PromoteAlive(p.layer)
           THEN dmnPC' = "resend" /\ dmnData' = PromotedValue(p.layer)
           ELSE dmnPC' = "lost" /\ UNCHANGED dmnData
    /\ UNCHANGED <<benchMode, orderVars, genVars, ackVars, peeked, dmnWake, dmnOut,
                   lostCount, reportedLost, runPC, netVars, serverVars, printed>>
DmnPromote ==
    /\ dmnPC = "promote"
    /\ \E p \in peeked :
        /\ PromoteLayer(p.key, p.layer)
        /\ IF PromoteAlive(p.layer)
           THEN dmnPC' = "resend" /\ dmnData' = PromotedValue(p.layer)
           ELSE dmnPC' = "lost" /\ UNCHANGED dmnData
    /\ UNCHANGED <<benchMode, orderVars, genVars, ackVars, peeked, dmnWake, dmnOut,
                   lostCount, reportedLost, runPC, netVars, serverVars, printed>>

DmnResend ==
    /\ dmnPC = "resend"
    /\ \E p \in peeked : Transmit(p.key, dmnData)
    /\ dmnPC' = "scan" /\ peeked' = {} /\ dmnData' = None
    /\ UNCHANGED <<benchMode, cacheVars, orderVars, genVars, ackVars, dmnWake, dmnOut,
                   lostCount, reportedLost, runPC, serverVars, printed>>

DmnLost_CountsOnly ==
    /\ dmnPC = "lost"
    /\ lostCount' = lostCount + 1
    /\ dmnPC' = "scan" /\ peeked' = {}
    /\ UNCHANGED <<benchMode, cacheVars, orderVars, genVars, ackVars, dmnData, dmnWake,
                   dmnOut, reportedLost, runPC, netVars, serverVars, printed>>
DmnLost ==
    /\ dmnPC = "lost"
    /\ \E p \in peeked :
        /\ OB!InsertBody(p.key, Line(p.key, "LOST"))
        /\ dmnOut' = OB!Batch(p.key, Line(p.key, "LOST"))
        /\ reportedLost' = reportedLost \cup {p.key}
    /\ lostCount' = lostCount + 1
    /\ dmnPC' = IF dmnOut' = <<>> THEN "scan" ELSE "print"
    /\ peeked' = {}
    /\ UNCHANGED <<benchMode, cacheVars, genVars, ackVars, dmnData, dmnWake, runPC,
                   netVars, serverVars, printed>>

DmnPrint ==
    /\ dmnPC = "print"
    /\ printed' = Append(printed, Head(dmnOut))
    /\ dmnOut' = Tail(dmnOut)
    /\ dmnPC' = IF dmnOut' = <<>> THEN "scan" ELSE "print"
    /\ UNCHANGED <<benchMode, cacheVars, orderVars, genVars, ackVars, peeked, dmnData,
                   dmnWake, lostCount, reportedLost, runPC, netVars, serverVars>>

\* Nothing expired: sleep for what is left of the earliest deadline.  The
\* 20 ms pause with no deadline at all is shorter than a unit of time.
DmnDeadline ==
    /\ dmnPC = "deadline"
    /\ IF HasDeadlines /\ EarliestDeadline > 0
       THEN dmnPC' = "sleep" /\ dmnWake' = EarliestDeadline
       ELSE dmnPC' = "scan" /\ UNCHANGED dmnWake
    /\ UNCHANGED <<benchMode, cacheVars, orderVars, genVars, ackVars, peeked, dmnData,
                   dmnOut, lostCount, reportedLost, runPC, netVars, serverVars, printed>>

DmnWakeUp ==
    /\ dmnPC = "sleep"
    /\ dmnWake = 0
    /\ dmnPC' = "scan"
    /\ UNCHANGED <<benchMode, cacheVars, orderVars, genVars, ackVars, peeked, dmnData,
                   dmnWake, dmnOut, lostCount, reportedLost, runPC, netVars, serverVars, printed>>

Daemon == \/ DmnScan \/ DmnPromote \/ DmnResend \/ DmnLost \/ DmnPrint
          \/ DmnDeadline \/ DmnWakeUp

TimePasses ==
    /\ TimeMatters \/ dmnWake > 0
    /\ Tick
    /\ dmnWake' = IF dmnWake > 0 THEN dmnWake - 1 ELSE 0
    /\ UNCHANGED <<benchMode, orderVars, genVars, ackVars, dmnPC, peeked, dmnData,
                   dmnOut, lostCount, reportedLost, runPC, netVars, serverVars, printed>>

-----------------------------------------------------------------------------
(* Run, then Shutdown: no thread but the generators is waited for *)

RunStep(from, to) ==
    /\ runPC = from
    /\ runPC' = to
    /\ UNCHANGED <<benchMode, cacheVars, orderVars, genVars, ackVars, dmnVars,
                   netVars, serverVars, printed>>

RunWaitGenerators == /\ \A g \in Generators : genPC[g] = "done"
                     /\ RunStep("generate", "poll")

RunComplete == /\ IF benchMode THEN ackCount >= TotalPackets ELSE CacheLen = 0
               /\ RunStep("poll", "complete")

\* The deadline of 10 or 15 seconds: it may strike at any time.
RunTimeout == RunStep("poll", "timedOut")

ShutdownStop == RunStep("complete", "stopping") \/ RunStep("timedOut", "stopping")

ShutdownClose == RunStep("stopping", "closed")

Main == RunWaitGenerators \/ RunComplete \/ ShutdownStop \/ ShutdownClose

-----------------------------------------------------------------------------
ClientNext ==
    \/ \E g \in Generators : Generator(g)
    \/ \E d \in datagrams : ServerAck(d)
    \/ \E id \in IDs : AckReceive(id)
    \/ AckReceiver
    \/ Daemon
    \/ TimePasses
    \/ Main
    \/ RunTimeout

\* The network owes nothing: no fairness for ServerAck and AckReceive.  The Go
\* scheduler runs every goroutine that can move, and time goes on.
Fairness == /\ \A g \in Generators : WF_clientVars(Generator(g))
            /\ WF_clientVars(AckReceiver)
            /\ WF_clientVars(Daemon)
            /\ WF_clientVars(TimePasses)
            /\ WF_clientVars(Main)

ClientSpec == ClientInit /\ [][ClientNext]_clientVars
FairClientSpec == ClientSpec /\ Fairness

-----------------------------------------------------------------------------
(* Properties *)

TypeOK ==
    /\ benchMode \in BOOLEAN
    /\ layers \in [Layer -> Seq(Entry)]
    /\ nextID \in 1..TotalPackets+1
    /\ DOMAIN buffer \subseteq IDs /\ \A k \in DOMAIN buffer : buffer[k] \in Lines
    /\ genPC \in [Generators -> {"send", "register", "done"}]
    /\ genID \in [Generators -> 1..TotalPackets+Workers]
    /\ ackPC \in {"receive", "delete", "insert", "print", "done"}
    /\ ackID \in {None} \cup IDs /\ ackOut \in Seq(Lines)
    /\ dmnPC \in {"scan", "promote", "resend", "lost", "print", "deadline", "sleep", "done"}
    /\ peeked \subseteq Peek /\ dmnData \in {None} \cup IDs
    /\ dmnWake \in 0..LongestTTL /\ dmnOut \in Seq(Lines)
    /\ ackCount \in 0..TotalPackets*MaxAcks /\ lostCount \in Nat
    /\ runPC \in {"generate", "poll", "complete", "timedOut", "stopping", "closed"}
    /\ datagrams \subseteq [id : IDs, data : IDs]
    /\ transmitted \in [IDs -> Nat]
    /\ accepted \in [IDs -> {None} \cup IDs]
    /\ ackIssued \in [IDs -> 0..MaxAcks] /\ ackInFlight \in [IDs -> 0..MaxAcks]
    /\ reportedLost \subseteq IDs
    /\ printed \in Seq(Lines)

\* Whatever two threads do with the batches they were given, a status line is
\* neither lost nor repeated: the lines on the screen and in the hands of the
\* two printers are exactly one line per id below nextID (client.go:238-240,
\* 266-268).  It fails if a late ACK, or a LOST after an OK, reaches the screen.
LinesConserved ==
    LET all == printed \o ackOut \o dmnOut
    IN  /\ Len(all) = nextID - 1
        /\ {all[n].id : n \in 1..Len(all)} = 1..nextID-1

\* No id is sent more often than the cache has layers, although the daemon may
\* put an id back that an ACK has just deleted, and a generator may register
\* an id whose ACK has already come (client.go:196-204, 256-282).
RetryBudget == \A id \in IDs : transmitted[id] <= NumLayers

\* An id waits for at most one deadline (layer.go:118-142, client.go:204): an
\* id in two layers would be resent and reported twice.
OneDeadlinePerID ==
    \A i, j \in Layer : \A m \in 1..Len(layers[i]) : \A n \in 1..Len(layers[j]) :
        layers[i][m].key = layers[j][n].key => i = j /\ m = n

\* What the server accepts as packet id is that packet's own payload, although
\* the daemon can resend an id with the payload of another (layer.go:128,
\* client.go:273-282): by then the server has accepted the right one.
PayloadIntact == \A id \in IDs : accepted[id] \in {None, id}

\* A packet that was sent and has no status yet is in a layer, or in the hands of
\* a thread that will give it one.  There is one way for it to be forgotten: the
\* daemon pops it under the key of another packet, whose ACK came between
\* PeekExpiredScan and PromoteLayer, and that other packet then takes its place
\* among those that wait or are given up, unless one more ACK of its own erases
\* it there again (layer.go:118-142, client.go:252-268).
Registered == {id \in IDs : \E i \in Layer : \E n \in 1..Len(layers[i]) :
                                layers[i][n].key = id}
AcksHandled(id) == ackIssued[id] - ackInFlight[id]
                     - (IF ackPC = "delete" /\ ackID = id THEN 1 ELSE 0)
AckHandled(id) == ~benchMode /\ AcksHandled(id) > 0
GivenUp == reportedLost \cup (IF dmnPC = "lost" THEN {p.key : p \in peeked} ELSE {})
Tended  == Registered \cup GivenUp \cup {ackID}
             \cup {genID[g] : g \in {h \in Generators : genPC[h] = "register"}}
HasStatus(id) == id < nextID \/ id \in DOMAIN buffer
ForgottenForAnother ==
    ~benchMode => \A id \in IDs : transmitted[id] > 0 =>
        \/ id \in Tended \/ HasStatus(id)
        \/ \E other \in IDs : /\ AckHandled(other)
                              /\ other \in Registered \cup GivenUp \/ AcksHandled(other) > 1

\* Once all packets are sent the layers drain whatever the network does, so
\* that Run's wait ends; its timer, which may also end it, owes nothing here
\* (client.go:117-132).
AllSent  == \A g \in Generators : genPC[g] = "done"
Returned == runPC \notin {"generate", "poll"}
CacheDrains == AllSent ~> (CacheLen = 0 \/ Returned)

\* To its LayerCache the client is one more user: whatever its threads interleave,
\* they do to the layers only what one call at a time does, and the daemon promotes
\* from the layer of its last peek, once, with nothing kept back from one peek to
\* the next (client.go:204, 230, 256-260).
AtHand == IF dmnPC = "promote" THEN peeked ELSE {}
Cached == INSTANCE LayerCache WITH peeked <- AtHand
UsesLayerCache == Cached!Spec

-----------------------------------------------------------------------------
(* What the code and its documents say, and the program does not do *)

\* "An ACK has come: erase the packet from all layers" (client.go:229): an id
\* whose ACK has been handled (with MaxAcks = 1, its only one) is in no layer.
AckErases == \A id \in Registered : ~AckHandled(id)
=============================================================================
