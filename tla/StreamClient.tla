---------------------------- MODULE StreamClient ----------------------------
(***************************************************************************)
(* The QUIC and SCTP clients (internal/variants/quic/client.go and         *)
(* internal/variants/sctp/client.go): generators that send each packet     *)
(* once, ackReceiver, Run and Shutdown as main calls them.  They differ in *)
(* how a line reaches the screen: the SCTP client prints it, the QUIC      *)
(* client offers it to outputCh and drops it if the channel is full, and   *)
(* its Shutdown closes that channel while ackReceiver runs.                *)
(*                                                                         *)
(* The server is external (see PacketServer): it acknowledges a packet it  *)
(* has received at most once, with verdict OK.  ACKs arrive in any order   *)
(* or never, and the connection may break.  Definitions follow the QUIC    *)
(* client; the two generators (with and without PregenPackets) send alike. *)
(* A line of output is its id.                                             *)
(***************************************************************************)
EXTENDS Integers, Sequences, SequencesExt, FiniteSets

CONSTANTS Workers,       \* number of generator goroutines
          TotalPackets,
          OutputCaps     \* capacities of outputCh to try; 100_000 in the code

ASSUME ClientAssumption == /\ Workers \in Nat \ {0}
                           /\ TotalPackets \in Nat
                           /\ OutputCaps \subseteq Nat \ {0} /\ OutputCaps # {}

VARIABLES
    benchMode,            \* config.BenchMode
    piped, outputCap,     \* QUIC's outputCh is there, and cap(c.outputCh)
    connUp,               \* the connection works
    genDone, genID,       \* per generator: it has returned; its loop variable
    sent,                 \* ids written to the connection
    answered,             \* ids whose ACK has arrived
    ackPC, ackID, ackOut, \* ackReceiver: step, id at hand, rest of its batch
    ackCount,             \* c.ackCount
    nextID, buffer,       \* c.orderedOutput
    outputCh, outClosed,  \* c.outputCh
    dropped,              \* history: lines that found outputCh full
    printed,              \* the lines written to c.out
    runPC,                \* Run, then Shutdown
    crashed               \* a panic ended the process

configVars == <<benchMode, piped, outputCap>>
genVars    == <<genDone, genID, sent>>
ackVars    == <<answered, ackPC, ackID, ackOut, ackCount>>
orderVars  == <<nextID, buffer>>
outVars    == <<outputCh, dropped, printed>>
mainVars   == <<runPC, outClosed>>
vars == <<configVars, connUp, genVars, ackVars, orderVars, outVars, mainVars, crashed>>

IDs == 1..TotalPackets
Generators == 0..Workers-1
None == 0

OB == INSTANCE OrderedBuffer WITH Values <- IDs, StartID <- 1, MaxID <- TotalPackets,
                                  offered <- {}, released <- <<>>

Init ==
    /\ benchMode \in BOOLEAN /\ piped \in BOOLEAN /\ outputCap \in OutputCaps
    /\ connUp = TRUE
    /\ genDone = [g \in Generators |-> FALSE]
    /\ genID = [g \in Generators |-> g + 1]
    /\ sent = {} /\ answered = {}
    /\ ackPC = "receive" /\ ackID = None /\ ackOut = <<>> /\ ackCount = 0
    /\ nextID = 1 /\ buffer = [k \in {} |-> {}]
    /\ outputCh = <<>> /\ outClosed = FALSE /\ dropped = {} /\ printed = <<>>
    /\ runPC = "generate"
    /\ crashed = FALSE

\* The process runs until main returns or a goroutine panics.
Running == ~crashed /\ runPC # "exited"

-----------------------------------------------------------------------------
(* generator *)

\* A send that completes.  OpenStreamSync, Write and the SCTP Send wait without a
\* deadline for the peer to take more: a generator that has this step before it
\* and never makes it is blocked there.  Shutdown comes only after every generator
\* has returned, so the look at stopCh never matters here.
GenSend(g) ==
    /\ Running
    /\ ~genDone[g] /\ genID[g] <= TotalPackets /\ connUp
    /\ sent' = sent \cup {genID[g]}
    /\ genID' = [genID EXCEPT ![g] = @ + Workers]
    /\ UNCHANGED <<configVars, connUp, genDone, ackVars, orderVars, outVars, mainVars, crashed>>

\* All sent, or a failed OpenStreamSync or Write.  (A definition named
\* <definition>_<fault> stands for a plausible bug; nothing uses it.)
GenReturn_IgnoresError(g) ==
    /\ Running
    /\ ~genDone[g] /\ genID[g] > TotalPackets
    /\ genDone' = [genDone EXCEPT ![g] = TRUE]
    /\ UNCHANGED <<configVars, connUp, genID, sent, ackVars, orderVars, outVars, mainVars, crashed>>
GenReturn(g) ==
    /\ Running
    /\ ~genDone[g] /\ (genID[g] > TotalPackets \/ ~connUp)
    /\ genDone' = [genDone EXCEPT ![g] = TRUE]
    /\ UNCHANGED <<configVars, connUp, genID, sent, ackVars, orderVars, outVars, mainVars, crashed>>

Generator(g) == GenSend(g) \/ GenReturn(g)

ConnBreak ==
    /\ Running
    /\ connUp /\ connUp' = FALSE
    /\ UNCHANGED <<configVars, genVars, ackVars, orderVars, outVars, mainVars, crashed>>

-----------------------------------------------------------------------------
(* ackReceiver *)

AckReceive(id) ==
    /\ Running
    /\ ackPC = "receive" /\ connUp
    /\ id \in sent \ answered
    /\ answered' = answered \cup {id}
    /\ ackCount' = ackCount + 1
    /\ IF benchMode
       THEN UNCHANGED <<ackPC, ackID>>
       ELSE ackPC' = "insert" /\ ackID' = id
    /\ UNCHANGED <<configVars, connUp, genVars, ackOut, orderVars, outVars, mainVars, crashed>>

AckInsert ==
    /\ Running
    /\ ackPC = "insert"
    /\ OB!InsertBody(ackID, ackID)
    /\ ackOut' = OB!Batch(ackID, ackID)
    /\ ackPC' = IF ackOut' = <<>> THEN "receive" ELSE "output"
    /\ ackID' = None
    /\ UNCHANGED <<configVars, connUp, genVars, answered, ackCount, outVars, mainVars, crashed>>

LineDone == /\ ackOut' = Tail(ackOut)
            /\ ackPC' = IF Tail(ackOut) = <<>> THEN "receive" ELSE "output"
            /\ UNCHANGED <<configVars, connUp, genVars, answered, ackID, ackCount, orderVars,
                           mainVars, crashed>>

\* SCTP: fmt.Fprintln
AckPrint ==
    /\ Running
    /\ ackPC = "output" /\ ~piped
    /\ printed' = Append(printed, Head(ackOut))
    /\ LineDone
    /\ UNCHANGED <<outputCh, dropped>>

\* QUIC: select with a default.
AckOffer_OverCapacity ==
    /\ Running
    /\ ackPC = "output" /\ piped /\ ~outClosed
    /\ IF Len(outputCh) <= outputCap
       THEN outputCh' = Append(outputCh, Head(ackOut)) /\ UNCHANGED dropped
       ELSE dropped' = dropped \cup {Head(ackOut)} /\ UNCHANGED outputCh
    /\ LineDone
    /\ UNCHANGED printed
AckOffer_PrintsIfFull ==
    /\ Running
    /\ ackPC = "output" /\ piped /\ ~outClosed
    /\ IF Len(outputCh) < outputCap
       THEN outputCh' = Append(outputCh, Head(ackOut)) /\ UNCHANGED printed
       ELSE printed' = Append(printed, Head(ackOut)) /\ UNCHANGED outputCh
    /\ LineDone
    /\ UNCHANGED dropped
AckOffer ==
    /\ Running
    /\ ackPC = "output" /\ piped /\ ~outClosed
    /\ IF Len(outputCh) < outputCap
       THEN outputCh' = Append(outputCh, Head(ackOut)) /\ UNCHANGED dropped
       ELSE dropped' = dropped \cup {Head(ackOut)} /\ UNCHANGED outputCh
    /\ LineDone
    /\ UNCHANGED printed

AckOfferPanics ==
    /\ Running
    /\ ackPC = "output" /\ piped /\ outClosed
    /\ crashed' = TRUE
    /\ UNCHANGED <<configVars, connUp, genVars, ackVars, orderVars, outVars, mainVars>>

\* ReceiveTo fails.
AckStop ==
    /\ Running
    /\ ackPC = "receive" /\ ~connUp
    /\ ackPC' = "done"
    /\ UNCHANGED <<configVars, connUp, genVars, answered, ackID, ackOut, ackCount, orderVars,
                   outVars, mainVars, crashed>>

AckReceiver == AckInsert \/ AckPrint \/ AckOffer \/ AckOfferPanics \/ AckStop

\* What is queued when the channel is closed is still printed.
OutputPipeline ==
    /\ Running
    /\ outputCh # <<>>
    /\ printed' = Append(printed, Head(outputCh))
    /\ outputCh' = Tail(outputCh)
    /\ UNCHANGED <<configVars, connUp, genVars, ackVars, orderVars, dropped, mainVars, crashed>>

-----------------------------------------------------------------------------
(* Run, then Shutdown, then main returns *)

RunStep(from, to) == /\ Running
                     /\ runPC = from /\ runPC' = to
                     /\ UNCHANGED <<configVars, genVars, ackVars, orderVars, outVars, crashed>>

RunWaitGenerators == /\ \A g \in Generators : genDone[g]
                     /\ RunStep("generate", "poll")
                     /\ UNCHANGED <<connUp, outClosed>>

RunComplete_OneTooFew ==
    /\ ackCount + 1 >= TotalPackets
    /\ RunStep("poll", "complete")
    /\ UNCHANGED <<connUp, outClosed>>
RunComplete == /\ ackCount >= TotalPackets
               /\ RunStep("poll", "complete")
               /\ UNCHANGED <<connUp, outClosed>>

\* The deadline of 20 (QUIC) or 10 (SCTP) seconds may strike at any time.
RunTimeout == RunStep("poll", "timedOut") /\ UNCHANGED <<connUp, outClosed>>

\* close(stopCh); close(outputCh)
ShutdownOutput == /\ RunStep("complete", "closing") \/ RunStep("timedOut", "closing")
                  /\ outClosed' = piped
                  /\ UNCHANGED connUp

ShutdownConn == RunStep("closing", "closed") /\ connUp' = FALSE /\ UNCHANGED outClosed

MainReturns == RunStep("closed", "exited") /\ UNCHANGED <<connUp, outClosed>>

Main == RunWaitGenerators \/ RunComplete \/ ShutdownOutput \/ ShutdownConn \/ MainReturns

-----------------------------------------------------------------------------
Next == \/ \E g \in Generators : Generator(g)
        \/ ConnBreak
        \/ \E id \in IDs : AckReceive(id)
        \/ AckReceiver
        \/ OutputPipeline
        \/ Main
        \/ RunTimeout

Spec == Init /\ [][Next]_vars

\* The scheduler runs every goroutine that can move, the screen takes what is
\* printed, and the deadline of Run strikes some day.  The peer and the network owe
\* nothing: a send may block for ever, unless the connection breaks.
Fairness == /\ \A g \in Generators : WF_vars(GenReturn(g))
            /\ WF_vars(AckReceiver)
            /\ WF_vars(OutputPipeline)
            /\ WF_vars(Main \/ RunTimeout)
FairSpec == Spec /\ Fairness

-----------------------------------------------------------------------------
(* Properties *)

TypeOK ==
    /\ {benchMode, piped, connUp, outClosed, crashed} \subseteq BOOLEAN
    /\ outputCap \in OutputCaps
    /\ genDone \in [Generators -> BOOLEAN] /\ genID \in [Generators -> 1..TotalPackets+Workers]
    /\ answered \subseteq sent /\ sent \subseteq IDs /\ ackCount \in 0..TotalPackets
    /\ ackPC \in {"receive", "insert", "output", "done"}
    /\ ackID \in {None} \cup IDs /\ ackOut \in Seq(IDs)
    /\ nextID \in 1..TotalPackets+1
    /\ DOMAIN buffer \subseteq IDs /\ \A k \in DOMAIN buffer : buffer[k] \in IDs
    /\ outputCh \in Seq(IDs) /\ Len(outputCh) <= outputCap
    /\ dropped \subseteq IDs /\ printed \in Seq(IDs)
    /\ runPC \in {"generate", "poll", "complete", "timedOut", "closing", "closed", "exited"}

\* Streaming output strictly in order (README.md:6) holds for these clients:
\* one goroutine prints, so the screen, the channel and the batch at hand read
\* as ascending ids, and with the dropped lines they are all ids below nextID.
LinesInOrder ==
    LET lines == printed \o outputCh \o ackOut
    IN  /\ \A m, n \in 1..Len(lines) : m < n => lines[m] < lines[n]
        /\ ToSet(lines) \cup dropped = 1..nextID-1
        /\ ToSet(lines) \cap dropped = {}

\* Run may complete with lines unprinted (its counter is incremented first), but
\* the counter runs ahead of the ordered buffer by at most the one ACK that
\* ackReceiver is inserting: when Run completes, every other id has been given
\* to the ordered buffer (quic/client.go:85, 196-206).
CompleteMeansInserted ==
    runPC = "complete" /\ ~benchMode =>
        IDs \subseteq 1..nextID-1 \cup DOMAIN buffer \cup {ackID}

\* One thing alone can hold the client for ever: a send that the peer never takes
\* on a connection that stays up, for Run starts its deadline only when all
\* generators have returned.  Otherwise, with ACKs missing, the connection broken
\* at any moment or generators stopped in the middle of their ids, Run and Shutdown
\* end, or a panic ends them (quic/client.go:81-100, 115-122, 166-176, 222-227).
SendBlocks == connUp /\ \E g \in Generators : ~genDone[g] /\ genID[g] <= TotalPackets
ClientEnds == <>(crashed \/ runPC = "exited") \/ <>[]SendBlocks
=============================================================================
