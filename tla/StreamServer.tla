---------------------------- MODULE StreamServer ----------------------------
(***************************************************************************)
(* The QUIC and SCTP servers (internal/variants/quic/server.go and         *)
(* internal/variants/sctp/server.go) behind one connection that Run has    *)
(* accepted.  worker, outputPipeline and processMessage are those of       *)
(* PacketServer, of which this module takes over all but the reading loop, *)
(* the sending of ACKs and the end: a packet comes once, over a reliable   *)
(* stream, an error ends Run, and Shutdown closes only the listener,       *)
(* whereupon main returns and the process is gone.                         *)
(***************************************************************************)
EXTENDS PacketServer

VARIABLES
    quic,       \* the QUIC server, or else the SCTP server
    connUp,     \* the connection works
    arrived,    \* ids Run has read
    overflowed  \* history: ids that found s.jobs full

connVars == <<quic, connUp, arrived, overflowed>>

StreamInit == /\ Init
              /\ quic \in BOOLEAN /\ connUp = TRUE
              /\ arrived = {} /\ overflowed = {}

Alive == ~crashed /\ stage # "connClosed"

\* The SCTP server takes its buffer before it waits for a message, the QUIC
\* server when it has a stream.
StreamLoop ==
    /\ Alive
    /\ runPC = "loop"
    /\ IF Reached("stopClosed")
       THEN runPC' = "done" /\ UNCHANGED <<pool, runBuf>>
       ELSE /\ runPC' = "receive"
            /\ IF quic THEN UNCHANGED <<pool, runBuf>>
               ELSE pool' = [pool EXCEPT ![GetBuf] = @ - 1] /\ runBuf' = GetBuf
    /\ UNCHANGED <<benchMode, content, jobs, workerVars, dedup, orderVars, outVars, acked,
                   stage, crashed, arrivals, connVars>>

\* A whole packet of the peer or, from a QUIC stream that broke off, a part of
\* one, which Deserialize will refuse.
StreamReceive(d) ==
    LET b == IF quic THEN GetBuf ELSE runBuf
    IN  /\ Alive
        /\ runPC = "receive"
        /\ IF d = Bad THEN quic /\ ~connUp ELSE connUp /\ d \notin arrived
        /\ arrived' = arrived \cup ({d} \cap IDs)
        /\ pool' = IF quic THEN [pool EXCEPT ![b] = @ - 1] ELSE pool
        /\ runBuf' = b
        /\ content' = [content EXCEPT ![b] = d]
        /\ runPC' = "push"
        /\ UNCHANGED <<benchMode, jobs, workerVars, dedup, orderVars, outVars, acked, stage,
                       crashed, arrivals, quic, connUp, overflowed>>

\* AcceptStream or ReceiveTo fails; a QUIC stream that broke off before its first
\* byte makes no job.
StreamError ==
    /\ Alive
    /\ runPC = "receive" /\ ~connUp
    /\ IF quic THEN UNCHANGED poolVars ELSE PutBuf(runBuf)
    /\ runBuf' = NoBuf
    /\ runPC' \in IF quic THEN {"done", "loop"} ELSE {"done"}
    /\ UNCHANGED <<benchMode, jobs, workerVars, dedup, orderVars, outVars, acked, stage,
                   crashed, arrivals, connVars>>

StreamPush ==
    /\ stage # "connClosed"
    /\ RunPush
    /\ overflowed' = IF Len(jobs) < JobsCap THEN overflowed
                     ELSE overflowed \cup ({content[runBuf]} \cap IDs)
    /\ UNCHANGED <<quic, connUp, arrived>>

StreamRun == StreamLoop \/ StreamError \/ StreamPush \/ (RunPushPanics /\ UNCHANGED connVars)

\* conn.Send fails, unnoticed, if the connection is gone.
StreamAck(w) ==
    /\ Alive
    /\ wPC[w] = "ack"
    /\ acked' = IF connUp THEN acked \cup {wID[w]} ELSE acked
    /\ Goto(w, "put")
    /\ UNCHANGED <<benchMode, poolVars, runVars, jobs, wBuf, wID, wOut, dedup, orderVars,
                   outVars, stage, crashed, arrivals, connVars>>

StreamWorker(w) ==
    \/ StreamAck(w)
    \/ /\ Alive
       /\ \/ WorkerTake(w) \/ WorkerEnd(w) \/ Decode(w) \/ Mark(w) \/ InsertLine(w)
          \/ SendLine(w) \/ SendLinePanics(w) \/ WorkerPut(w)
       /\ UNCHANGED connVars

StreamOutput   == Alive /\ OutputPipeline /\ UNCHANGED connVars
StreamShutdown == Alive /\ ShutdownStep /\ UNCHANGED connVars

ConnBreak == /\ Alive
             /\ connUp /\ connUp' = FALSE
             /\ UNCHANGED <<vars, quic, arrived, overflowed>>

StreamNext == \/ StreamRun
              \/ \E d \in Datagrams : StreamReceive(d)
              \/ \E w \in Workers : StreamWorker(w)
              \/ StreamOutput \/ StreamShutdown \/ ConnBreak
StreamSpec == StreamInit /\ [][StreamNext]_<<vars, connVars>>

\* As in PacketServer; packets, the break and Shutdown may never come.  The client's
\* ackReceiver reads as long as the connection works, so the Send of an ACK ends.
StreamFairness == /\ WF_<<vars, connVars>>(StreamRun)
                  /\ \A w \in Workers : WF_<<vars, connVars>>(StreamWorker(w))
                  /\ WF_<<vars, connVars>>(StreamOutput)
FairStreamSpec == StreamSpec /\ StreamFairness

-----------------------------------------------------------------------------
(* Properties *)

\* A packet that was read is in one place on its way, Run, the jobs channel or a
\* worker, or it was acknowledged, once, or found s.jobs full; only an ACK sent
\* into a broken connection is gone without a trace.  The clients count ACKs
\* without looking at their ids, so a second ACK would end one too early, and
\* they send nothing again, so a packet dropped unseen would hold one until its
\* time is up (quic/server.go:114-195, sctp/server.go:100-167).
Reading(id) == IF runPC = "push" /\ content[runBuf] = id THEN 1 ELSE 0
Queued(id)  == Cardinality({i \in 1..Len(jobs) : content[jobs[i]] = id})
Working(id) == Cardinality({w \in Workers : /\ wBuf[w] # NoBuf /\ wPC[w] # "put"
                                            /\ content[wBuf[w]] = id})
Answered(id) == Cardinality({s \in {<<"ack", acked>>, <<"full", overflowed>>} : id \in s[2]})
AckedOnce == \A id \in arrived :
                LET places == Reading(id) + Queued(id) + Working(id) + Answered(id)
                IN  places = 1 \/ (places = 0 /\ ~connUp)

\* Every packet read is acknowledged, unless it found s.jobs full, the connection
\* breaks or the server is shut down: workers, output channel and output loop do
\* not hold one another up for good (quic/server.go:139-144, 180-194).
EveryReadAcked ==
    \A id \in IDs : (id \in arrived)
                        ~> (id \in acked \cup overflowed \/ ~connUp \/ stage # "up")
=============================================================================
