---------------------------- MODULE PacketServer ----------------------------
(***************************************************************************)
(* The server pipeline that the UDP, QUIC and SCTP variants share:         *)
(*                                                                         *)
(*   Run -> jobs -> worker (30 of them) -> outputCh -> outputPipeline      *)
(*                    |-> dedup, orderedBuf                                *)
(*                    `-> ACK to the client                                *)
(*                                                                         *)
(* with packet buffers that circulate between a sync.Pool, Run, the jobs    *)
(* channel and the workers, and a Shutdown that closes everything while    *)
(* they run.  Definitions follow internal/variants/udp/server.go; the one  *)
(* difference that matters is a constant: the QUIC and SCTP constructors   *)
(* make outputCh, the UDP constructor leaves it nil.                       *)
(*                                                                         *)
(* A buffer nobody holds counts as pooled: Pool.New makes one whenever Get *)
(* finds none, so Get never fails; Bufs are more than can be held at once. *)
(* A datagram is the id it carries, or Bad if Deserialize refuses it       *)
(* (which includes a bad checksum, so the FAIL branches behind it are dead *)
(* code).  A line of output is its id.                                     *)
(***************************************************************************)
EXTENDS Integers, Sequences, FiniteSets, Counting

CONSTANTS Workers,       \* the worker goroutines
          Bufs,          \* the packet buffers
          TotalPackets,  \* clients number their packets 1..TotalPackets
          JobsCap,       \* cap(s.jobs), 100_000 in the code
          OutputCap,     \* cap(s.outputCh)
          OutputMade,    \* FALSE if s.outputCh is nil
          MaxArrivals,   \* bound: datagrams the network delivers, repeats included
          NoBuf, Bad

IDs == 1..TotalPackets
Datagrams == IDs \cup {Bad}
None == 0

ASSUME ServerAssumption ==
    /\ TotalPackets \in Nat /\ JobsCap \in Nat \ {0} /\ OutputCap \in Nat \ {0}
    /\ OutputMade \in BOOLEAN /\ MaxArrivals \in Nat
    /\ Bad \notin Nat /\ NoBuf \notin Bufs
    /\ IsFiniteSet(Workers) /\ IsFiniteSet(Bufs)
    /\ Cardinality(Bufs) > JobsCap + Cardinality(Workers)

VARIABLES
    benchMode,            \* config.BenchMode
    pool,                 \* s.bufPool: how often each buffer lies in it
    content,              \* per buffer: the datagram last read into it
    runPC, runBuf,        \* Run: step, buffer it holds
    jobs,                 \* s.jobs: queue of buffers
    wPC, wBuf, wID, wOut, \* per worker: step, job's buffer, packet id, batch
    dedup,                \* ids s.dedup holds unexpired
    nextID, buffer,       \* s.orderedBuf
    outputCh,             \* s.outputCh
    printed,              \* lines written to s.out
    acked,                \* ids the server sent an ACK for
    stage,                \* how far Shutdown has come
    crashed,              \* a goroutine panicked: the process is gone
    arrivals              \* datagrams the network has delivered

poolVars   == <<pool, content>>
runVars    == <<runPC, runBuf>>
workerVars == <<wPC, wBuf, wID, wOut>>
orderVars  == <<nextID, buffer>>
outVars    == <<outputCh, printed>>
vars == <<benchMode, poolVars, runVars, jobs, workerVars, dedup, orderVars, outVars,
          acked, stage, crashed, arrivals>>

OB == INSTANCE OrderedBuffer WITH Values <- IDs, StartID <- 1, MaxID <- TotalPackets,
                                  offered <- {}, released <- <<>>

Init ==
    /\ benchMode \in BOOLEAN
    /\ pool = [b \in Bufs |-> 1] /\ content = [b \in Bufs |-> Bad]
    /\ runPC = "loop" /\ runBuf = NoBuf
    /\ jobs = <<>>
    /\ wPC = [w \in Workers |-> "idle"] /\ wBuf = [w \in Workers |-> NoBuf]
    /\ wID = [w \in Workers |-> None] /\ wOut = [w \in Workers |-> <<>>]
    /\ dedup = {}
    /\ nextID = 1 /\ buffer = [k \in {} |-> {}]
    /\ outputCh = <<>> /\ printed = <<>>
    /\ acked = {}
    /\ stage = "up" /\ crashed = FALSE
    /\ arrivals = 0

Stages == <<"up", "stopClosed", "jobsClosed", "outputClosed", "connClosed">>
Reached(s) == \E i, j \in 1..Len(Stages) : Stages[i] = s /\ Stages[j] = stage /\ i <= j

\* s.bufPool.Put.  Run reads into a buffer before anyone reads from it, so what
\* a returned buffer still contains is forgotten.
PutBuf(b) == /\ pool' = [pool EXCEPT ![b] = @ + 1]
             /\ content' = [content EXCEPT ![b] = Bad]
Panic == /\ ~crashed /\ crashed' = TRUE
         /\ UNCHANGED <<benchMode, poolVars, runVars, jobs, workerVars, dedup, orderVars,
                        outVars, acked, stage, arrivals>>

-----------------------------------------------------------------------------
(* Run *)

\* s.bufPool.Get: which pooled buffer it returns is immaterial, for they are all
\* alike and are written before they are read; a fixed choice keeps runs small.
GetBuf == CHOOSE b \in Bufs : pool[b] > 0

RunLoop ==
    /\ ~crashed
    /\ runPC = "loop"
    /\ IF Reached("stopClosed")
       THEN runPC' = "done" /\ UNCHANGED <<pool, runBuf>>
       ELSE /\ runPC' = "receive"
            /\ pool' = [pool EXCEPT ![GetBuf] = @ - 1]
            /\ runBuf' = GetBuf
    /\ UNCHANGED <<benchMode, content, jobs, workerVars, dedup, orderVars, outVars, acked,
                   stage, crashed, arrivals>>

RunReceive(d) ==
    /\ ~crashed
    /\ runPC = "receive"
    /\ ~Reached("connClosed")
    /\ arrivals < MaxArrivals
    /\ arrivals' = arrivals + 1
    /\ content' = [content EXCEPT ![runBuf] = d]
    /\ runPC' = "push"
    /\ UNCHANGED <<benchMode, pool, runBuf, jobs, workerVars, dedup, orderVars, outVars,
                   acked, stage, crashed>>

\* A failed read: the loop ends if the socket is closed and goes on otherwise.
RunReceiveError ==
    /\ ~crashed
    /\ runPC = "receive"
    /\ PutBuf(runBuf)
    /\ runBuf' = NoBuf
    /\ runPC' = IF Reached("connClosed") THEN "done" ELSE "loop"
    /\ UNCHANGED <<benchMode, jobs, workerVars, dedup, orderVars, outVars, acked, stage,
                   crashed, arrivals>>

\* The non-blocking send; a send on the closed channel panics.  (Definitions
\* named <definition>_<fault> stand for plausible bugs; nothing uses them.)
RunPush_PutsAnyway ==
    /\ ~crashed
    /\ runPC = "push"
    /\ ~Reached("jobsClosed")
    /\ PutBuf(runBuf)
    /\ jobs' = IF Len(jobs) < JobsCap THEN Append(jobs, runBuf) ELSE jobs
    /\ runBuf' = NoBuf
    /\ runPC' = "loop"
    /\ UNCHANGED <<benchMode, workerVars, dedup, orderVars, outVars, acked, stage, crashed,
                   arrivals>>
RunPush_OffByOne ==
    /\ ~crashed
    /\ runPC = "push"
    /\ ~Reached("jobsClosed")
    /\ IF Len(jobs) <= JobsCap
       THEN jobs' = Append(jobs, runBuf) /\ UNCHANGED poolVars
       ELSE PutBuf(runBuf) /\ UNCHANGED jobs
    /\ runBuf' = NoBuf
    /\ runPC' = "loop"
    /\ UNCHANGED <<benchMode, workerVars, dedup, orderVars, outVars, acked, stage, crashed,
                   arrivals>>
RunPush ==
    /\ ~crashed
    /\ runPC = "push"
    /\ ~Reached("jobsClosed")
    /\ IF Len(jobs) < JobsCap
       THEN jobs' = Append(jobs, runBuf) /\ UNCHANGED poolVars
       ELSE PutBuf(runBuf) /\ UNCHANGED jobs
    /\ runBuf' = NoBuf
    /\ runPC' = "loop"
    /\ UNCHANGED <<benchMode, workerVars, dedup, orderVars, outVars, acked, stage, crashed,
                   arrivals>>

RunPushPanics == runPC = "push" /\ Reached("jobsClosed") /\ Panic

Run == RunLoop \/ RunPush \/ RunPushPanics

-----------------------------------------------------------------------------
(* worker and processMessage *)

Goto(w, pc) == wPC' = [wPC EXCEPT ![w] = pc]

WorkerTake(w) ==
    /\ ~crashed
    /\ wPC[w] = "idle"
    /\ jobs # <<>>
    /\ wBuf' = [wBuf EXCEPT ![w] = Head(jobs)]
    /\ jobs' = Tail(jobs)
    /\ Goto(w, "decode")
    /\ UNCHANGED <<benchMode, poolVars, runVars, wID, wOut, dedup, orderVars, outVars,
                   acked, stage, crashed, arrivals>>

\* `for range jobs' ends when the channel is closed and drained.
WorkerEnd(w) ==
    /\ ~crashed
    /\ wPC[w] = "idle"
    /\ jobs = <<>> /\ Reached("jobsClosed")
    /\ Goto(w, "done")
    /\ UNCHANGED <<benchMode, poolVars, runVars, jobs, wBuf, wID, wOut, dedup, orderVars,
                   outVars, acked, stage, crashed, arrivals>>

\* Deserialize and, unless benchmarking, dedup.Get: a duplicate goes no
\* further and is not acknowledged again.
Decode(w) ==
    LET d == content[wBuf[w]]
    IN  /\ ~crashed /\ wPC[w] = "decode"
        /\ IF d = Bad
           THEN Goto(w, "put") /\ UNCHANGED wID
           ELSE /\ wID' = [wID EXCEPT ![w] = d]
                /\ Goto(w, IF benchMode THEN "ack" ELSE IF d \in dedup THEN "put" ELSE "mark")
        /\ UNCHANGED <<benchMode, poolVars, runVars, jobs, wBuf, wOut, dedup, orderVars,
                       outVars, acked, stage, crashed, arrivals>>

\* dedup.Set, under another lock than the Get before it.
Mark(w) ==
    /\ ~crashed
    /\ wPC[w] = "mark"
    /\ dedup' = dedup \cup {wID[w]}
    /\ Goto(w, "insert")
    /\ UNCHANGED <<benchMode, poolVars, runVars, jobs, wBuf, wID, wOut, orderVars, outVars,
                   acked, stage, crashed, arrivals>>

InsertLine_NoAck(w) ==
    /\ ~crashed
    /\ wPC[w] = "insert"
    /\ OB!InsertBody(wID[w], wID[w])
    /\ wOut' = [wOut EXCEPT ![w] = OB!Batch(wID[w], wID[w])]
    /\ Goto(w, IF wOut'[w] = <<>> THEN "put" ELSE "output")
    /\ UNCHANGED <<benchMode, poolVars, runVars, jobs, wBuf, wID, dedup, outVars, acked,
                   stage, crashed, arrivals>>
InsertLine(w) ==
    /\ ~crashed
    /\ wPC[w] = "insert"
    /\ OB!InsertBody(wID[w], wID[w])
    /\ wOut' = [wOut EXCEPT ![w] = OB!Batch(wID[w], wID[w])]
    /\ Goto(w, IF wOut'[w] = <<>> THEN "ack" ELSE "output")
    /\ UNCHANGED <<benchMode, poolVars, runVars, jobs, wBuf, wID, dedup, outVars, acked,
                   stage, crashed, arrivals>>

\* s.outputCh <- r, one line at a time and outside every lock.  It blocks
\* while the channel is full, and for ever if the channel was never made.
SendLine(w) ==
    /\ ~crashed
    /\ wPC[w] = "output"
    /\ OutputMade /\ Len(outputCh) < OutputCap /\ ~Reached("outputClosed")
    /\ outputCh' = Append(outputCh, Head(wOut[w]))
    /\ wOut' = [wOut EXCEPT ![w] = Tail(@)]
    /\ Goto(w, IF wOut'[w] = <<>> THEN "ack" ELSE "output")
    /\ UNCHANGED <<benchMode, poolVars, runVars, jobs, wBuf, wID, dedup, orderVars, printed,
                   acked, stage, crashed, arrivals>>

SendLinePanics(w) == wPC[w] = "output" /\ OutputMade /\ Reached("outputClosed") /\ Panic

\* conn.Send of the ACK; on a closed socket it fails and the error is dropped.
SendAck(w) ==
    /\ ~crashed
    /\ wPC[w] = "ack"
    /\ acked' = IF Reached("connClosed") THEN acked ELSE acked \cup {wID[w]}
    /\ Goto(w, "put")
    /\ UNCHANGED <<benchMode, poolVars, runVars, jobs, wBuf, wID, wOut, dedup, orderVars,
                   outVars, stage, crashed, arrivals>>

WorkerPut(w) ==
    /\ ~crashed
    /\ wPC[w] = "put"
    /\ PutBuf(wBuf[w])
    /\ wBuf' = [wBuf EXCEPT ![w] = NoBuf]
    /\ wID' = [wID EXCEPT ![w] = None]
    /\ Goto(w, "idle")
    /\ UNCHANGED <<benchMode, runVars, jobs, wOut, dedup, orderVars, outVars,
                   acked, stage, crashed, arrivals>>

Worker(w) == \/ WorkerTake(w) \/ WorkerEnd(w) \/ Decode(w) \/ Mark(w) \/ InsertLine(w)
             \/ SendLine(w) \/ SendLinePanics(w) \/ SendAck(w) \/ WorkerPut(w)

-----------------------------------------------------------------------------
OutputPipeline ==
    /\ ~crashed
    /\ outputCh # <<>>
    /\ printed' = Append(printed, Head(outputCh))
    /\ outputCh' = Tail(outputCh)
    /\ UNCHANGED <<benchMode, poolVars, runVars, jobs, workerVars, dedup, orderVars, acked,
                   stage, crashed, arrivals>>

\* 30 seconds have passed since dedup.Set(id): the next Get misses.
DedupExpire(id) ==
    /\ ~crashed
    /\ id \in dedup
    /\ dedup' = dedup \ {id}
    /\ UNCHANGED <<benchMode, poolVars, runVars, jobs, workerVars, orderVars, outVars,
                   acked, stage, crashed, arrivals>>

\* Shutdown: close(stopCh); close(jobs); close(outputCh); close the socket.
\* Closing the channel that was never made panics.
ShutdownStep ==
    /\ ~crashed
    /\ \E i \in 1..Len(Stages)-1 :
        /\ Stages[i] = stage
        /\ crashed' = (Stages[i+1] = "outputClosed" /\ ~OutputMade)
        /\ stage' = IF crashed' THEN stage ELSE Stages[i+1]
    /\ UNCHANGED <<benchMode, poolVars, runVars, jobs, workerVars, dedup, orderVars,
                   outVars, acked, arrivals>>

Next == \/ Run
        \/ \E d \in Datagrams : RunReceive(d)
        \/ RunReceiveError
        \/ \E w \in Workers : Worker(w)
        \/ OutputPipeline
        \/ \E id \in IDs : DedupExpire(id)
        \/ ShutdownStep

Spec == Init /\ [][Next]_vars

\* Goroutines that can move do; datagrams and Shutdown may never come.
Fairness == /\ WF_vars(Run)
            /\ \A w \in Workers : WF_vars(Worker(w))
            /\ WF_vars(OutputPipeline)
FairSpec == Spec /\ Fairness

-----------------------------------------------------------------------------
(* Properties *)

WorkerPCs == {"idle", "decode", "mark", "insert", "output", "ack", "put", "done"}

TypeOK ==
    /\ benchMode \in BOOLEAN /\ crashed \in BOOLEAN
    /\ pool \in [Bufs -> Nat] /\ content \in [Bufs -> Datagrams]
    /\ runPC \in {"loop", "receive", "push", "done"} /\ runBuf \in Bufs \cup {NoBuf}
    /\ jobs \in Seq(Bufs) /\ Len(jobs) <= JobsCap
    /\ wPC \in [Workers -> WorkerPCs] /\ wBuf \in [Workers -> Bufs \cup {NoBuf}]
    /\ wID \in [Workers -> IDs \cup {None}] /\ wOut \in [Workers -> Seq(IDs)]
    /\ dedup \subseteq IDs /\ acked \subseteq IDs
    /\ nextID \in 1..TotalPackets+1
    /\ DOMAIN buffer \subseteq IDs /\ \A k \in DOMAIN buffer : buffer[k] \in IDs
    /\ outputCh \in Seq(IDs) /\ Len(outputCh) <= OutputCap /\ printed \in Seq(IDs)
    /\ stage \in {Stages[i] : i \in 1..Len(Stages)}
    /\ arrivals \in 0..MaxArrivals

\* Every buffer is in exactly one place: once in the pool, in Run's hands, once
\* in the jobs channel, or with one worker.  In two places, Run would read the
\* next datagram into memory a worker still decodes without copying; in none,
\* the pool would leak (server.go:92-93, 111-129).
Places(b) == pool[b] + (IF runBuf = b THEN 1 ELSE 0)
             + Occurs(jobs, b) + Holders(wBuf, b)
BufferInOnePlace == \A b \in Bufs : Places(b) = 1

\* Every id below nextID has exactly one line, on the screen, in outputCh or in
\* a worker's batch, and no other has any, even though two workers can pass dedup.Get with the same
\* id and dedup forgets ids after 30 s (server.go:150-165, ordered_buffer.go:24).
Lines(id) == Occurs(printed, id) + Occurs(outputCh, id) + Entries(wOut, id)
LinesConserved == \A id \in IDs : Lines(id) = IF id < nextID THEN 1 ELSE 0

\* An ACK is never ahead of the bookkeeping: the line of an acknowledged id
\* waits in the ordered buffer or has been released from it.  On the ACK the
\* client erases the packet, so nothing would bring it again (server.go:163-180).
AckAfterOutput ==
    \A id \in acked : \/ benchMode
                      \/ id \in DOMAIN buffer
                      \/ id < nextID

\* A job that carries a packet leads to an ACK for it, although a duplicate is
\* dropped without one, unless the server is shut down first.
EveryJobAcked ==
    \A id \in IDs : (\E i \in 1..Len(jobs) : content[jobs[i]] = id)
                        ~> (id \in acked \/ stage # "up")
=============================================================================
