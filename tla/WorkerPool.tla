----------------------------- MODULE WorkerPool -----------------------------
(***************************************************************************)
(* workerpool.Pool: workers that drain the task channel, any number of     *)
(* concurrent Submit calls, one per task, and of concurrent Close calls.   *)
(* The windows of the code are all present: Submit reads p.closed, then    *)
(* p.ctx, then sends (73-84); Close sets p.closed, closes the channel,     *)
(* cancels p.ctx, and waits (91-124).                                      *)
(*                                                                         *)
(* Go's channel is modelled as it works: a send that finds the channel     *)
(* full parks; a receive that makes room lets the longest parked send in   *)
(* at once; closing the channel makes every parked send panic, and so does *)
(* a later send.  A panic ends the process.                                *)
(***************************************************************************)
EXTENDS Integers, Sequences, FiniteSets, Counting

CONSTANTS Workers,    \* the worker goroutines
          QueueSize,  \* cap(p.taskCh)
          Tasks,      \* each is passed to one Submit call
          Closers,    \* the Close calls
          NoTask

ASSUME PoolAssumption == /\ QueueSize \in Nat \ {0}
                         /\ Workers # {} /\ IsFiniteSet(Workers)
                         /\ NoTask \notin Tasks

VARIABLES
    closed,      \* p.closed
    taskCh,      \* p.taskCh: the queued tasks
    parked,      \* sends blocked on p.taskCh, the longest waiting first
    chClosed,    \* close(p.taskCh) has happened
    cancelled,   \* p.ctx is done
    hand,        \* per worker: the task it executes
    gone,        \* workers that have called wg.Done
    err,         \* p.err: the task whose error it is, or NoTask
    submitPC,    \* per task: where its Submit call is, or what it returned
    closePC,     \* per Close call: where it is, or which way it returned
    closeErr,    \* per Close call: the p.err it returned
    failures,    \* history: executed tasks that returned an error, in order
    runs,        \* history: per task, how often it was executed
    crashed      \* a panic ended the process

chanVars   == <<taskCh, parked, chClosed>>
workerVars == <<hand, gone, err, failures, runs>>
closeVars  == <<closed, cancelled, closePC, closeErr>>
vars == <<chanVars, workerVars, closeVars, submitPC, crashed>>

\* What a Submit call may have returned; "accepted" is nil.
Refusals == {"errPoolClosed", "ctxErr"}
\* What a Close call may have returned; "workersDone" is p.err.
CloseReturns == {"errPoolClosed", "expired", "workersDone", "timedOut"}

Init ==
    /\ closed = FALSE /\ chClosed = FALSE /\ cancelled = FALSE
    /\ taskCh = <<>> /\ parked = <<>>
    /\ hand = [w \in Workers |-> NoTask] /\ gone = {} /\ err = NoTask
    /\ submitPC = [t \in Tasks |-> "start"]
    /\ closePC = [c \in Closers |-> "start"]
    /\ closeErr = [c \in Closers |-> NoTask]
    /\ failures = <<>> /\ runs = [t \in Tasks |-> 0]
    /\ crashed = FALSE

-----------------------------------------------------------------------------
(* Submit *)

SubmitAt(t, from, to) == /\ ~crashed
                         /\ submitPC[t] = from
                         /\ submitPC' = [submitPC EXCEPT ![t] = to]

\* if p.closed.Load()
SubmitCheckClosed(t) ==
    /\ SubmitAt(t, "start", IF closed THEN "errPoolClosed" ELSE "open")
    /\ UNCHANGED <<chanVars, workerVars, closeVars, crashed>>

\* the outer select
SubmitCheckCtx(t) ==
    /\ SubmitAt(t, "open", IF cancelled THEN "ctxErr" ELSE "send")
    /\ UNCHANGED <<chanVars, workerVars, closeVars, crashed>>

\* The inner select: with both cases ready it picks either.  (A definition named
\* <definition>_<fault> stands for a plausible bug; nothing uses it.)
SubmitSend_OffByOne(t) ==
    /\ ~chClosed
    /\ IF Len(taskCh) <= QueueSize
       THEN /\ SubmitAt(t, "send", "accepted")
            /\ taskCh' = Append(taskCh, t)
            /\ UNCHANGED parked
       ELSE /\ ~cancelled
            /\ SubmitAt(t, "send", "parked")
            /\ parked' = Append(parked, t)
            /\ UNCHANGED taskCh
    /\ UNCHANGED <<chClosed, workerVars, closeVars, crashed>>
SubmitSend(t) ==
    /\ ~chClosed
    /\ IF Len(taskCh) < QueueSize
       THEN /\ SubmitAt(t, "send", "accepted")
            /\ taskCh' = Append(taskCh, t)
            /\ UNCHANGED parked
       ELSE /\ ~cancelled
            /\ SubmitAt(t, "send", "parked")
            /\ parked' = Append(parked, t)
            /\ UNCHANGED taskCh
    /\ UNCHANGED <<chClosed, workerVars, closeVars, crashed>>

SubmitCancelled(t) ==
    /\ cancelled
    /\ SubmitAt(t, "send", "ctxErr")
    /\ UNCHANGED <<chanVars, workerVars, closeVars, crashed>>

\* A send on the closed channel, or a parked one when the channel was closed.
SubmitPanics(t) ==
    /\ ~crashed
    /\ submitPC[t] = "doomed" \/ (submitPC[t] = "send" /\ chClosed)
    /\ crashed' = TRUE
    /\ UNCHANGED <<chanVars, workerVars, closeVars, submitPC>>

Submit(t) == \/ SubmitCheckClosed(t) \/ SubmitCheckCtx(t) \/ SubmitSend(t)
             \/ SubmitCancelled(t) \/ SubmitPanics(t)

-----------------------------------------------------------------------------
(* worker *)

\* Room in the channel is given to the longest parked send at once.
WorkerTake(w) ==
    /\ ~crashed
    /\ w \notin gone /\ hand[w] = NoTask
    /\ taskCh # <<>>
    /\ hand' = [hand EXCEPT ![w] = Head(taskCh)]
    /\ IF parked = <<>>
       THEN taskCh' = Tail(taskCh) /\ UNCHANGED <<parked, submitPC>>
       ELSE /\ taskCh' = Append(Tail(taskCh), Head(parked))
            /\ parked' = Tail(parked)
            /\ submitPC' = [submitPC EXCEPT ![Head(parked)] = "accepted"]
    /\ UNCHANGED <<chClosed, gone, err, failures, runs, closeVars, crashed>>

\* Execute returns and errOnce keeps the first error: of two tasks that fail at
\* the same time, the one that wins errOnce counts as the first.
RecordError_Last(t) == err' = t
RecordError(t) == err' = IF err = NoTask THEN t ELSE err

WorkerExecuted(w) ==
    LET t == hand[w]
    IN  /\ ~crashed
        /\ t # NoTask
        /\ runs' = [runs EXCEPT ![t] = @ + 1]
        /\ \/ failures' = Append(failures, t) /\ RecordError(t)
           \/ UNCHANGED <<failures, err>>
        /\ hand' = [hand EXCEPT ![w] = NoTask]
        /\ UNCHANGED <<chanVars, gone, closeVars, submitPC, crashed>>

\* The range loop ends when the channel is closed and empty; wg.Done.
WorkerEnd_OnCancel(w) ==
    /\ ~crashed
    /\ w \notin gone /\ hand[w] = NoTask
    /\ cancelled
    /\ gone' = gone \cup {w}
    /\ UNCHANGED <<chanVars, hand, err, failures, runs, closeVars, submitPC, crashed>>
WorkerEnd(w) ==
    /\ ~crashed
    /\ w \notin gone /\ hand[w] = NoTask
    /\ taskCh = <<>> /\ chClosed
    /\ gone' = gone \cup {w}
    /\ UNCHANGED <<chanVars, hand, err, failures, runs, closeVars, submitPC, crashed>>

Worker(w) == WorkerTake(w) \/ WorkerExecuted(w) \/ WorkerEnd(w)

-----------------------------------------------------------------------------
(* Close *)

CloseAt(c, from, to) == /\ ~crashed
                        /\ closePC[c] = from
                        /\ closePC' = [closePC EXCEPT ![c] = to]

\* if p.closed.Swap(true)
CloseSwap(c) ==
    /\ CloseAt(c, "start", IF closed THEN "errPoolClosed" ELSE "close")
    /\ closed' = TRUE
    /\ UNCHANGED <<chanVars, workerVars, cancelled, closeErr, submitPC, crashed>>

\* close(p.taskCh): what is queued stays queued, what is parked will panic.
CloseChannel_Drops(c) ==
    /\ CloseAt(c, "close", "cancel")
    /\ chClosed' = TRUE
    /\ taskCh' = <<>> /\ parked' = <<>>
    /\ submitPC' = [t \in Tasks |-> IF submitPC[t] = "parked" THEN "doomed" ELSE submitPC[t]]
    /\ UNCHANGED <<workerVars, closed, cancelled, closeErr, crashed>>
CloseChannel(c) ==
    /\ CloseAt(c, "close", "cancel")
    /\ chClosed' = TRUE
    /\ parked' = <<>>
    /\ submitPC' = [t \in Tasks |-> IF submitPC[t] = "parked" THEN "doomed" ELSE submitPC[t]]
    /\ UNCHANGED <<taskCh, workerVars, closed, cancelled, closeErr, crashed>>

\* p.cancel(); then Close gives up at once if the caller's deadline is over.
CloseCancel(c) ==
    /\ \E next \in {"wait", "expired"} : CloseAt(c, "cancel", next)
    /\ cancelled' = TRUE
    /\ UNCHANGED <<chanVars, workerVars, closed, closeErr, submitPC, crashed>>

\* <-done: every worker has called wg.Done.
CloseDone(c) ==
    /\ gone = Workers
    /\ CloseAt(c, "wait", "workersDone")
    /\ closeErr' = [closeErr EXCEPT ![c] = err]
    /\ UNCHANGED <<chanVars, workerVars, closed, cancelled, submitPC, crashed>>

\* <-timer.C may come first at any time.
CloseTimeout(c) ==
    /\ CloseAt(c, "wait", "timedOut")
    /\ UNCHANGED <<chanVars, workerVars, closed, cancelled, closeErr, submitPC, crashed>>

Close(c) == CloseSwap(c) \/ CloseChannel(c) \/ CloseCancel(c) \/ CloseDone(c) \/ CloseTimeout(c)

-----------------------------------------------------------------------------
Next == \/ \E t \in Tasks : Submit(t)
        \/ \E w \in Workers : Worker(w)
        \/ \E c \in Closers : Close(c)

Spec == Init /\ [][Next]_vars

\* Every goroutine that can move does, and every task returns some day; nobody
\* need ever call Close, or go on with a call of it.
Fairness == /\ \A t \in Tasks : WF_vars(Submit(t))
            /\ \A w \in Workers : WF_vars(Worker(w))
FairSpec == Spec /\ Fairness

-----------------------------------------------------------------------------
(* Properties *)

TypeOK ==
    /\ closed \in BOOLEAN /\ chClosed \in BOOLEAN /\ cancelled \in BOOLEAN
    /\ crashed \in BOOLEAN
    /\ taskCh \in Seq(Tasks) /\ Len(taskCh) <= QueueSize /\ parked \in Seq(Tasks)
    /\ hand \in [Workers -> Tasks \cup {NoTask}] /\ gone \subseteq Workers
    /\ err \in Tasks \cup {NoTask}
    /\ submitPC \in [Tasks -> {"start", "open", "send", "parked", "doomed", "accepted"}
                              \cup Refusals]
    /\ closePC \in [Closers -> {"start", "close", "cancel", "wait"} \cup CloseReturns]
    /\ closeErr \in [Closers -> Tasks \cup {NoTask}]
    /\ failures \in Seq(Tasks) /\ runs \in [Tasks -> Nat]

Accepted == {t \in Tasks : submitPC[t] = "accepted"}
Executed == {t \in Tasks : runs[t] > 0}

\* A task whose Submit returned nil is in exactly one place: queued, in the
\* hands of one worker, or executed, once; a refused, blocked or panicking
\* one is nowhere (workerpool.go:60-87).
Places(t) == runs[t] + Occurs(taskCh, t) + Holders(hand, t)
TasksConserved == \A t \in Tasks : Places(t) = IF t \in Accepted THEN 1 ELSE 0

\* "Close ends the pool's work, waiting for the execution of all tasks"
\* (workerpool.go:89): after it has returned because the workers were done, no
\* accepted task is left, however Submits and the other Close raced it, and what
\* it returns is the error of the task that failed first (workerpool.go:64, 120).
CloseWaits == \A c \in Closers : closePC[c] = "workersDone" =>
                 /\ Accepted \subseteq Executed
                 /\ closeErr[c] = IF failures = <<>> THEN NoTask ELSE Head(failures)

\* A Submit that found the pool open comes to an end: the task is refused or
\* executed, even if it had to wait for room or the pool is closed meanwhile,
\* unless the process panics (workerpool.go:72-87).
EverySubmitSettled ==
    \A t \in Tasks : submitPC[t] \in {"open", "send", "parked"}
        ~> (submitPC[t] \in Refusals \/ t \in Executed \/ crashed)

=============================================================================
