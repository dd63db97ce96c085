----------------------------- MODULE PoolProofs -----------------------------
(***************************************************************************)
(* The worker pool keeps its invariants for every number of workers, tasks *)
(* and Close calls and every length of the queue; and the barriers between *)
(* the tiers of Shutdown hold for every number of tasks and of Shutdown    *)
(* calls. What the pool promises alone it promises under Shutdown, whose   *)
(* steps are the pool's or leave it alone.                                 *)
(***************************************************************************)
EXTENDS Shutdown, CountingProofs, SequenceTheorems

\* Only tasks whose Submit waits are parked, each once, and none is left when
\* the channel is closed.
ParkedOnce ==
    /\ \A i \in 1..Len(parked) : submitPC[parked[i]] = "parked"
    /\ \A i, j \in 1..Len(parked) : parked[i] = parked[j] => i = j
    /\ chClosed => parked = <<>>

\* A worker goes when there is nothing left to do, and nothing comes later.
GoneLast ==
    /\ gone # {} => chClosed /\ taskCh = <<>>
    /\ \A w \in gone : hand[w] = NoTask

FirstErrorKept == err = IF failures = <<>> THEN NoTask ELSE Head(failures)

\* A Close that saw the workers done returned the error of that moment.
DoneIsFinal ==
    \A c \in Closers : closePC[c] = "workersDone" => gone = Workers /\ closeErr[c] = err

\* The inductive invariant.
PoolInv == /\ TypeOK /\ TasksConserved
           /\ ParkedOnce /\ GoneLast /\ FirstErrorKept /\ DoneIsFinal

-----------------------------------------------------------------------------
\* A new pool satisfies the invariant.
LEMMA InitPoolInv == Init => PoolInv
<1> SUFFICES ASSUME Init PROVE PoolInv
  OBVIOUS
<1>1. TypeOK
  <2>1. taskCh \in Seq(Tasks) /\ Len(taskCh) <= QueueSize /\ parked \in Seq(Tasks)
           /\ failures \in Seq(Tasks)
    BY PoolAssumption DEF Init
  <2>2. QED
    BY <2>1 DEF Init, TypeOK
<1>2. TasksConserved
  <2>1. ASSUME NEW t \in Tasks PROVE Holders(hand, t) = 0
    <3>1. DOMAIN hand = Workers /\ t # NoTask /\ \A w \in Workers : hand[w] = NoTask
      BY PoolAssumption DEF Init
    <3>2. Holders(hand, t) \in Nat /\ ~(Holders(hand, t) > 0)
      BY <3>1, PoolAssumption, HoldersNat
    <3>3. QED
      BY <3>2
  <2>2. QED
    BY <2>1, OccursEmpty DEF Init, TasksConserved, Places, Accepted
<1>3. ParkedOnce /\ GoneLast /\ FirstErrorKept /\ DoneIsFinal
  BY DEF Init, ParkedOnce, GoneLast, FirstErrorKept, DoneIsFinal
<1>4. QED
  BY <1>1, <1>2, <1>3 DEF PoolInv

\* Every step keeps the shape of the variables.
LEMMA TypeStep ==
  ASSUME TypeOK, Next
  PROVE  TypeOK'
<1>0. /\ taskCh \in Seq(Tasks) /\ parked \in Seq(Tasks) /\ failures \in Seq(Tasks)
      /\ Len(taskCh) \in Nat /\ Len(taskCh) <= QueueSize /\ QueueSize \in Nat
  BY PoolAssumption DEF TypeOK
<1> USE DEF TypeOK, Refusals, CloseReturns, chanVars, workerVars, closeVars
<1>1. ASSUME NEW t \in Tasks, Submit(t) PROVE TypeOK'
  <2>1. CASE SubmitCheckClosed(t)
    BY <2>1 DEF SubmitCheckClosed, SubmitAt
  <2>2. CASE SubmitCheckCtx(t)
    BY <2>2 DEF SubmitCheckCtx, SubmitAt
  <2>3. CASE SubmitSend(t)
    <3>1. CASE Len(taskCh) < QueueSize
      <4>1. taskCh' = Append(taskCh, t)
        BY <2>3, <3>1 DEF SubmitSend
      <4>2. taskCh' \in Seq(Tasks) /\ Len(taskCh') <= QueueSize
        <5> HIDE DEF TypeOK
        <5>1. QED
          BY <1>0, <3>1, <4>1, AppendProperties
      <4>3. QED
        BY <2>3, <3>1, <4>2 DEF SubmitSend, SubmitAt
    <3>2. CASE ~(Len(taskCh) < QueueSize)
      <4>1. parked' = Append(parked, t)
        BY <2>3, <3>2 DEF SubmitSend
      <4>2. parked' \in Seq(Tasks)
        <5> HIDE DEF TypeOK
        <5>1. QED
          BY <1>0, <4>1, AppendProperties
      <4>3. QED
        BY <2>3, <3>2, <4>2 DEF SubmitSend, SubmitAt
    <3>3. QED
      BY <3>1, <3>2
  <2>4. CASE SubmitCancelled(t)
    BY <2>4 DEF SubmitCancelled, SubmitAt
  <2>5. CASE SubmitPanics(t)
    BY <2>5 DEF SubmitPanics
  <2>6. QED
    BY <1>1, <2>1, <2>2, <2>3, <2>4, <2>5 DEF Submit
<1>2. ASSUME NEW w \in Workers, Worker(w) PROVE TypeOK'
  <2>1. CASE WorkerTake(w)
    <3>0. taskCh # <<>>
      BY <2>1 DEF WorkerTake
    <3>1. Head(taskCh) \in Tasks /\ Tail(taskCh) \in Seq(Tasks)
             /\ Len(Tail(taskCh)) = Len(taskCh) - 1
      BY <1>0, <3>0, HeadTailProperties
    <3>2. CASE parked = <<>>
      <4>1. taskCh' = Tail(taskCh)
        BY <2>1, <3>2 DEF WorkerTake
      <4>2. taskCh' \in Seq(Tasks) /\ Len(taskCh') <= QueueSize
        <5> HIDE DEF TypeOK
        <5>1. QED
          BY <1>0, <3>1, <4>1
      <4>3. QED
        BY <2>1, <3>1, <3>2, <4>2 DEF WorkerTake
    <3>3. CASE parked # <<>>
      <4>1. Head(parked) \in Tasks /\ Tail(parked) \in Seq(Tasks)
        BY <1>0, <3>3, HeadTailProperties
      <4>a. taskCh' = Append(Tail(taskCh), Head(parked))
        BY <2>1, <3>3 DEF WorkerTake
      <4>2. taskCh' \in Seq(Tasks) /\ Len(taskCh') <= QueueSize
        <5> HIDE DEF TypeOK
        <5>1. QED
          BY <1>0, <3>1, <4>1, <4>a, AppendProperties
      <4>3. QED
        BY <2>1, <3>1, <3>3, <4>1, <4>2 DEF WorkerTake
    <3>4. QED
      BY <3>2, <3>3
  <2>2. CASE WorkerExecuted(w)
    <3>1. hand[w] \in Tasks
      BY <2>2 DEF WorkerExecuted
    <3>a. failures' = Append(failures, hand[w]) \/ failures' = failures
      BY <2>2 DEF WorkerExecuted
    <3>b. failures' \in Seq(Tasks)
      <4>1. failures \in Seq(Tasks) /\ Append(failures, hand[w]) \in Seq(Tasks)
        BY ONLY <1>0, <3>1, AppendProperties
      <4>2. QED
        BY ONLY <4>1, <3>a
    <3>c. err' \in Tasks \cup {NoTask}
      BY <2>2, <3>1 DEF WorkerExecuted, RecordError
    <3>2. failures' \in Seq(Tasks) /\ err' \in Tasks \cup {NoTask}
      BY <3>b, <3>c
    <3>3. QED
      BY <2>2, <3>1, <3>2 DEF WorkerExecuted
  <2>3. CASE WorkerEnd(w)
    BY <2>3 DEF WorkerEnd
  <2>4. QED
    BY <1>2, <2>1, <2>2, <2>3 DEF Worker
<1>3. ASSUME NEW c \in Closers, Close(c) PROVE TypeOK'
  <2>1. CASE CloseSwap(c)
    BY <2>1 DEF CloseSwap, CloseAt
  <2>2. CASE CloseChannel(c)
    BY <2>2 DEF CloseChannel, CloseAt
  <2>3. CASE CloseCancel(c)
    BY <2>3 DEF CloseCancel, CloseAt
  <2>4. CASE CloseDone(c)
    BY <2>4 DEF CloseDone, CloseAt
  <2>5. CASE CloseTimeout(c)
    BY <2>5 DEF CloseTimeout, CloseAt
  <2>6. QED
    BY <1>3, <2>1, <2>2, <2>3, <2>4, <2>5 DEF Close
<1>4. QED
  BY <1>1, <1>2, <1>3 DEF Next

-----------------------------------------------------------------------------
\* The invariant without the shape of the variables.
PoolFacts == TasksConserved /\ ParkedOnce /\ GoneLast /\ FirstErrorKept /\ DoneIsFinal

\* What the type invariant says of the queues and counts.
LEMMA Shapes ==
  ASSUME TypeOK
  PROVE  /\ taskCh \in Seq(Tasks) /\ parked \in Seq(Tasks) /\ failures \in Seq(Tasks)
         /\ IsFiniteSet(DOMAIN hand) /\ DOMAIN hand = Workers
         /\ \A t \in Tasks : runs[t] \in Nat /\ Occurs(taskCh, t) \in Nat
                              /\ Holders(hand, t) \in Nat
<1>1. /\ taskCh \in Seq(Tasks) /\ parked \in Seq(Tasks) /\ failures \in Seq(Tasks)
      /\ IsFiniteSet(DOMAIN hand) /\ DOMAIN hand = Workers
      /\ \A t \in Tasks : runs[t] \in Nat
  BY PoolAssumption DEF TypeOK
<1>2. QED
  BY <1>1, OccursNat, HoldersNat

\* A step of a Submit call keeps the invariant.
LEMMA SubmitStep ==
  ASSUME PoolInv, NEW t \in Tasks, Submit(t)
  PROVE  PoolFacts'
<1>0. TypeOK /\ PoolFacts
  BY DEF PoolInv, PoolFacts
<1>1. /\ taskCh \in Seq(Tasks) /\ parked \in Seq(Tasks)
      /\ submitPC = [u \in Tasks |-> submitPC[u]]
  BY <1>0, Shapes DEF TypeOK
<1>2. UNCHANGED <<workerVars, closeVars, chClosed>>
  BY DEF Submit, SubmitCheckClosed, SubmitCheckCtx, SubmitSend, SubmitCancelled, SubmitPanics,
         chanVars
<1>3. (FirstErrorKept /\ DoneIsFinal)'
  BY <1>0, <1>2 DEF PoolFacts, FirstErrorKept, DoneIsFinal, workerVars, closeVars
<1>4. CASE /\ UNCHANGED <<taskCh, parked>>
           /\ \/ UNCHANGED submitPC
              \/ \E to \in {"errPoolClosed", "open", "ctxErr", "send"} :
                    /\ submitPC[t] \in {"start", "open", "send"}
                    /\ submitPC' = [submitPC EXCEPT ![t] = to]
  <2>1. Accepted' = Accepted
    BY <1>1, <1>4 DEF Accepted
  <2>2. TasksConserved'
    BY <1>0, <1>2, <1>4, <2>1 DEF PoolFacts, TasksConserved, Places, workerVars
  <2>3. \A u \in Tasks : submitPC[u] = "parked" => submitPC'[u] = "parked"
    BY <1>1, <1>4
  <2>4. \A i \in 1..Len(parked) : parked[i] \in Tasks
    BY <1>1
  <2>5. ParkedOnce'
    BY <1>0, <1>2, <1>4, <2>3, <2>4 DEF PoolFacts, ParkedOnce
  <2>6. GoneLast'
    BY <1>0, <1>2, <1>4 DEF PoolFacts, GoneLast, workerVars
  <2>7. QED
    BY <1>3, <2>2, <2>5, <2>6 DEF PoolFacts
<1>5. CASE /\ ~chClosed /\ submitPC[t] = "send"
           /\ taskCh' = Append(taskCh, t) /\ UNCHANGED parked
           /\ submitPC' = [submitPC EXCEPT ![t] = "accepted"]
  <2>1. Accepted' = Accepted \cup {t} /\ t \notin Accepted
    BY <1>1, <1>5 DEF Accepted
  <2>2. ASSUME NEW u \in Tasks PROVE Places(u)' = IF u \in Accepted' THEN 1 ELSE 0
    <3>1. Occurs(taskCh', u) = Occurs(taskCh, u) + IF t = u THEN 1 ELSE 0
      BY <1>1, <1>5, OccursAppend
    <3>2. Places(u) = IF u \in Accepted THEN 1 ELSE 0
      BY <1>0 DEF PoolFacts, TasksConserved
    <3>3. runs[u] \in Nat /\ Occurs(taskCh, u) \in Nat /\ Holders(hand, u) \in Nat
      BY <1>0, Shapes
    <3>4. QED
      BY <1>2, <2>1, <3>1, <3>2, <3>3 DEF Places, workerVars
  <2>3. TasksConserved'
    BY <2>2 DEF TasksConserved
  <2>4. \A i \in 1..Len(parked) : parked[i] \in Tasks
    BY <1>1
  <2>5. ParkedOnce'
    BY <1>0, <1>1, <1>2, <1>5, <2>4 DEF PoolFacts, ParkedOnce
  <2>6. GoneLast'
    BY <1>0, <1>2, <1>5 DEF PoolFacts, GoneLast, workerVars
  <2>7. QED
    BY <1>3, <2>3, <2>5, <2>6 DEF PoolFacts
<1>6. CASE /\ ~chClosed /\ submitPC[t] = "send"
           /\ parked' = Append(parked, t) /\ UNCHANGED taskCh
           /\ submitPC' = [submitPC EXCEPT ![t] = "parked"]
  <2>1. Accepted' = Accepted
    BY <1>1, <1>6 DEF Accepted
  <2>2. TasksConserved'
    BY <1>0, <1>2, <1>6, <2>1 DEF PoolFacts, TasksConserved, Places, workerVars
  <2>3. /\ Len(parked') = Len(parked) + 1 /\ Len(parked) \in Nat
        /\ \A i \in 1..Len(parked) : parked'[i] = parked[i] /\ parked[i] \in Tasks
        /\ parked'[Len(parked) + 1] = t
    BY <1>1, <1>6, AppendProperties, ElementOfSeq
  <2>4. \A i \in 1..Len(parked) : parked[i] # t
    BY <1>0, <1>6 DEF PoolFacts, ParkedOnce
  <2>5. ParkedOnce'
    BY <1>0, <1>1, <1>2, <1>6, <2>3, <2>4 DEF PoolFacts, ParkedOnce
  <2>6. GoneLast'
    BY <1>0, <1>2, <1>6 DEF PoolFacts, GoneLast, workerVars
  <2>7. QED
    BY <1>3, <2>2, <2>5, <2>6 DEF PoolFacts
<1>7. QED
  BY <1>4, <1>5, <1>6 DEF Submit, SubmitCheckClosed, SubmitCheckCtx, SubmitSend, SubmitCancelled,
     SubmitPanics, SubmitAt, chanVars

\* A step of a worker keeps the invariant.
LEMMA WorkerStep ==
  ASSUME PoolInv, NEW w \in Workers, Worker(w)
  PROVE  PoolFacts'
<1>0. TypeOK /\ PoolFacts
  BY DEF PoolInv, PoolFacts
<1>1. /\ taskCh \in Seq(Tasks) /\ parked \in Seq(Tasks) /\ failures \in Seq(Tasks)
      /\ IsFiniteSet(DOMAIN hand) /\ DOMAIN hand = Workers
      /\ submitPC = [u \in Tasks |-> submitPC[u]]
  BY <1>0, Shapes DEF TypeOK
<1>2. \A u \in Tasks : /\ runs[u] \in Nat /\ Occurs(taskCh, u) \in Nat
                        /\ Holders(hand, u) \in Nat
                        /\ Places(u) = IF u \in Accepted THEN 1 ELSE 0
  BY <1>0, Shapes DEF PoolFacts, TasksConserved
<1>3. ASSUME WorkerTake(w) PROVE PoolFacts'
  <2> DEFINE h == Head(taskCh)
  <2>1. /\ taskCh # <<>> /\ w \notin gone /\ hand[w] = NoTask
        /\ hand' = [hand EXCEPT ![w] = h]
        /\ UNCHANGED <<chClosed, gone, err, failures, runs, closeVars>>
    BY <1>3 DEF WorkerTake
  <2>2. gone = {}
    BY <1>0, <2>1 DEF PoolFacts, GoneLast
  <2>3. (GoneLast /\ FirstErrorKept /\ DoneIsFinal)'
    BY <1>0, <2>1, <2>2 DEF PoolFacts, GoneLast, FirstErrorKept, DoneIsFinal, closeVars
  <2>4. h \in Tasks /\ h # NoTask /\ Tail(taskCh) \in Seq(Tasks)
    BY <1>1, <2>1, HeadTailProperties, PoolAssumption
  <2>5. ASSUME NEW u \in Tasks
        PROVE  /\ Occurs(Tail(taskCh), u) = Occurs(taskCh, u) - IF h = u THEN 1 ELSE 0
               /\ Holders(hand', u) = Holders(hand, u) + IF h = u THEN 1 ELSE 0
    <3>1. Occurs(Tail(taskCh), u) = Occurs(taskCh, u) - IF h = u THEN 1 ELSE 0
      BY <1>1, <2>1, OccursTail
    <3>2. Holders(hand', u) =
             Holders(hand, u) - (IF hand[w] = u THEN 1 ELSE 0) + (IF h = u THEN 1 ELSE 0)
      <4> HIDE DEF h
      <4>1. /\ DOMAIN hand' = DOMAIN hand /\ hand'[w] = h
            /\ \A v \in DOMAIN hand : v # w => hand'[v] = hand[v]
        BY <1>1, <2>1
      <4>2. QED
        BY ONLY <1>1, <4>1, w \in Workers, HoldersExcept
    <3>3. hand[w] # u
      BY <2>1, PoolAssumption
    <3> HIDE DEF h
    <3>4. QED
      BY <1>2, <2>1, <3>1, <3>2, <3>3
  <2> HIDE DEF h
  <2>6. CASE parked = <<>>
    <3>1. taskCh' = Tail(taskCh) /\ UNCHANGED <<parked, submitPC>>
      BY <1>3, <2>6 DEF WorkerTake
    <3>2. ParkedOnce'
      BY <1>0, <2>1, <3>1 DEF PoolFacts, ParkedOnce
    <3>3. ASSUME NEW u \in Tasks PROVE Places(u)' = IF u \in Accepted' THEN 1 ELSE 0
      <4>1. Accepted' = Accepted /\ runs' = runs
        BY <2>1, <3>1 DEF Accepted
      <4>2. QED
        BY <1>2, <2>5, <3>1, <4>1, SMTT(30) DEF Places
    <3>4. QED
      BY <2>3, <3>2, <3>3 DEF PoolFacts, TasksConserved
  <2>7. CASE parked # <<>>
    <3> DEFINE p == Head(parked)
    <3>1. /\ taskCh' = Append(Tail(taskCh), p) /\ parked' = Tail(parked)
          /\ submitPC' = [submitPC EXCEPT ![p] = "accepted"]
      BY <1>3, <2>7 DEF WorkerTake
    <3>2. /\ p \in Tasks /\ p = parked[1] /\ Len(parked) \in Nat \ {0}
          /\ Len(parked') = Len(parked) - 1
          /\ \A i \in 1..Len(parked') : parked'[i] = parked[i + 1] /\ parked'[i] \in Tasks
      BY <1>1, <2>7, <3>1, HeadTailProperties, ElementOfSeq, EmptySeq
    <3> HIDE DEF p
    <3>3. submitPC[p] = "parked" /\ \A i \in 1..Len(parked') : parked'[i] # p
      BY <1>0, <3>2 DEF PoolFacts, ParkedOnce
    <3>4. ParkedOnce'
      <4>1. \A i \in 1..Len(parked') : submitPC'[parked'[i]] = "parked"
        <5>1. ASSUME NEW i \in 1..Len(parked') PROVE submitPC[parked'[i]] = "parked"
          BY <1>0, <3>2 DEF PoolFacts, ParkedOnce
        <5>2. QED
          BY <1>1, <3>1, <3>2, <3>3, <5>1
      <4>2. \A i, j \in 1..Len(parked') : parked'[i] = parked'[j] => i = j
        BY <1>0, <3>2 DEF PoolFacts, ParkedOnce
      <4>3. ~chClosed'
        BY <1>0, <2>1, <2>7 DEF PoolFacts, ParkedOnce
      <4>4. QED
        BY <4>1, <4>2, <4>3 DEF ParkedOnce
    <3>5. Accepted' = Accepted \cup {p} /\ p \notin Accepted
      BY <1>1, <3>1, <3>2, <3>3 DEF Accepted
    <3>6. ASSUME NEW u \in Tasks PROVE Places(u)' = IF u \in Accepted' THEN 1 ELSE 0
      <4>1. Occurs(taskCh', u) = Occurs(Tail(taskCh), u) + IF p = u THEN 1 ELSE 0
        <5> DEFINE rest == Tail(taskCh)
        <5>1. taskCh' = Append(rest, p) /\ rest \in Seq(Tasks) /\ p \in Tasks
          BY <2>4, <3>1, <3>2
        <5> HIDE DEF rest
        <5>2. Occurs(Append(rest, p), u) = Occurs(rest, u) + IF p = u THEN 1 ELSE 0
          BY <5>1, OccursAppend
        <5>3. QED
          BY <5>1, <5>2 DEF rest
      <4>2. /\ Occurs(Tail(taskCh), u) = Occurs(taskCh, u) - IF h = u THEN 1 ELSE 0
            /\ Holders(hand', u) = Holders(hand, u) + IF h = u THEN 1 ELSE 0
        BY <2>5
      <4>3. runs' = runs
        BY <2>1
      <4>4. Places(u)' = Places(u) + IF p = u THEN 1 ELSE 0
        <5>1. runs[u] \in Nat /\ Occurs(taskCh, u) \in Nat /\ Holders(hand, u) \in Nat
          BY <1>2
        <5>2. /\ Places(u) = runs[u] + Occurs(taskCh, u) + Holders(hand, u)
              /\ Places(u)' = runs'[u] + Occurs(taskCh', u) + Holders(hand', u)
          BY DEF Places
        <5>3. QED
          BY ONLY <4>1, <4>2, <4>3, <5>1, <5>2
      <4>5. QED
        BY <1>2, <3>5, <4>4
    <3>7. QED
      BY <2>3, <3>4, <3>6 DEF PoolFacts, TasksConserved
  <2>8. QED
    BY <2>6, <2>7
<1>4. ASSUME WorkerExecuted(w) PROVE PoolFacts'
  <2> DEFINE t == hand[w]
  <2>1. /\ t \in Tasks /\ t # NoTask /\ w \notin gone
        /\ runs' = [runs EXCEPT ![t] = @ + 1] /\ hand' = [hand EXCEPT ![w] = NoTask]
        /\ \/ failures' = Append(failures, t) /\ err' = IF err = NoTask THEN t ELSE err
           \/ UNCHANGED <<failures, err>>
        /\ UNCHANGED <<chanVars, gone, closeVars, submitPC>>
    BY <1>0, <1>4 DEF WorkerExecuted, RecordError, PoolFacts, GoneLast, TypeOK
  <2>2. ASSUME NEW u \in Tasks PROVE Places(u)' = IF u \in Accepted' THEN 1 ELSE 0
    <3>0. /\ DOMAIN hand' = DOMAIN hand /\ hand'[w] = NoTask
          /\ \A v \in DOMAIN hand : v # w => hand'[v] = hand[v]
      BY <1>1, <2>1
    <3>1. Holders(hand', u) =
             Holders(hand, u) - (IF t = u THEN 1 ELSE 0) + (IF NoTask = u THEN 1 ELSE 0)
      BY ONLY <1>1, <3>0, w \in Workers, HoldersExcept
    <3>2. runs'[u] = runs[u] + IF t = u THEN 1 ELSE 0
      BY <1>0, <1>2, <2>1 DEF TypeOK
    <3>3. Accepted' = Accepted /\ taskCh' = taskCh /\ NoTask # u
      BY <2>1, PoolAssumption DEF Accepted, chanVars
    <3> HIDE DEF t
    <3>4. QED
      BY <1>2, <2>1, <3>1, <3>2, <3>3 DEF Places
  <2>3. ParkedOnce' /\ GoneLast'
    BY <1>0, <1>1, <2>1 DEF PoolFacts, ParkedOnce, GoneLast, chanVars
  <2>4. DoneIsFinal'
    BY <1>0, <2>1 DEF PoolFacts, DoneIsFinal, closeVars
  <2>5. FirstErrorKept'
    <3>1. CASE UNCHANGED <<failures, err>>
      BY <1>0, <3>1 DEF PoolFacts, FirstErrorKept
    <3>2. CASE failures' = Append(failures, t) /\ err' = IF err = NoTask THEN t ELSE err
      <4>1. failures' # <<>> /\ (failures = <<>> => Head(failures') = t)
               /\ (failures # <<>> => Head(failures') = Head(failures) /\ Head(failures) \in Tasks)
        BY <1>1, <2>1, <3>2, HeadTailProperties
      <4>2. failures # <<>> => err # NoTask
        BY <1>0, <4>1, PoolAssumption DEF PoolFacts, FirstErrorKept
      <4>3. QED
        BY <1>0, <3>2, <4>1, <4>2 DEF PoolFacts, FirstErrorKept
    <3>3. QED
      BY <2>1, <3>1, <3>2
  <2>6. QED
    BY <2>2, <2>3, <2>4, <2>5 DEF PoolFacts, TasksConserved
<1>5. ASSUME WorkerEnd(w) PROVE PoolFacts'
  <2>1. /\ taskCh = <<>> /\ chClosed /\ hand[w] = NoTask /\ w \notin gone
        /\ gone' = gone \cup {w}
        /\ UNCHANGED <<chanVars, hand, err, failures, runs, closeVars, submitPC>>
    BY <1>5 DEF WorkerEnd
  <2>2. (TasksConserved /\ ParkedOnce /\ GoneLast /\ FirstErrorKept)'
    BY <1>0, <2>1 DEF PoolFacts, TasksConserved, Places, Accepted, ParkedOnce, GoneLast,
       FirstErrorKept, chanVars
  <2>3. DoneIsFinal'
    BY <1>0, <2>1 DEF PoolFacts, DoneIsFinal, closeVars
  <2>4. QED
    BY <2>2, <2>3 DEF PoolFacts
<1>6. QED
  BY <1>3, <1>4, <1>5 DEF Worker

\* A step of a Close call keeps the invariant.
LEMMA CloseStep ==
  ASSUME PoolInv, NEW c \in Closers, Close(c)
  PROVE  PoolFacts'
<1>0. TypeOK /\ PoolFacts
  BY DEF PoolInv, PoolFacts
<1>1. /\ closePC = [d \in Closers |-> closePC[d]] /\ closeErr = [d \in Closers |-> closeErr[d]]
      /\ submitPC = [u \in Tasks |-> submitPC[u]]
  BY <1>0 DEF TypeOK
<1>2. UNCHANGED <<taskCh, workerVars>>
  BY DEF Close, CloseSwap, CloseChannel, CloseCancel, CloseDone, CloseTimeout, chanVars
<1>3. \/ UNCHANGED <<parked, submitPC, chClosed>>
      \/ /\ chClosed' /\ parked' = <<>>
         /\ submitPC' = [t \in Tasks |-> IF submitPC[t] = "parked" THEN "doomed" ELSE submitPC[t]]
  BY DEF Close, CloseSwap, CloseChannel, CloseCancel, CloseDone, CloseTimeout, chanVars
<1>4. Accepted' = Accepted
  BY <1>1, <1>3 DEF Accepted
<1>5. (TasksConserved /\ FirstErrorKept)'
  BY <1>0, <1>2, <1>4 DEF PoolFacts, TasksConserved, Places, FirstErrorKept, workerVars
<1>6. (ParkedOnce /\ GoneLast)'
  BY <1>0, <1>2, <1>3 DEF PoolFacts, ParkedOnce, GoneLast, workerVars
<1>7. DoneIsFinal'
  <2>1. \/ /\ gone = Workers /\ closePC' = [closePC EXCEPT ![c] = "workersDone"]
           /\ closeErr' = [closeErr EXCEPT ![c] = err]
        \/ /\ UNCHANGED closeErr
           /\ \E to : to # "workersDone" /\ closePC' = [closePC EXCEPT ![c] = to]
    BY DEF Close, CloseSwap, CloseChannel, CloseCancel, CloseDone, CloseTimeout, CloseAt
  <2>2. QED
    BY <1>0, <1>1, <1>2, <2>1 DEF PoolFacts, DoneIsFinal, workerVars
<1>8. QED
  BY <1>5, <1>6, <1>7 DEF PoolFacts

\* Every step of the pool keeps the invariant.
LEMMA PoolStep ==
  ASSUME PoolInv, [Next]_vars
  PROVE  PoolInv'
<1>1. CASE Next
  <2>1. TypeOK'
    BY <1>1, TypeStep DEF PoolInv
  <2>2. PoolFacts'
    BY <1>1, SubmitStep, WorkerStep, CloseStep DEF Next
  <2>3. QED
    BY <2>1, <2>2 DEF PoolInv, PoolFacts
<1>2. CASE UNCHANGED vars
  BY <1>2 DEF vars, chanVars, workerVars, closeVars, PoolInv, TypeOK, TasksConserved, Places,
     Accepted, ParkedOnce, GoneLast, FirstErrorKept, DoneIsFinal
<1>3. QED
  BY <1>1, <1>2

\* When the workers are done every accepted task has run, and the error is the first.
LEMMA PoolInvCloseWaits == PoolInv => CloseWaits
<1> SUFFICES ASSUME PoolInv, NEW c \in Closers, closePC[c] = "workersDone"
             PROVE  /\ Accepted \subseteq Executed
                    /\ closeErr[c] = IF failures = <<>> THEN NoTask ELSE Head(failures)
  BY DEF CloseWaits
<1>1. gone = Workers /\ closeErr[c] = err
  BY DEF PoolInv, DoneIsFinal
<1>2. taskCh = <<>> /\ \A w \in Workers : hand[w] = NoTask
  BY <1>1, PoolAssumption DEF PoolInv, GoneLast
<1>3. ASSUME NEW t \in Accepted PROVE t \in Executed
  <2>1. t \in Tasks /\ Places(t) = 1
    BY DEF PoolInv, TasksConserved, Accepted
  <2>2. Occurs(taskCh, t) = 0
    BY <1>2, OccursEmpty
  <2>3. Holders(hand, t) = 0
    <3>1. DOMAIN hand = Workers /\ IsFiniteSet(DOMAIN hand) /\ t # NoTask
      BY <2>1, Shapes, PoolAssumption DEF PoolInv
    <3>2. Holders(hand, t) \in Nat /\ ~(Holders(hand, t) > 0)
      BY <1>2, <3>1, HoldersNat
    <3>3. QED
      BY <3>2
  <2>4. runs[t] \in Nat
    BY <2>1, Shapes DEF PoolInv
  <2>5. QED
    BY <2>1, <2>2, <2>3, <2>4 DEF Places, Executed
<1>4. QED
  BY <1>1, <1>3 DEF PoolInv, FirstErrorKept

-----------------------------------------------------------------------------
\* The invariant holds in every state.
THEOREM PoolCorrect == Spec => []PoolInv
<1>1. QED
  BY InitPoolInv, PoolStep, PTL DEF Spec

\* Every value is of its type, and no more than QueueSize tasks are queued.
THEOREM PoolTypes == Spec => []TypeOK
<1>1. PoolInv => TypeOK
  BY DEF PoolInv
<1>2. QED
  BY <1>1, PoolCorrect, PTL

\* An accepted task is in exactly one place, and a refused one in none, whatever
\* Submits, workers and Close calls do (workerpool.go:60-124).
THEOREM PoolConserves == Spec => []TasksConserved
<1>1. PoolInv => TasksConserved
  BY DEF PoolInv
<1>2. QED
  BY <1>1, PoolCorrect, PTL

\* A Close that waited for the workers leaves no accepted task behind and returns
\* the error of the first that failed (workerpool.go:89-124).
THEOREM PoolCloseWaits == Spec => []CloseWaits
<1>1. QED
  BY PoolInvCloseWaits, PoolCorrect, PTL

-----------------------------------------------------------------------------
(***************************************************************************)
(* The pool under Shutdown.                                                *)
(***************************************************************************)

\* The tiers before a given one, and it.
UpTo(t) == CASE t = "high" -> {"high"} [] t = "medium" -> {"high", "medium"}
             [] t = "low" -> {"high", "medium", "low"}
             [] t = "done" -> {"high", "medium", "low", "done"}
TierNames == {"high", "medium", "low", "done"}

\* Where a call that has begun stands: of the snapshot, the tasks of the tiers
\* passed have returned, those of its tier run or have returned.
CallStands(c) ==
    /\ PoolHook \in snapshot[c]
    /\ \A t \in UpTo(tier[c]) : snapshot[c] \cap InTier(t) \subseteq running[c] \cup returned[c]
    /\ running[c] \subseteq InTier(tier[c])
    /\ running[c] \cup returned[c] \subseteq snapshot[c]
    /\ PoolHook \in returned[c] => closePC[c] \in CloseReturns

\* The inductive invariant, beside the pool's.
ShutInv ==
    /\ Hooks \ Late \subseteq registered
    /\ DOMAIN tier = Callers /\ DOMAIN snapshot = Callers
    /\ DOMAIN running = Callers /\ DOMAIN returned = Callers
    /\ \A c \in Callers :
          \/ tier[c] = "start" /\ running[c] = {} /\ returned[c] = {}
          \/ tier[c] \in TierNames /\ CallStands(c)

-----------------------------------------------------------------------------
\* A new Shutdowner satisfies the invariant.
LEMMA InitShutInv == ShutInit => ShutInv
BY DEF ShutInit, ShutInv

\* The tasks of no two tiers meet.
LEMMA TiersApart ==
  /\ \A t \in TierNames, u \in TierNames : t # u => InTier(t) \cap InTier(u) = {}
  /\ PoolHook \in InTier("medium") /\ PoolHook \in Hooks \ Late
BY HookAssumption DEF TierNames, InTier, Hooks

\* The next tier, as the barrier finds it.
LEMMA NextTier ==
  \A i \in 1..3 : /\ Tiers[i] \in TierNames /\ Tiers[i+1] \in TierNames
                  /\ UpTo(Tiers[i+1]) = UpTo(Tiers[i]) \cup {Tiers[i+1]}
                  /\ Tiers[i+1] \notin UpTo(Tiers[i])
                  /\ UpTo(Tiers[i]) \subseteq TierNames
BY DEF Tiers, TierNames, UpTo

\* A Close call that has returned does not go on.
LEMMA ReturnIsFinal ==
  ASSUME PoolInv, [Next]_vars
  PROVE  \A c \in Closers : closePC[c] \in CloseReturns => closePC'[c] = closePC[c]
<1>1. ASSUME NEW d \in Closers, Close(d)
      PROVE  \E to : closePC[d] \notin CloseReturns /\ closePC' = [closePC EXCEPT ![d] = to]
  BY <1>1 DEF Close, CloseSwap, CloseChannel, CloseCancel, CloseDone, CloseTimeout, CloseAt,
     CloseReturns
<1>2. ASSUME NEW t \in Tasks, Submit(t) PROVE UNCHANGED closePC
  BY <1>2 DEF Submit, SubmitCheckClosed, SubmitCheckCtx, SubmitSend, SubmitCancelled,
     SubmitPanics, closeVars
<1>3. ASSUME NEW w \in Workers, Worker(w) PROVE UNCHANGED closePC
  BY <1>3 DEF Worker, WorkerTake, WorkerExecuted, WorkerEnd, closeVars
<1>4. DOMAIN closePC = Closers
  BY DEF PoolInv, TypeOK
<1>5. QED
  BY <1>1, <1>2, <1>3, <1>4 DEF Next, vars, closeVars

\* Every step of Shutdown is a step of the pool or leaves it alone.
LEMMA ShutStepIsPoolStep == [ShutNext]_<<vars, hookVars>> => [Next]_vars
<1>1. ASSUME NEW c \in Callers, Shutdowner(c) PROVE Close(c) \/ UNCHANGED vars
  BY <1>1 DEF Shutdowner, ShutdownStart, Barrier, PoolClose, TaskReturns
<1>2. ASSUME NEW h \in Late, Register(h) PROVE UNCHANGED vars
  BY <1>2 DEF Register
<1>3. QED
  BY <1>1, <1>2, HookAssumption DEF ShutNext, Next

\* A step that leaves the lists of a call alone leaves its standing alone.
LEMMA CallAlone ==
  ASSUME PoolInv, ShutInv, [Next]_vars, NEW c \in Callers,
         \/ tier[c] = "start" /\ running[c] = {} /\ returned[c] = {}
         \/ tier[c] \in TierNames /\ CallStands(c),
         tier'[c] = tier[c], snapshot'[c] = snapshot[c],
         running'[c] = running[c], returned'[c] = returned[c]
  PROVE  \/ tier'[c] = "start" /\ running'[c] = {} /\ returned'[c] = {}
         \/ tier'[c] \in TierNames /\ CallStands(c)'
<1>1. closePC[c] \in CloseReturns => closePC'[c] \in CloseReturns
  BY ReturnIsFinal, HookAssumption
<1>2. QED
  BY <1>1 DEF CallStands

\* Every step keeps the invariant.
LEMMA ShutStep ==
  ASSUME PoolInv, ShutInv, [ShutNext]_<<vars, hookVars>>
  PROVE  ShutInv'
<1> DEFINE Stands(c) == \/ tier[c] = "start" /\ running[c] = {} /\ returned[c] = {}
                        \/ tier[c] \in TierNames /\ CallStands(c)
<1>1. [Next]_vars
  BY ShutStepIsPoolStep
<1>2. \A c \in Callers : Stands(c)
  BY DEF ShutInv
<1>3. ASSUME NEW c \in Callers, UNCHANGED <<tier, snapshot, running, returned>>
      PROVE  Stands(c)'
  BY <1>1, <1>2, <1>3, CallAlone
<1>4. CASE UNCHANGED callVars /\ registered \subseteq registered'
  BY <1>3, <1>4 DEF ShutInv, callVars
<1>5. ASSUME NEW c \in Callers, ShutdownStart(c) PROVE ShutInv'
  <2>1. Stands(c)'
    <3>1. /\ tier'[c] = "high" /\ snapshot'[c] = registered
          /\ running'[c] = registered \cap High /\ returned'[c] = {}
      BY <1>2, <1>5 DEF ShutdownStart, ShutInv, TierNames
    <3>2. PoolHook \in registered
      BY TiersApart DEF ShutInv
    <3>3. QED
      BY <3>1, <3>2 DEF CallStands, UpTo, InTier, TierNames
  <2>2. ASSUME NEW d \in Callers, d # c PROVE Stands(d)'
    <3>1. /\ tier'[d] = tier[d] /\ snapshot'[d] = snapshot[d]
          /\ running'[d] = running[d] /\ returned'[d] = returned[d]
      BY <1>5, <2>2 DEF ShutdownStart, ShutInv
    <3>2. QED
      BY <1>1, <1>2, <3>1, CallAlone
  <2>3. QED
    BY <1>5, <2>1, <2>2 DEF ShutInv, ShutdownStart
<1>6. ASSUME NEW c \in Callers, NEW h \in Hooks, TaskReturns(c, h) PROVE ShutInv'
  <2>1. Stands(c)'
    <3>1. /\ tier'[c] = tier[c] /\ snapshot'[c] = snapshot[c] /\ closePC' = closePC
          /\ h \in running[c] /\ (h = PoolHook => closePC[c] \in CloseReturns)
          /\ running'[c] = running[c] \ {h} /\ returned'[c] = returned[c] \cup {h}
      BY <1>6 DEF TaskReturns, ShutInv, vars, closeVars
    <3>2. tier[c] \in TierNames /\ CallStands(c)
      BY <1>2, <3>1
    <3>3. QED
      BY <3>1, <3>2 DEF CallStands
  <2>2. ASSUME NEW d \in Callers, d # c PROVE Stands(d)'
    <3>1. /\ tier'[d] = tier[d] /\ snapshot'[d] = snapshot[d]
          /\ running'[d] = running[d] /\ returned'[d] = returned[d]
      BY <1>6, <2>2 DEF TaskReturns, ShutInv
    <3>2. QED
      BY <1>1, <1>2, <3>1, CallAlone
  <2>3. QED
    BY <1>6, <2>1, <2>2 DEF ShutInv, TaskReturns
<1>7. ASSUME NEW c \in Callers, Barrier(c) PROVE ShutInv'
  <2>1. Stands(c)'
    <3>1. PICK i \in 1..3 : /\ tier[c] = Tiers[i] /\ tier'[c] = Tiers[i+1]
                            /\ running'[c] = snapshot[c] \cap InTier(Tiers[i+1])
      BY <1>7 DEF Barrier, ShutInv
    <3>2. /\ snapshot'[c] = snapshot[c] /\ returned'[c] = returned[c] /\ closePC' = closePC
          /\ running[c] = {}
      BY <1>7 DEF Barrier, vars, closeVars
    <3>3. CallStands(c)
      BY <1>2, <3>1, NextTier DEF TierNames
    <3>4. \A t \in UpTo(Tiers[i+1]) :
             snapshot[c] \cap InTier(t) \subseteq running'[c] \cup returned[c]
      BY <3>1, <3>2, <3>3, NextTier DEF CallStands
    <3>5. QED
      BY <3>1, <3>2, <3>3, <3>4, NextTier DEF CallStands
  <2>2. ASSUME NEW d \in Callers, d # c PROVE Stands(d)'
    <3>1. /\ tier'[d] = tier[d] /\ snapshot'[d] = snapshot[d]
          /\ running'[d] = running[d] /\ returned'[d] = returned[d]
      BY <1>7, <2>2 DEF Barrier, ShutInv
    <3>2. QED
      BY <1>1, <1>2, <3>1, CallAlone
  <2>3. QED
    BY <1>7, <2>1, <2>2 DEF ShutInv, Barrier
<1>8. ASSUME NEW c \in Callers, PoolClose(c) PROVE ShutInv'
  BY <1>4, <1>8 DEF PoolClose, hookVars, callVars
<1>9. ASSUME NEW h \in Late, Register(h) PROVE ShutInv'
  BY <1>4, <1>9 DEF Register, callVars
<1>10. QED
  BY <1>4, <1>5, <1>6, <1>7, <1>8, <1>9 DEF ShutNext, Shutdowner, hookVars, callVars

\* The tiers passed are those whose tasks have all returned.
LEMMA InvTiersInOrder == ShutInv => TiersInOrder
<1> SUFFICES ASSUME ShutInv, NEW c \in Callers, NEW i \in 1..4, tier[c] = Tiers[i]
             PROVE  /\ \A j \in 1..i-1 : snapshot[c] \cap InTier(Tiers[j]) \subseteq returned[c]
                    /\ running[c] \cup returned[c] \subseteq snapshot[c]
  BY DEF TiersInOrder
<1>1. CallStands(c)
  BY DEF ShutInv, Tiers, TierNames
<1>2. ASSUME NEW j \in 1..i-1 PROVE snapshot[c] \cap InTier(Tiers[j]) \subseteq returned[c]
  <2>1. /\ Tiers[j] \in UpTo(Tiers[i]) /\ Tiers[j] # Tiers[i]
        /\ Tiers[j] \in TierNames /\ Tiers[i] \in TierNames
    BY <1>2 DEF Tiers, UpTo, TierNames
  <2>2. running[c] \cap InTier(Tiers[j]) = {}
    BY <1>1, <2>1, TiersApart DEF CallStands
  <2>3. QED
    BY <1>1, <2>1, <2>2 DEF CallStands
<1>3. QED
  BY <1>1, <1>2 DEF CallStands

\* A task of the lowest tier runs when the pool's Close has returned.
LEMMA InvLoggersLast == PoolInv /\ ShutInv => LoggersLast
<1> SUFFICES ASSUME PoolInv, ShutInv, NEW c \in Callers, running[c] \cap Low # {}
             PROVE  \/ closePC[c] \in {"expired", "timedOut", "errPoolClosed"}
                    \/ gone = Workers /\ Accepted \subseteq Executed
  BY DEF LoggersLast
<1>1. tier[c] \in TierNames /\ CallStands(c)
  BY DEF ShutInv
<1>2. tier[c] = "low"
  <2>1. InTier("low") = Low /\ "low" \in TierNames
    BY DEF InTier, TierNames
  <2>2. QED
    BY <1>1, <2>1, TiersApart DEF CallStands
<1>3. PoolHook \in returned[c]
  <2>1. "medium" \in UpTo("low") /\ "medium" \in TierNames
    BY DEF UpTo, TierNames
  <2>2. PoolHook \notin running[c]
    BY <1>1, <1>2, <2>1, TiersApart DEF CallStands
  <2>3. QED
    BY <1>1, <1>2, <2>1, <2>2, TiersApart DEF CallStands
<1>4. closePC[c] \in CloseReturns /\ c \in Closers
  BY <1>1, <1>3, HookAssumption DEF CallStands
<1>5. closePC[c] = "workersDone" => gone = Workers /\ Accepted \subseteq Executed
  BY <1>4, PoolInvCloseWaits DEF PoolInv, DoneIsFinal, CloseWaits
<1>6. QED
  BY <1>4, <1>5 DEF CloseReturns

-----------------------------------------------------------------------------
\* Under Shutdown the pool behaves as it may alone: Shutdown calls only Close.
THEOREM ShutdownImplementsPool == ShutSpec => Spec
<1>1. ShutInit => Init
  BY DEF ShutInit
<1>2. QED
  BY <1>1, ShutStepIsPoolStep, PTL DEF ShutSpec, Spec

\* The invariants hold in every state.
THEOREM ShutdownCorrect == ShutSpec => [](PoolInv /\ ShutInv)
<1>1. PoolInv /\ ShutInv /\ [ShutNext]_<<vars, hookVars>> => ShutInv'
  BY ShutStep
<1>2. ShutSpec => []PoolInv
  BY ShutdownImplementsPool, PoolCorrect, PTL
<1>3. QED
  BY <1>1, <1>2, InitShutInv, PTL DEF ShutSpec

\* "Shuts the layers one after the other with hard barriers" (shutdown.go:50): no
\* tier starts before the tasks of the tiers above have returned, and the lowest
\* finds the pool's workers gone and its accepted tasks executed, unless the pool's
\* Close gave up or was refused.
THEOREM ShutdownBarriers == ShutSpec => []HardBarriers
<1>1. PoolInv /\ ShutInv => HardBarriers
  BY InvTiersInOrder, InvLoggersLast DEF HardBarriers
<1>2. QED
  BY <1>1, ShutdownCorrect, PTL

=============================================================================
