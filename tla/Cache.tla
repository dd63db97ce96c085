-------------------------------- MODULE Cache --------------------------------
(***************************************************************************)
(* lru.Cache with a finalizer (pkg/lru/cache.go): a map and a doubly       *)
(* linked list of nodes under one mutex, the cleanup loop, the channel of  *)
(* nodes to finalize with its workers, and Close.  Without a finalizer     *)
(* none of the goroutines exist, Close does nothing and removed nodes are  *)
(* just dropped: that is the cache LayerCache and PacketServer use.        *)
(*                                                                         *)
(* A node is the number of the Set call that made it.  Deadlines are the   *)
(* ticks they are away, and passed ones count as -1.  A call is one step,  *)
(* for it holds the mutex throughout, except cleanup: the workers, which   *)
(* need no mutex, run between the nodes it takes out.                      *)
(***************************************************************************)
EXTENDS Integers, Sequences, FiniteSets, Counting

CONSTANTS Keys,
          MaxNodes,    \* bound: the nodes ever made
          TTL,         \* c.ttl
          CustomTTLs,  \* the TTLs passed to SetWithTTL
          Buf,         \* c.finalizerBuf
          Workers      \* the finalizer workers

ASSUME CacheAssumption == /\ MaxNodes \in Nat /\ Keys # {}
                          /\ Buf \in Nat \ {0} /\ Workers # {} /\ IsFiniteSet(Workers)
                          /\ TTL \in Nat /\ CustomTTLs \subseteq Nat

VARIABLES
    reentrant,   \* the finalizer calls the cache
    made,        \* the nodes made so far are 1..made
    key, left,   \* per node: key, and ticks to expiresAt
    items,       \* c.items
    list,        \* c.head, c.tail, and prev and next of every node
    mu,          \* c.mu: "free", held by "cleanup", or "stuck"
    wake,        \* c.wakeCh is full
    loopDone,    \* cleanupLoop has returned
    finalizeCh,  \* c.finalizeCh
    hand, gone,  \* per worker: the node it finalizes; the workers that have returned
    closePC,     \* Close: the last thing it has done
    finalized,   \* history: per node, how often the finalizer ran for it
    unlinked,    \* history: nodes replaced by a Set or taken by PopTail
    crashed      \* a panic ended the process

dataVars   == <<made, key, left, items, list, unlinked>>   \* what the mutex protects
finalVars  == <<finalizeCh, finalized>>
workerVars == <<hand, gone>>
loopVars   == <<wake, loopDone>>
vars == <<reentrant, dataVars, mu, loopVars, finalVars, workerVars, closePC, crashed>>

Nodes == 1..MaxNodes
Nil == 0
Stopped  == closePC # "no"                            \* c.stopped
StopSent == closePC \in {"stopClosed", "closed"}      \* close(c.stopCh)
ChClosed == closePC = "closed"                        \* close(c.finalizeCh)

Init ==
    /\ reentrant \in BOOLEAN
    /\ made = 0 /\ key = [n \in Nodes |-> CHOOSE k \in Keys : TRUE] /\ left = [n \in Nodes |-> -1]
    /\ items = [k \in Keys |-> Nil]
    /\ list = [head |-> Nil, tail |-> Nil,
               prev |-> [n \in Nodes |-> Nil], next |-> [n \in Nodes |-> Nil]]
    /\ mu = "free" /\ wake = FALSE /\ loopDone = FALSE
    /\ finalizeCh = <<>> /\ finalized = [n \in Nodes |-> 0]
    /\ hand = [w \in Workers |-> Nil] /\ gone = {}
    /\ closePC = "no" /\ unlinked = {} /\ crashed = FALSE

Free == ~crashed /\ mu = "free"

-----------------------------------------------------------------------------
(* The list.  A definition named <definition>_<fault>, here and below,      *)
(* stands for a plausible bug of the code; no specification uses it.        *)

InsertHead(l, n) ==
    IF l.head = Nil
    THEN [l EXCEPT !.head = n, !.tail = n]
    ELSE [l EXCEPT !.next[n] = l.head, !.prev[l.head] = n, !.head = n]

RemoveNode_KeepsTail(l, n) ==
    LET p == l.prev[n]
        x == l.next[n]
    IN  [head |-> IF p = Nil THEN x ELSE l.head,
         tail |-> l.tail,
         next |-> [m \in Nodes |-> CASE m = n -> Nil [] m = p -> x [] OTHER -> l.next[m]],
         prev |-> [m \in Nodes |-> CASE m = n -> Nil [] m = x -> p [] OTHER -> l.prev[m]]]
RemoveNode(l, n) ==
    LET p == l.prev[n]
        x == l.next[n]
    IN  [head |-> IF p = Nil THEN x ELSE l.head,
         tail |-> IF x = Nil THEN p ELSE l.tail,
         next |-> [m \in Nodes |-> CASE m = n -> Nil [] m = p -> x [] OTHER -> l.next[m]],
         prev |-> [m \in Nodes |-> CASE m = n -> Nil [] m = x -> p [] OTHER -> l.prev[m]]]

Expired(n) == left[n] < 0

\* removeNode and delete(c.items, key); what a removed node says is forgotten.
TakeOut(n) == /\ list' = RemoveNode(list, n)
              /\ items' = [items EXCEPT ![key[n]] = Nil]
              /\ left' = [left EXCEPT ![n] = -1]

ScheduleFinalize_OffByOne(n, muAfter) ==
    /\ IF Len(finalizeCh) <= Buf
       THEN finalizeCh' = Append(finalizeCh, n) /\ UNCHANGED finalized
       ELSE finalized' = [finalized EXCEPT ![n] = @ + 1] /\ UNCHANGED finalizeCh
    /\ mu' = muAfter
    /\ UNCHANGED crashed
ScheduleFinalize_DropsWhenFull(n, muAfter) ==
    IF ChClosed
    THEN crashed' = TRUE /\ mu' = muAfter /\ UNCHANGED finalVars
    ELSE /\ mu' = muAfter
         /\ finalizeCh' = IF Len(finalizeCh) < Buf THEN Append(finalizeCh, n) ELSE finalizeCh
         /\ UNCHANGED <<finalized, crashed>>
\* The non-blocking send panics on the closed channel.  If the channel is full
\* the finalizer runs here, under the mutex: one that calls the cache waits for
\* ever, and the mutex is never released.
ScheduleFinalize(n, muAfter) ==
    IF ChClosed
    THEN crashed' = TRUE /\ mu' = muAfter /\ UNCHANGED finalVars
    ELSE /\ IF Len(finalizeCh) < Buf
            THEN finalizeCh' = Append(finalizeCh, n) /\ mu' = muAfter /\ UNCHANGED finalized
            ELSE /\ IF reentrant
                    THEN mu' = "stuck" /\ UNCHANGED finalized
                    ELSE mu' = muAfter /\ finalized' = [finalized EXCEPT ![n] = @ + 1]
                 /\ UNCHANGED finalizeCh
         /\ UNCHANGED crashed

-----------------------------------------------------------------------------
(* The calls *)

\* Set and SetWithTTL: the old node of the key leaves the list, unfinalized.
Put(k, ttl) ==
    LET n   == made + 1
        old == items[k]
    IN  /\ Free /\ ~Stopped /\ n \in Nodes
        /\ made' = n
        /\ key' = [key EXCEPT ![n] = k]
        /\ left' = [m \in Nodes |-> CASE m = n -> ttl [] m = old -> -1 [] OTHER -> left[m]]
        /\ list' = InsertHead(IF old = Nil THEN list ELSE RemoveNode(list, old), n)
        /\ unlinked' = IF old = Nil THEN unlinked ELSE unlinked \cup {old}
        /\ items' = [items EXCEPT ![k] = n]
        /\ UNCHANGED <<reentrant, mu, loopVars, finalVars, workerVars, closePC, crashed>>

Set(k) == Put(k, TTL)
SetWithTTL(k) == \E ttl \in CustomTTLs : Put(k, ttl)

\* Delete, and a Get that finds the node expired; other Gets change nothing.
Remove(k) ==
    /\ Free
    /\ items[k] # Nil
    /\ TakeOut(items[k])
    /\ ScheduleFinalize(items[k], "free")
    /\ UNCHANGED <<reentrant, made, key, loopVars, workerVars, closePC, unlinked>>
Delete(k) == Remove(k)
Get(k) == items[k] # Nil /\ Expired(items[k]) /\ Remove(k)

PopTail ==
    /\ Free
    /\ list.tail # Nil
    /\ TakeOut(list.tail)
    /\ unlinked' = unlinked \cup {list.tail}
    /\ UNCHANGED <<reentrant, made, key, mu, loopVars, finalVars, workerVars, closePC, crashed>>

-----------------------------------------------------------------------------
(* cleanupLoop and cleanup *)

LoopWakes_NoTicker ==
    /\ Free /\ ~loopDone
    /\ wake /\ wake' = FALSE
    /\ mu' = "cleanup"
    /\ UNCHANGED <<reentrant, dataVars, loopDone, finalVars, workerVars, closePC, crashed>>
\* The ticker may fire at any time, wakeCh when it is full; the select takes
\* either, even if stopCh is closed.
LoopWakes ==
    /\ Free /\ ~loopDone
    /\ wake' \in {FALSE, wake}
    /\ mu' = "cleanup"
    /\ UNCHANGED <<reentrant, dataVars, loopDone, finalVars, workerVars, closePC, crashed>>

\* (A loop that stops while another call is stuck makes no difference.)
LoopStops ==
    /\ Free /\ ~loopDone
    /\ StopSent
    /\ loopDone' = TRUE
    /\ UNCHANGED <<reentrant, dataVars, mu, wake, finalVars, workerVars, closePC, crashed>>

CleanupOne ==
    /\ ~crashed /\ mu = "cleanup"
    /\ list.tail # Nil /\ Expired(list.tail)
    /\ TakeOut(list.tail)
    /\ ScheduleFinalize(list.tail, "cleanup")
    /\ UNCHANGED <<reentrant, made, key, loopVars, workerVars, closePC, unlinked>>

\* With anything left, cleanup wakes its own loop at once: the time until the
\* next deadline is computed and not used.
CleanupEnd ==
    /\ ~crashed /\ mu = "cleanup"
    /\ list.tail # Nil => ~Expired(list.tail)
    /\ wake' = (wake \/ list.tail # Nil)
    /\ mu' = "free"
    /\ UNCHANGED <<reentrant, dataVars, loopDone, finalVars, workerVars, closePC, crashed>>

-----------------------------------------------------------------------------
(* finalizerWorker *)

WorkerTake(w) ==
    /\ ~crashed
    /\ w \notin gone /\ hand[w] = Nil
    /\ finalizeCh # <<>>
    /\ hand' = [hand EXCEPT ![w] = Head(finalizeCh)]
    /\ finalizeCh' = Tail(finalizeCh)
    /\ UNCHANGED <<reentrant, dataVars, mu, loopVars, finalized, gone, closePC, crashed>>

WorkerFinalizes(w) ==
    /\ ~crashed
    /\ hand[w] # Nil
    /\ reentrant => mu = "free"
    /\ finalized' = [finalized EXCEPT ![hand[w]] = @ + 1]
    /\ hand' = [hand EXCEPT ![w] = Nil]
    /\ UNCHANGED <<reentrant, dataVars, mu, loopVars, finalizeCh, gone, closePC, crashed>>

\* The range loop ends when the channel is closed and empty.
WorkerEnd_WhenClosed(w) ==
    /\ ~crashed
    /\ w \notin gone /\ hand[w] = Nil
    /\ ChClosed
    /\ gone' = gone \cup {w}
    /\ UNCHANGED <<reentrant, dataVars, mu, loopVars, finalVars, hand, closePC, crashed>>
WorkerEnd(w) ==
    /\ ~crashed
    /\ w \notin gone /\ hand[w] = Nil
    /\ ChClosed /\ finalizeCh = <<>>
    /\ gone' = gone \cup {w}
    /\ UNCHANGED <<reentrant, dataVars, mu, loopVars, finalVars, hand, closePC, crashed>>

Worker(w) == WorkerTake(w) \/ WorkerFinalizes(w) \/ WorkerEnd(w)

-----------------------------------------------------------------------------
(* Close *)

CloseAt(from, to) == /\ ~crashed
                     /\ closePC = from /\ closePC' = to
                     /\ UNCHANGED <<reentrant, dataVars, mu, loopVars, finalVars, workerVars, crashed>>
Close == \/ mu = "free" /\ CloseAt("no", "stopped")
         \/ CloseAt("stopped", "stopClosed")
         \/ CloseAt("stopClosed", "closed")

\* Of two Closes one closes stopCh again.
CloseAgain == /\ Free /\ Stopped
              /\ crashed' = TRUE
              /\ UNCHANGED <<reentrant, dataVars, mu, loopVars, finalVars, workerVars, closePC>>

\* Time stands still while cleanup holds the mutex: it reads the clock once.
Tick ==
    /\ ~crashed /\ mu # "cleanup"
    /\ \E n \in Nodes : left[n] >= 0
    /\ left' = [n \in Nodes |-> IF Expired(n) THEN left[n] ELSE left[n] - 1]
    /\ UNCHANGED <<reentrant, made, key, items, list, unlinked, mu, loopVars, finalVars,
                   workerVars, closePC, crashed>>

Loop == LoopWakes \/ LoopStops \/ CleanupOne \/ CleanupEnd

Next == \/ \E k \in Keys : Set(k) \/ SetWithTTL(k) \/ Get(k) \/ Delete(k)
        \/ PopTail \/ Loop \/ Close \/ CloseAgain \/ Tick
        \/ \E w \in Workers : Worker(w)

Spec == Init /\ [][Next]_vars

\* Goroutines that can move do, and time passes; nobody need call the cache.
\* Strong fairness where the mutex comes and goes: a sync.Mutex starves nobody
\* who waits for it, and the loop keeps taking it.
Fairness == /\ WF_vars(Loop)
            /\ \A w \in Workers : SF_vars(Worker(w))
            /\ SF_vars(Tick)
FairSpec == Spec /\ Fairness

-----------------------------------------------------------------------------
(* Properties *)

Ref == Nodes \cup {Nil}

TypeOK ==
    /\ reentrant \in BOOLEAN /\ wake \in BOOLEAN /\ loopDone \in BOOLEAN /\ crashed \in BOOLEAN
    /\ made \in 0..MaxNodes
    /\ key \in [Nodes -> Keys] /\ left \in [Nodes -> Int] /\ items \in [Keys -> Ref]
    /\ list \in [head : Ref, tail : Ref, prev : [Nodes -> Ref], next : [Nodes -> Ref]]
    /\ mu \in {"free", "cleanup", "stuck"}
    /\ finalizeCh \in Seq(Nodes) /\ Len(finalizeCh) <= Buf
    /\ finalized \in [Nodes -> Nat] /\ unlinked \subseteq Nodes
    /\ hand \in [Workers -> Ref] /\ gone \subseteq Workers
    /\ closePC \in {"no", "stopped", "stopClosed", "closed"}

\* The nodes next leads to from the head, and how far it goes.
Forward[i \in Nat] == IF i = 0 THEN list.head
                      ELSE IF Forward[i-1] = Nil THEN Nil ELSE list.next[Forward[i-1]]
Listed == {Forward[i] : i \in 0..made} \ {Nil}
Mapped == {items[k] : k \in Keys} \ {Nil}

\* The pointers make one list, the same in both directions, and its nodes are
\* those of the map, each under its own key, through every sequence of calls: a
\* node only the list knows would be finalized or popped although its key was
\* replaced, one only the map knows would never expire (cache.go:96-117, 171-196).
ListIsMap ==
    /\ Listed = Mapped /\ Forward[made] = Nil
    /\ \A k \in Keys : items[k] # Nil => key[items[k]] = k
    /\ list.head # Nil => list.prev[list.head] = Nil /\ list.next[list.tail] = Nil
    /\ (list.head = Nil) <=> (list.tail = Nil)
    /\ \A m, n \in Listed : list.next[m] = n <=> list.prev[n] = m

\* Every node is in exactly one place: in the cache, queued, in a worker's
\* hands, finalized once, or unlinked by a Set or PopTail, which finalize nothing;
\* a full channel, the workers and Close in between lose and repeat none.  Only a
\* panic, or the mutex that a reentrant finalizer holds for ever, ends that
\* (cache.go:199-215).
Places(n) == finalized[n] + Occurs(finalizeCh, n) + Holders(hand, n)
             + (IF n \in Listed THEN 1 ELSE 0) + (IF n \in unlinked THEN 1 ELSE 0)
NodesConserved == crashed \/ mu = "stuck" \/ \A n \in 1..made : Places(n) = 1

\* What was queued before Close is still finalized after it (cache.go:166, 211-215).
Over == crashed \/ mu = "stuck"
QueuedIsFinalized ==
    \A n \in Nodes : (\E i \in 1..Len(finalizeCh) : finalizeCh[i] = n)
                        ~> (finalized[n] = 1 \/ Over)

\* A node that expires goes without anybody asking for its key, even if
\* SetWithTTL put it in front of a later deadline, where cleanup, which looks at
\* the tail only, does not see it yet; Close ends that (cache.go:218-257).
ExpiredGoes == \A n \in Nodes : (n \in Listed /\ Expired(n)) ~> (n \notin Listed \/ Stopped \/ Over)
=============================================================================
