# A verification project for core-packet-data-network

The repository is a packet-transfer network in Go: clients number packets
`1..TotalPackets`, send them over UDP, UDP with forward error correction, QUIC
or SCTP, and print one status line per packet in the order of the numbers;
servers hash each packet, print it in order, and acknowledge it.  The UDP
client repairs losses itself, with a layered deadline cache and a
retransmission daemon.  This directory models the parts in which concurrency,
loss, time and order decide whether that works, checks them with TLC, and
proves what can be proved with TLAPS.

Contents: 1 inventory, 2 modules and code, 3 runs, 4 bounds and fairness,
5 proofs, 6 findings, 7 what is not modelled, 8 plan.

## 1. Inventory

| component | state | operations | talks to | what is hard | correct means | module |
|---|---|---|---|---|---|---|
| `pkg/order` OrderedBuffer | `nextID`, map of waiting values | `NewOrderedBuffer`, `Insert` | called by every client and server, from several goroutines | late, repeated and reordered ids; the batch is used after the unlock | every id released once, in order, as soon as it can be | `OrderedBuffer`, `InOrderDelivery` |
| `pkg/order` RingBuffer | fixed ring, window start | `Insert`, `GetNext` | nobody | the window never slides | as OrderedBuffer, within the window | `RingBuffer` |
| `pkg/lru` Cache | map, list ordered by deadline, finalizer queue | `Set`, `SetWithTTL`, `Get`, `Delete`, `PopTail`, `PeekTail`, `Close`, cleanup loop | LayerCache, server dedup | list and map must agree; finalizers under the lock; send after Close | list and map agree, every removed node is finalized once, what expires goes | `Cache`; without finalizer `LayerCache`, `PacketServer` (dedup) |
| `pkg/lru` LayerCache, Backoff | one Cache per layer | `Set`, `Get`, `Delete`, `PeekExpiredScan`, `PromoteLayer`, `GetEarliestDeadline`, `Len` | UDP and UDP+FEC client | peek and promote are two calls; only tails are looked at | tails decide; a key waits for one deadline | `LayerCache` |
| UDP client | layer cache, ordered buffer, counters, socket | generators, `ackReceiver`, `retransmitterDaemon`, `Run`, `Shutdown` | server by datagrams; stdout | ACKs race sends, registrations, retries and LOST; two printers | one line per id, bounded retries, Run ends | `UDPClient` |
| UDP server | buffer pool, jobs channel, dedup cache, ordered buffer, output channel | `Run`, workers, `processMessage`, `outputPipeline`, `Shutdown` | client by datagrams; stdout | full channels, repeated datagrams in two workers, closing under way | no line lost or doubled, no ACK ahead of its line, buffers neither leak nor alias | `PacketServer` |
| QUIC and SCTP server | as the UDP server | as the UDP server, one connection read by `Run` | client by stream, ACK by datagram or stream | as the UDP server; the connection breaks; nobody sends a dropped packet again | as the UDP server; one ACK per packet | `StreamServer` over `PacketServer` with `OutputMade` |
| QUIC and SCTP client | ordered buffer, counters, connection, (QUIC) output channel | generators, `ackReceiver`, `outputPipeline`, `Run`, `Shutdown` | server | the counter runs ahead of the lines; Shutdown closes the channel a goroutine sends on; a send may block for ever | lines in order, Run ends unless a send blocks | `StreamClient` |
| UDP+FEC client, server | shard groups, layer cache, ordered buffer | shard encoding, ACK per packet, resend of groups | each other by datagrams | partial groups, ACK on shard 0 alone, repeats without dedup | what the client reports OK is on the server; what is on the server is acknowledged | `UDPFec` |
| `pkg/fec` | none | XOR and Reed-Solomon `Encode`, `Recover` | FEC variants, benchmarks | which shards are missing | Recover undoes Encode | `Fec` |
| `pkg/workerpool` | task channel, wait group, context, first error | `New`, `Submit`, `Close`, workers | benchmarks and tests only | Submit racing Close, parked sends, two Closes | an accepted task runs once, Close waits for all | `WorkerPool` |
| `pkg/shutdown` | tasks by priority | `Register`, `RegisterFunc`, `Shutdown` | built by the UDP variants, run by tests | barriers between priorities | no tier before the one above has ended; loggers outlive the pool's tasks | `Shutdown` over `WorkerPool` |
| `pkg/packet` | none | `SerializeTo`, `Deserialize`, `VerifyChecksum` | clients, servers | aliasing of the input buffer, length limits | Deserialize undoes SerializeTo | not modelled (its verdict is in `PacketServer`) |
| `pkg/network` | sockets | `Send`, `ReceiveTo`, `Close`, listeners | clients, servers | loss, order, closing | thin wrappers | as the environment of the client and server models |
| `pkg/config`, `pkg/pregen`, `pkg/zeroalloc`, logger, metrics, `cmd` | none or counters | loading, buffers, formatting, wiring | all | none that interleaves | | not modelled |

`PROJECT.json` lists the hazards, each at the line where it bites, with the
properties that cover it.

## 2. Modules and code

Every lock-protected call, channel operation and datagram is one step;
whatever the code does between two of them may interleave with everything
else.  A definition named `<definition>_<fault>` is a plausible bug of the
definition after it; no specification uses it, it only serves to test that the
properties notice.

* **`InOrderDelivery`** is the promise of an ordered buffer with no buffer in
  it: the log of what was handed back is the longest gap-free run of ids that
  were offered.
* **`OrderedBuffer`** is `order.OrderedBuffer` (`ordered_buffer.go`).  `Insert`
  holds the mutex throughout and is one action.  `offered` and `released` are
  history variables: what was passed in and everything returned so far.  The
  release loop is the operator `RunEnd` (where the loop stops), so that the
  module can be reasoned about without recursion.  64-bit ids are bounded by
  `MaxID`.
* **`RingBuffer`** is `order.RingBuffer` (`ring.go`) beside an `OrderedBuffer`
  that gets the same `Insert` calls (`InsertBoth`); `GetNext` takes values out at
  any time.
* **`Cache`** is `lru.Cache` with a finalizer (`cache.go`).  `list` holds `head`,
  `tail` and every node's `prev` and `next`, and `InsertHead` and `RemoveNode`
  move them as the code does.  A call holds the mutex throughout and is one
  step, except `cleanup`, between whose nodes the finalizer workers run
  (`LoopWakes`, `CleanupOne`, `CleanupEnd`).  The finalizer may itself call the
  cache (`reentrant`): run under the mutex, because the channel is full, it then
  holds the mutex for ever (`mu = "stuck"`).
* **`LayerCache`** is `lru.LayerCache` on top of `lru.Cache` without a
  finalizer.  A layer is its linked list, from `tail` to `head`; the items map
  is implied, which `CacheLayer` shows to be sound.  That
  `Cache.Get` removes an expired entry is part of `Get`.  Deadlines are kept as time left; `Tick` lets a unit
  of `InitialInterval` pass, and no deadline is counted below -1 because the
  code only asks whether it has passed.  `DaemonPeek` and `DaemonPromote` are
  two steps because the lock is released in between.
* **`CacheLayer`** puts the two side by side: the list of a layer is read off the
  pointers of `Cache` (`AsLayer`), and `ActsAsLayer` and `FindsAsLayer` compare what
  the calls do to it and find in it with `LayerCache`, of which it has an instance
  with one layer.
* **`UDPClient`** is `internal/variants/udp/client.go`.  It extends `LayerCache`,
  whose variables it takes over (`layers` is `c.layerCache`, `peeked` what the
  daemon holds of it), and has `OrderedBuffer` as an instance on its own variables;
  its own specification is `ClientSpec`, with fairness `FairClientSpec`.  `GenSend` and
  `GenRegister` are the two halves of `generator`'s loop (send at line 196,
  register at 204), `AckReceive .. AckPrint` those of `ackReceiver`,
  `DmnScan .. DmnWakeUp` those of `retransmitterDaemon`, `Run*` and `Shutdown*`
  the waiting and closing that `cmd/udp-client` drives.  The network keeps the
  set of datagrams sent, each of which may arrive any number of times or never;
  the server (external here) accepts an id's first datagram.  `PromoteLayer`
  pops the tail of the peeked layer *whatever its key is now*, as the code
  does, so a payload can live on under another id's name.
* **`PacketServer`** is `internal/variants/udp/server.go`: `Run`, the jobs
  channel, the workers with `processMessage` in its separately locked parts
  (`Decode`, `Mark`, `InsertLine`, `SendLine`, `SendAck`, `WorkerPut`), the
  output pipeline, dedup expiry and `Shutdown`.  The panics a close can cause
  are actions (`RunPushPanics`, `SendLinePanics`) or part of one (`ShutdownStep`).  The QUIC
  and SCTP servers run the same pipeline; the one difference that matters is
  the constant `OutputMade`: their constructors make `outputCh`, the UDP
  server's leaves it nil.
* **`StreamServer`** is the QUIC and the SCTP server: it takes the workers and the
  output loop from `PacketServer`, and has its own reading loop (`StreamLoop`,
  `StreamReceive`, `StreamPush`, `StreamError`), ACKs that a broken connection
  swallows (`StreamAck`), and an end of its own: `Shutdown` closes the listener
  only, and the process ends with main.  Server and client are not composed
  (the product is out of reach); instead the run of the server checks what
  `StreamClient` assumes of it: at most one ACK per packet.
* **`WorkerPool`** is `pkg/workerpool`: `Submit` as its three unlocked looks
  (closed, context, send), `Close` as its four (swap, close, cancel, wait).
  The channel works as Go's does, parked sends included.
* **`Shutdown`** is `pkg/shutdown` with the worker pool's `Close` as one of its
  Medium tasks, the priority its comment gives to pools.  Some of the pool's
  closers are calls of `Shutdown`: `ShutdownStart` reads the three lists,
  `TaskReturns` and `Barrier` are the goroutines and the `wg.Wait` of each tier,
  `Register` adds a task at any time.
* **`StreamClient`** is the QUIC and the SCTP client.  `GenSend` is a send that
  completes; one that blocks is a `GenSend` that never happens (`SendBlocks`).  `Init` chooses between
  them: with `piped`, lines go through `outputCh` of capacity `outputCap`
  (`AckOffer`, which drops what does not fit) and `OutputPipeline`; without,
  `ackReceiver` prints them (`AckPrint`).  The connection may break at any step.
* **`UDPFec`** is `internal/variants/udp-fec`, client and server composed.  The
  client has the threads of `UDPClient` over groups of shards (`GenSend ..
  DmnPrint`, `RunReturned`, `ClientShutdown`); the server is `Receive` (`Run` and
  its non-blocking send), the workers with `processShard` in its separately
  locked parts (`WorkerTake`, `WorkerInsert`, `WorkerPrint`, `WorkerAck`) and
  `ServerShutdown`, after which `Run` may send once more on the closed channel
  (`ReceivePanics`).  Three things keep the composition small and lose no
  behaviour.  The network is two sets that only grow, so a group is sent in one
  step and closing is one step: what is not sent any more is lost.  Time is
  left out: whether a deadline has passed is open at every scan, which allows
  all that time allows.  The data and the pooled buffers are left out because the
  server reads neither.
* **`Fec`** is the way of one packet through `pkg/fec`: split as the UDP+FEC
  client does it, `Encode`, the loss of any shards, `Recover`.  One bit stands
  for a byte, since XOR treats every bit by itself; Reed-Solomon's library is
  external.
* **`Counting`** defines how often something is in a queue or in the hands of a
  group of threads; the conservation properties of `WorkerPool`, `PacketServer`,
  `UDPFec` and `Cache` are sums of these.
* The theorems of section 5 are in **`OrderProofs`** (`OrderedBuffer`,
  `InOrderDelivery`, `RingBuffer`), **`PoolProofs`** (`WorkerPool`, `Shutdown`),
  **`ServerProofs`** (`PacketServer`, `StreamServer`), **`StreamClientProofs`**,
  **`UDPFecProofs`** (`UDPFec`, `Fec`), **`CacheProofs`** (`Cache`, `CacheLayer`) and
  **`UDPClientProofs`** (`LayerCache`, `UDPClient`).  **`CountingProofs`** holds the lemmas several of
  them need: what moving an element does to the counts of `Counting`,
  what cutting one out does to a sequence (`CutOut`), the run of the ids below a number
  and how it grows (`UptoGrows`), and induction on the naturals.

## 3. Runs

| run | question | result |
|---|---|---|
| `ordered_buffer` | Does `Insert` keep its promises for every sequence of calls: `ReleasedInOrder`, `WaitingExactly`; does it implement `InOrderDelivery`? Does the ring agree with it inside its window (`RingAgrees`)? | holds |
| `ttl_cache` | Any calls, cleanup, finalizer workers and Close: are list and map the same nodes (`ListIsMap`), is each node in one place and finalized once (`NodesConserved`), is what was queued finalized (`QueuedIsFinalized`), does what expires go (`ExpiredGoes`)? | holds |
| `udp_client` | Loss, delay, repetition, both modes, timeout and shutdown: one line per id among screen and printers (`LinesConserved`), at most `NumLayers` sends per id (`RetryBudget`), one deadline per id (`OneDeadlinePerID`), nobody accepts another packet's payload (`PayloadIntact`), a packet is forgotten only for another whose ACK came at the wrong moment (`ForgottenForAnother`), the cache drains (`CacheDrains`).  Of its cache: every layer is sorted by deadline (`DeadlineOrder`), so that looking at the tails is enough (`TailsDecide`), and the client is one more user of `LayerCache` (`UsesLayerCache`). | holds |
| `udp_client_ack_erases` | Is a packet out of all layers once its ACK was handled? | violated, 6.1 |
| `packet_server` | Full channels, repeated and broken datagrams, dedup expiry, shutdown at any time: `BufferInOnePlace`, `LinesConserved`, `AckAfterOutput`, `EveryJobAcked`. | holds (`OutputMade`) |
| `udp_server_stall` | Does the UDP server acknowledge every job? | violated, 6.2 |
| `stream_server` | Over a stream that may break: is a packet that was read acknowledged at most once, and never dropped unseen (`AckedOnce`), and is it acknowledged in the end (`EveryReadAcked`)? | holds |
| `stream_client` | ACKs in any order or missing, a breaking connection, a full or ample output channel: `LinesInOrder`, `CompleteMeansInserted`; do `Run` and `Shutdown` end, unless a send on a connection that stays up blocks for ever (`ClientEnds`)? | holds |
| `worker_pool` | Submits, a Close and a Shutdown racing: `TasksConserved`, `CloseWaits` (with the first error), `EverySubmitSettled`; are the tiers shut one after the other, the loggers after the last task of the pool (`HardBarriers`)? | holds |
| `fec` | Any payload, any losses: does XOR restore the packet from a single loss and refuse more, and is only the empty payload never sent (`XorRestores`)? | holds |
| `fec_reed_solomon` | Does Reed-Solomon's `Recover` restore a single missing shard, nil or empty (`RSRestores`)? | violated, 6.3 |
| `udp_fec` | Client and server over a lossy network: one status line and one server line per packet (`OneLineEach`), no OK for a packet the server does not have (`OkIsTrue`), no packet on the server without an ACK (`HeldIsAnswered`). | holds |

Each property of a passing run has a mutant in `PROJECT.json`: a faulty variant
of one mapped definition under which TLC finds that property violated.

## 4. Bounds and fairness

* `ordered_buffer`: ids 0..4, two values, start 1 (as every user has): a stale
  id, every arrival order of four ids, repeats with another value.  The ring has
  three slots, so that its window ends before the ids do.
* `ttl_cache`: three keys and three nodes, a TTL of one tick and a custom one of
  none, a finalizer channel of one, one worker: a key set again while it waits,
  removal of the first, a middle and the last node, a later node that expires
  sooner, and a full channel.
* `udp_client`: two generators, two packets, three layers (as `NewClient` has),
  one ACK per id.  Two ids are the least with which the daemon can pop the wrong
  one and with which an order can be wrong; with three layers there is promotion
  out of the first, into the last and out of it.  The run takes `LayerCache`
  through the calls its one user makes; for any calls at all, `Get` and a `Set` of
  a key that is there included, section 5 proves `DeadlineOrder` and `TailsDecide`.  Intervals are those of `NewClient` in units of
  100 ms: 1, then 2, 4, ... capped at 50.
* `packet_server`: two workers, four buffers, two ids, channels of one, three
  datagrams: a full jobs channel, a full output channel, and the same id in
  both workers at once.  Four buffers are one for `Run`, one in the channel and
  one per worker, so that `Get` always finds one, as the code's `Pool.New`
  guarantees.
* `stream_server`: the same with two packets, each read at most once.
* `worker_pool`: two workers, a queue of one, three Submits, a Close and a
  Shutdown with one task per tier, the Low one registered at any time: a Submit
  can be parked while Close comes, a Close can meet queued and held tasks, and
  the Shutdown's Close can be the first or be refused.
* `stream_client`: two generators, four packets, an output channel of one or of
  four: the first id can come last and release a batch of four, into a channel
  that overflows and into one that cannot.
* `udp_fec`: two packets, one generator, two layers (so that a group is resent once
  and then given up), one data shard and the parity, two workers, a jobs channel
  of one.  Packets can overtake each other, the same shard 0 can be in both
  workers, and a full channel drops shards.  The workers are interchangeable
  (symmetry; the run checks no liveness).
* `fec`, `fec_reed_solomon`: three data shards, payloads of up to five bits: empty, shorter than the
  number of shards, a multiple of it, and none of these, with every set of
  losses.

Where deadlock is not checked the program stops by itself (everything sent,
closed or crashed, or no datagram left to deliver).

Fairness is what the Go scheduler gives: every goroutine that can move does
(weak fairness per goroutine), and time passes (`Tick`).  Datagrams, ACKs,
Shutdown, Close, and the timers that end `Run` or `Close` early carry none;
`StreamClient` alone lets the deadline of `Run` strike some day, since `ClientEnds`
speaks of the end.  A generator's send (`GenSend`) gets no fairness there:
`OpenStreamSync`, `Write` and the SCTP `Send` run without a deadline and wait for
streams, flow control or buffers that the other side may never grant, as when a
server that accepts one connection has another client.  Only a generator whose send
fails, or which has sent everything, is sure to return (`GenReturn`).  In
`StreamServer` the ACK's send does end while the connection works, because the client's
`ackReceiver` does nothing but read; what is printed is taken by the screen.  In `Cache` the workers and the passing of time get strong
fairness: a worker whose finalizer wants the mutex finds it taken again and again
by the cleanup loop, and Go's mutex lets a waiter in before long.  In
`WorkerPool` every task returns some day; a task that never returns would hold
its worker.

## 5. Proofs

Every safety property and the two refinements that the passing runs check is also
a theorem, for every value of the constants that the assumptions allow.  Some
theorems go further and relate a detailed specification to a more abstract one:
`ShutdownImplementsPool`, `ClientUsesLayerCache`, `CacheActsAsLayer`,
`CacheFindsAsLayer` and `ClientDelivers` (with `SCTPDelivers`).  A theorem
`Spec => []P` follows everywhere from an inductive invariant, of which the initial
states, every action (one lemma per action) and the stutter are shown to
keep it.  The invariants were run through TLC before they were proved.

**Assumptions.**  Each module names its own (`ParamAssumption`, `ServerAssumption`,
...): numbers are naturals, capacities at least one, sets of threads finite.  Three
say more than that.  `ServerAssumption` has more buffers than the jobs channel and
the workers can hold, so that `Get` always finds one, as `sync.Pool` with its `New`
does.  `ErrorAssumption` of `Fec` says that the model values for an error and a nil
slice are neither shards nor sequences of shards.  `ClientAssumption` of `UDPClient`
says that its cache is keyed by packet ids, as `NewClient` makes it.

**`OrderProofs`.**  `IInv == TypeOK /\ ReleasedInOrder /\ WaitingExactly`.  None of
the three is inductive alone: `ReleasedInOrder` needs that what waits in the map was
offered for the id it waits under, and that the log's length is `nextID - StartID`;
`WaitingExactly` needs `nextID` not to overshoot `MaxID+1`.  The argument turns on
`RunEndIsFirstGap`: the release loop stops at the smallest id from `nextID` on that is
not in the map, which exists because the map's ids are bounded.  `Refinement` maps
every `Insert` to an `Offer` of `InOrderDelivery`.  For the ring, `RingInv` says that
a filled slot holds a value offered for the id the slot stands for, and that of the
ids not yet taken the offered ones are the filled ones; `RingStandsIn` follows because
within the window the slot of an id is its distance from the start (`SlotOf`).
What one call does to the map and to the returned slice is stated once here
(`InsertBodyFacts`, `BatchValues`), and the
clients and servers cite them through an instance of the module on their own buffer.

**`PoolProofs`.**  `TasksConserved` counts places, so that the invariant adds what
keeps a count from breaking: only waiting tasks are parked, each once (`ParkedOnce`);
a worker goes when the closed channel is empty, and nothing comes later (`GoneLast`);
the stored error is the first (`FirstErrorKept`).  `Shutdown` calls nothing of the
pool but `Close`, which is the refinement `ShutdownImplementsPool`: what holds for the
pool alone holds under `Shutdown`.  `ShutInv` adds where each call stands: the tasks
of the tiers passed have returned.  From both follows `ShutdownBarriers`.

**`ServerProofs`.**  `Core` (types, the three safety properties, and what a worker
holds at each of its steps) is about the pipeline behind the reading loop; each
worker step and the output keep it whatever the reader does.  So the UDP server
(`ServerInv`, which adds what `Run` holds) and the servers behind a stream
(`StreamInv`) share those lemmas.  For `AckedOnce` counting packets is not inductive; the
invariant speaks instead of the buffers on their way, whose packets are all different
and not yet answered (`WaysApart`), and of dedup, which knows no packet that no worker
has marked (`WorkersKnow`).

**`StreamClientProofs`.**  `LinesInOrder` is about a concatenation; the invariant has
the same in parts (`LinesApart`): each of screen, channel and batch rises, each is
below the next, and with the dropped lines they are the ids below `nextID`.
`AcksCounted` says that the counter counts distinct answered ids, which have been
inserted but for the one at hand; so `Run` cannot complete with an id missing.
`ClientDelivers` carries the promise of the ordered buffer to the screen.  The three
places of a line put end to end (`Lines`) are the log of `InOrderDelivery`, and what
was offered is read off the buffer (`OwnPairs`: the ids below `nextID` and those in the
map), so that no history variable is needed.  While nothing has been dropped,
`LinesInOrder` leaves one possibility for `Lines`, the run `Upto(nextID)`; then an
`AckInsert` is an `Offer`, and every other step, those that move a line from place to
place and those that stop the client included, leaves the log alone.  The hypothesis
`[](dropped = {})` is what the QUIC code needs, for `select` with `default` drops a line
that finds the channel full; the SCTP client has no channel, and `SCTPDelivers` discharges
the hypothesis.

**`UDPFecProofs`.**  `FecInv` ties the two programs together: what is acknowledged is
known to the server, what a worker is about to acknowledge too, an ACK at hand on the
client was sent, and the client says OK of acknowledged ids alone.  The network appears
only as two sets that grow.  For `Fec`, the invariant says what the stored shards
are, and the content is in three lemmas: every bit is set in an even number of the
encoded shards (`EvenBits`), so that the XOR of all but one is that one (`OneMissing`);
the data shards end to end are the payload (`JoinIs`); and only the empty payload is
refused (`OnlyEmptyRefused`).  `RSNilStaysLost` is finding 6.3 for every
payload and number of shards: a shard lost as nil is never what `Recover` returns for
it, unless it was zeroes.

**`CacheProofs`.**  `ListIsMap` follows pointers, which no invariant can do.  `Linked`
says instead that some sequence `s` orders the nodes such that `next` and `prev` of
each are its neighbours in `s`, with no node twice and the ends at `head` and `tail`;
`InsertOrder` and `RemoveOrder` shift that sequence as the code moves the pointers.
`NodesConserved` is counted with the map instead of the list.
On top of the same invariant, `CacheActsAsLayer` says that the pointers do under every
call what `LayerCache` says of its list: `Forward`, the walk along `next`, is the
sequence of `Linked` (the two agree node by node), a new head is an `Append`, and an
unlinked node, wherever it is, is cut out by `CutOut`.  `CacheFindsAsLayer` is the other
half, what the calls look at.  With both, what `LayerCache`, and the UDP client on it,
take a layer to be is what the linked list of the code is.

**`UDPClientProofs`.**  For `LayerCache` alone `LayersSorted` says that a layer is
sorted *and* holds no deadline later than its own TTL.  The second half is what makes the
first inductive: a new head gets the one TTL of its layer (`RetryTTL`, or the
`BackoffNext` of the layer), so nothing in the layer is later.  `DeadlineOrder` and
`TailsDecide` follow.  `ClientUsesLayerCache` is a refinement: every step of the
client's threads is a step of `LayerCache`, or none, if the daemon is taken to hold a
peek until it promotes it (`UsesLayerCache`).  `ClientTails` brings both properties to the running client.

The client's own invariant `ClientInv` looks at a layer as a set of items and has these parts:

* `CacheOK`: an id is in one layer, and that layer tells how often its packet
  was sent, the moment between promotion and resending counted apart (`Resending`).
  That bounds the retries although a promotion may move the wrong packet.
* `GenOK`: the ids a generator has yet to send are a residue class of its own (`Due`),
  not sent so far, and the one it has sent and not registered is neither in the cache
  nor in the daemon's hands, so that `Set` cannot make a second deadline.
* `PeekOK`: what the daemon peeked is still the tail, or is in no layer and an ACK for it
  has been handled (`Gone`).  This is why only an ACK at the wrong moment can make
  the daemon pop another packet (`ForgottenForAnother`).
* `AckOK`: the counter is the number of ACKs handled, as the cardinality of a set of
  pairs, and there is no ACK for an id the server has not accepted; a payload under a
  wrong name goes out only under an accepted id (`PayloadIntact`).
* `LinesOK`: the lines with the two printers and on the screen have the ids below
  `nextID`, and as many lines; so each has one.

**Not proved.**  Liveness (`CacheDrains`, `EveryJobAcked`, `EveryReadAcked`,
`EverySubmitSettled`, `ClientEnds`, `QueuedIsFinalized`, `ExpiredGoes`), which rests on
fairness and `ENABLED`, stays with TLC, as do the three violations of section 6.
`BackoffNext` is a recursive function: its bounds are proved by induction over a set
of naturals (`Intervals`), that it computes the code's loop is not.

## 6. Findings

1. *An ACK may leave its packet in the cache* (`AckErases`).  The generator
   sends before it registers; an ACK handled in between deletes nothing.  The
   packet is resent through all layers, the server drops the repeats without a
   new ACK, and the daemon counts it LOST, although its line says OK.
2. *The UDP server stops acknowledging* (`EveryJobAcked` without
   `OutputMade`).  `NewServer` never makes `outputCh`; a send on the nil channel
   blocks the worker before its ACK, for ever.
3. *Reed-Solomon's `Recover` does not restore a missing shard* (`RSRestores`).  The
   interface (`encoder.go:8`) promises to restore shards that are nil or empty.
   `Recover` fills in nil shards with zeroes before it asks the library to reconstruct,
   which then sees none missing, so the zeroes are returned without an error; an
   empty shard that is not the first is refused as one of another size.  No program of the
   repository uses this code.

Noticed, and part of the models, without a run of their own:

* The UDP client can print status lines out of order: `ackReceiver` and the daemon
  print their batches after the buffer's unlock (`AckPrint`, `DmnPrint`).
  `LinesConserved` shows that none is lost or doubled.
* UDP+FEC never recovers a packet: the server accepts it on shard 0 alone and calls
  no decoder (`WorkerTake` of `UDPFec`), so a lost shard 0 costs a retransmission,
  and the parity is never used.
* A packet that finds the QUIC or SCTP server's jobs channel full is dropped, and
  these clients send nothing again: their `Run` waits to its deadline.
* A `Shutdown` whose pool `Close` is refused (another Close is under way) or times
  out ignores the error and closes the loggers over running workers:
  the exception in `HardBarriers`.
* `Cache`: with nodes left, `cleanup` wakes its own loop at once, so that a cache
  with a finalizer spins until it is empty (`CleanupEnd`; the time to the next
  deadline is computed and unused).  `Set` over an old node and `PopTail` finalize
  nothing.  `Delete`, `Get` or cleanup after Close panic on the closed channel, as
  does a second Close.  Without a finalizer there is no cleanup loop, so the
  servers' dedup caches only shrink when an expired id comes again.
* `RingBuffer` takes an id again after it was taken out; its slot then stays
  filled for ever.  `RingAgrees` shows that no other id is mistaken for it.
* A `Submit` of the worker pool that overlaps `Close` can send on the closed
  channel and panic; in `WorkerPool` that is an action, and `TasksConserved` and
  `EverySubmitSettled` hold up to it.
* `Run` of a QUIC or SCTP client waits for its generators before its deadline
  starts (`workerWg.Wait`), and their sends have none: a send that blocks on a
  connection that stays up holds `Run` for ever, as it may a second client of a server
  that accepts one connection.  `ClientEnds` names it as the one way not to end.
* A packet that is lost for good stops the ordered output of its server: the
  packets after it are acknowledged and never printed.
* With 256 data shards the shard number wraps and the parity passes for shard 0.
* The QUIC client's `Shutdown` closes `outputCh` while `ackReceiver` may still
  send on it, which panics.
* The QUIC and SCTP clients' `Run` polls the ACK counter, which `ackReceiver`
  increments first, so it may return with lines unprinted;
  `CompleteMeansInserted` shows how far the lines can lag.
* A packet that was popped in another's name is not always traceable to a packet
  in the cache: the proof of `ForgottenForAnother` found that the packet that took
  its place is gone too if a second ACK of its own erases it there.  The run, with
  one ACK per id, cannot show this; the property says it now.
* `Shutdown` of every server closes `jobs` and `outputCh` while goroutines send
  on them; on the UDP server, closing the nil `outputCh` panics by itself.
* `PromoteLayer` pops the tail of the peeked layer even if it is another packet
  by now.  A packet popped in another's name is forgotten: neither retried nor
  reported lost, and the output waits for it.
* The UDP, QUIC and SCTP servers do not acknowledge a repeated packet again, so
  that a lost ACK cannot be repaired by retransmission; the UDP+FEC server does.
* The daemon sleeps to the earliest deadline it saw and does not notice an
  earlier one registered meanwhile; that only delays a retry.
* `Run` may return between the last `Delete` and its print; `Shutdown` waits
  for neither printer.
* The daemon's `conn.Send` and the ACK's `conn.Send` ignore errors.

## 7. Not modelled

`pkg/workerpool`, Reed-Solomon, `RingBuffer` and `Cache`'s finalizers are used by
no program; they are modelled all the same.  The packet codec is a pure
conversion; its round trip is a matter for unit tests.  Formatting, logging, metrics, configuration, command-line parsing and the
generation of payloads carry no state the properties speak of.  SHA-256 and the
wire format are abstracted to a verdict (a datagram is an id or `Bad`).  TLS,
QUIC and SCTP handshakes belong to libraries.  A QUIC stream longer than the
server's buffer, on which its reading loop would turn for ever, is sent by no
client of the repository.  `LinearBackoff` is used by nobody.  64-bit wrap of ids is out
of reach of any run of the program.

## 8. Plan

What is left: the ACK that the UDP+FEC server gives on shard 0 alone as a property of
its own (how far the parity is from being used), and the in-order promise for the
servers, which can be asked of the batches their buffer hands back only: after the
unlock the lines of two workers may pass each other (`SendLine`).  `UDPClient` with its server composed in
full is out of TLC's reach; `UDPFec` is the composition the project checks.
