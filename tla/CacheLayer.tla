------------------------------ MODULE CacheLayer ------------------------------
(***************************************************************************)
(* lru.Cache as lru.LayerCache sees it: LayerCache.tla has a list of       *)
(* entries in the place of the pointers and the map of Cache.tla, and says *)
(* of each call what it does to that list.  Here the list is read off the  *)
(* pointers, and the calls are compared.  A LayerCache of one layer is     *)
(* enough for that, since each layer is a Cache of its own; its last layer *)
(* promotes nothing, so that the backoff does not matter.                  *)
(***************************************************************************)
EXTENDS Cache

\* The nodes of the list, counted along next.
Size == CHOOSE n \in 0..made : /\ Forward[n] = Nil
                               /\ \A i \in 0..n-1 : Forward[i] # Nil

\* From the tail to the head, as in LayerCache.  What a Set stores is as good
\* as the number of that Set, which is the number of the node.
AsLayer == [i \in 1..Size |-> LET n == Forward[Size - i]
                              IN  [key |-> key[n], value |-> n, left |-> left[n]]]

LC == INSTANCE LayerCache WITH Values <- Nodes, NumLayers <- 1, RetryTTL <- TTL,
                               InitialInterval <- 0, MaxInterval <- 1, Multiplier <- 2,
                               layers <- [i \in {0} |-> AsLayer], peeked <- {}

\* Every call does to the pointers what LayerCache says it does to the list: a
\* Set makes the new entry the head and drops the old one, wherever it is, a Get
\* drops an expired entry, PopTail and cleanup take the tail, and nothing else
\* touches the list (cache.go:96-150, 171-196, 234-258, 273-310).
ActsAsLayer ==
    /\ \A k \in Keys :
        /\ Set(k) => LC!Set(k, made')
        /\ SetWithTTL(k) => \E ttl \in CustomTTLs : AsLayer' = LC!Put(AsLayer, k, made', ttl)
        /\ Get(k) => LC!Get(k)
        /\ Delete(k) => LC!Delete(k)
        /\ PopTail => AsLayer # <<>> /\ LC!PromoteLayer(k, 0)
    /\ CleanupOne => LC!FoundExpired /\ AsLayer' = Tail(AsLayer)
    /\ Tick => LC!Tick
    /\ (Close \/ CloseAgain \/ LoopWakes \/ LoopStops \/ CleanupEnd \/ \E w \in Workers : Worker(w))
          => UNCHANGED AsLayer

\* What the calls find is what LayerCache says: a Get finds a key alive exactly
\* if the list has it alive, and the tail is expired exactly if a scan of the
\* list finds one (cache.go:120-137, 234-246, layer.go:54-94).
FindsAsLayer ==
    /\ \A k \in Keys : LC!HasLive(AsLayer, k) <=> items[k] # Nil /\ ~Expired(items[k])
    /\ LC!FoundExpired <=> list.tail # Nil /\ Expired(list.tail)

IsLayer == AsLayer = <<>> /\ [][ActsAsLayer]_vars
==============================================================================
