----------------------------- MODULE LayerCache -----------------------------
(***************************************************************************)
(* lru.LayerCache over lru.Cache (without a finalizer, as every user in    *)
(* the repository builds it): layers of entries with a deadline; an entry  *)
(* whose deadline has passed is moved one layer up by PromoteLayer until   *)
(* the last layer drops it.  Every method runs under lc.mu, so a call is   *)
(* one step.  One daemon calls PeekExpiredScan and then PromoteLayer, with *)
(* the lock released in between (udp/client.go:256-260); other threads     *)
(* call Set, Get and Delete at any time.                                   *)
(*                                                                         *)
(* A layer is the linked list of the cache as a sequence that starts at    *)
(* c.tail and ends at c.head.  Deadlines are kept relative to the present, *)
(* as the time left in units of InitialInterval / 100 ms; Tick lets a unit *)
(* pass.  Times left below zero are all the same to the code, which only   *)
(* asks now.After(expiresAt): Tick stops counting at -1.                   *)
(***************************************************************************)
EXTENDS Integers, Sequences, SequencesExt, FiniteSetsExt

CONSTANTS Keys,
          Values,
          NumLayers,        \* len(lc.layers)
          RetryTTL,         \* TTL of layer 0; the TTLs of the others are never used
          InitialInterval,  \* of the ExponentialBackoff
          MaxInterval,
          Multiplier

ASSUME ParamAssumption ==
    /\ NumLayers \in Nat \ {0}
    /\ RetryTTL \in Nat
    /\ InitialInterval \in Nat
    /\ MaxInterval \in Nat \ {0}
    /\ Multiplier \in Nat \ {0, 1}

VARIABLES layers,   \* function from 0..NumLayers-1 to sequences of entries
          peeked    \* what the daemon's last PeekExpiredScan returned

vars == <<layers, peeked>>

Layer == 0..NumLayers-1
Peek  == [key : Keys, layer : Layer]

\* ExponentialBackoff.Next; attempt 0 is not capped, as in the code.
BackoffNext[attempt \in Nat] ==
    IF attempt = 0 THEN InitialInterval
    ELSE Min({Multiplier * BackoffNext[attempt - 1], MaxInterval})

LongestTTL == Max({RetryTTL} \cup {BackoffNext[i] : i \in Layer})

Expired(e) == e.left < 0

-----------------------------------------------------------------------------
(* lru.Cache: operations on one layer, as functions of its list.           *)
(* A definition named <definition>_<fault>, here and below, stands for a   *)
(* plausible bug of the code; no specification uses it.                    *)

\* removeNode(c.items[key]), if the key is there.
Without(list, key) ==
    IF \E n \in 1..Len(list) : list[n].key = key
    THEN RemoveAt(list, CHOOSE n \in 1..Len(list) : list[n].key = key)
    ELSE list

\* Set and SetWithTTL: the old node of the key goes, a new one becomes the head.
Put_AtTail(list, key, value, ttl) ==
    <<[key |-> key, value |-> value, left |-> ttl]>> \o Without(list, key)
Put(list, key, value, ttl) ==
    Append(Without(list, key), [key |-> key, value |-> value, left |-> ttl])

HasLive(list, key) == \E n \in 1..Len(list) : list[n].key = key /\ ~Expired(list[n])

-----------------------------------------------------------------------------
(* lru.LayerCache *)

Init == /\ layers = [i \in Layer |-> <<>>]
        /\ peeked = {}

Set(key, value) == layers' = [layers EXCEPT ![0] = Put(@, key, value, RetryTTL)]

\* The layers are asked in order up to the first that holds the key alive; a
\* layer that holds it expired loses it (Cache.Get) and the search goes on.
Get(key) ==
    layers' = [i \in Layer |-> IF \E j \in 0..i : HasLive(layers[j], key)
                               THEN layers[i]
                               ELSE Without(layers[i], key)]

Delete(key) == layers' = [i \in Layer |-> Without(layers[i], key)]

\* PeekExpiredScan looks at the tails only and takes the lowest layer's.
ExpiredTails_FirstLayer == {i \in {0} : layers[i] # <<>> /\ Expired(Head(layers[i]))}
ExpiredTails == {i \in Layer : layers[i] # <<>> /\ Expired(Head(layers[i]))}
FoundExpired == ExpiredTails # {}
PeekExpiredScan == LET i == Min(ExpiredTails)
                   IN  [key |-> Head(layers[i]).key, layer |-> i]

\* GetEarliestDeadline: the minimum over the tails.
HasDeadlines == \E i \in Layer : layers[i] # <<>>
EarliestDeadline_FirstLayer ==
    Head(layers[Min({i \in Layer : layers[i] # <<>>})]).left
EarliestDeadline == Min({Head(layers[i]).left : i \in {j \in Layer : layers[j] # <<>>}})

\* PromoteLayer(key, i) pops the tail of layer i, whatever its key is, and
\* registers the popped value under `key' one layer up, if there is one.
PromoteAlive(i) == layers[i] # <<>> /\ i + 1 < NumLayers
PromotedValue_Head(i) == layers[i][Len(layers[i])].value
PromotedValue(i) == Head(layers[i]).value
PromoteLayer_SkipsAttempt(key, i) ==
    layers' = IF layers[i] = <<>> THEN layers
              ELSE IF i + 1 < NumLayers
              THEN [layers EXCEPT ![i] = Tail(@),
                                  ![i+1] = Put(@, key, PromotedValue(i), BackoffNext[i+2])]
              ELSE [layers EXCEPT ![i] = Tail(@)]
PromoteLayer_SameLayer(key, i) ==
    layers' = IF layers[i] = <<>> THEN layers
              ELSE IF i + 1 < NumLayers
              THEN [layers EXCEPT ![i] = Put(Tail(@), key, PromotedValue(i), BackoffNext[i])]
              ELSE [layers EXCEPT ![i] = Tail(@)]
PromoteLayer_NoPop(key, i) ==
    layers' = IF layers[i] # <<>> /\ i + 1 < NumLayers
              THEN [layers EXCEPT ![i+1] = Put(@, key, PromotedValue(i), BackoffNext[i+1])]
              ELSE layers
PromoteLayer(key, i) ==
    layers' = IF layers[i] = <<>> THEN layers
              ELSE IF i + 1 < NumLayers
              THEN [layers EXCEPT ![i] = Tail(@),
                                  ![i+1] = Put(@, key, PromotedValue(i), BackoffNext[i+1])]
              ELSE [layers EXCEPT ![i] = Tail(@)]

CacheLen == LET Size(i) == Len(layers[i]) IN MapThenSumSet(Size, Layer)

\* A unit of time passes.
Tick == layers' = [i \in Layer |-> [n \in 1..Len(layers[i]) |->
                      [layers[i][n] EXCEPT !.left = Max({@ - 1, -1})]]]
TimeMatters == \E i \in Layer : \E n \in 1..Len(layers[i]) : ~Expired(layers[i][n])

-----------------------------------------------------------------------------
(* The daemon and the other callers *)

DaemonPeek == /\ peeked = {}
              /\ FoundExpired
              /\ peeked' = {PeekExpiredScan}
              /\ UNCHANGED layers

DaemonPromote == \E p \in peeked : /\ PromoteLayer(p.key, p.layer)
                                   /\ peeked' = {}

Callers == /\ \E key \in Keys : \/ \E value \in Values : Set(key, value)
                                \/ Get(key)
                                \/ Delete(key)
           /\ UNCHANGED peeked

Passing == TimeMatters /\ Tick /\ UNCHANGED peeked

Next == DaemonPeek \/ DaemonPromote \/ Callers \/ Passing

Spec == Init /\ [][Next]_vars

-----------------------------------------------------------------------------
(* Properties *)

Entry == [key : Keys, value : Values, left : -1..LongestTTL]

\* Within a layer deadlines never decrease from the tail to the head: "the
\* list is ordered by expiresAt" (cache.go:8), although SetWithTTL lets every
\* caller pick its own TTL.  It holds because each layer is only ever given
\* one TTL: Set feeds layer 0 and PromoteLayer layer i with Next(i).
DeadlineOrder == \A i \in Layer : \A m, n \in 1..Len(layers[i]) :
                    m < n => layers[i][m].left <= layers[i][n].left

\* A look at the tails answers for the whole cache: the scan finds an expired
\* entry if there is one anywhere, and the deadline the daemon sleeps to is
\* not after that of any entry (layer.go:75-114).
TailsDecide ==
    \A i \in Layer : \A n \in 1..Len(layers[i]) :
        /\ Expired(layers[i][n]) => FoundExpired
        /\ EarliestDeadline <= layers[i][n].left
=============================================================================
