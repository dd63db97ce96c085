----------------------------- MODULE RingBuffer -----------------------------
(***************************************************************************)
(* order.RingBuffer, the other buffer of pkg/order, given the same Insert  *)
(* calls as an OrderedBuffer (the clients' comments call theirs a ring,    *)
(* sctp/client.go).  It differs in two ways: a caller takes values out one *)
(* by one with GetNext, and its window is fixed, Size ids from StartID on. *)
(* Each call runs wholly under the mutex and is one step.                  *)
(***************************************************************************)
EXTENDS OrderedBuffer, FiniteSets

CONSTANT Size   \* argument of NewRingBuffer

ASSUME SizeAssumption == Size \in Nat \ {0}

VARIABLES slots,      \* rb.buf: from the filled offsets (rb.filled) to values
          ringNext,   \* rb.nextID
          count,      \* rb.count
          taken       \* history: the values GetNext returned

ringVars == <<slots, ringNext, count, taken>>

WindowEnd == StartID + Size
Offset(id) == (id - StartID) % Size
InWindow(id) == id \in StartID..WindowEnd-1

RingInit == /\ slots = [o \in {} |-> {}]
            /\ ringNext = StartID
            /\ count = 0
            /\ taken = <<>>

\* An id whose value was already taken is accepted again: its slot stays filled.
RingInsert_CountsRepeats(id, value) ==
    /\ InWindow(id)
    /\ slots' = [o \in DOMAIN slots \cup {Offset(id)} |->
                    IF o = Offset(id) THEN value ELSE slots[o]]
    /\ count' = count + 1
    /\ UNCHANGED <<ringNext, taken>>
RingInsert(id, value) ==
    /\ InWindow(id)
    /\ slots' = [o \in DOMAIN slots \cup {Offset(id)} |->
                    IF o = Offset(id) THEN value ELSE slots[o]]
    /\ count' = IF Offset(id) \in DOMAIN slots THEN count ELSE count + 1
    /\ UNCHANGED <<ringNext, taken>>

\* Insert returns false.
RingRefuse(id) == ~InWindow(id) /\ UNCHANGED ringVars

CanTake == /\ count # 0
           /\ ringNext < WindowEnd
           /\ Offset(ringNext) \in DOMAIN slots

GetNext ==
    /\ CanTake
    /\ taken' = Append(taken, slots[Offset(ringNext)])
    /\ slots' = [o \in DOMAIN slots \ {Offset(ringNext)} |-> slots[o]]
    /\ count' = count - 1
    /\ ringNext' = ringNext + 1

InsertBoth(id, value) == /\ Insert(id, value)
                         /\ RingInsert(id, value) \/ RingRefuse(id)

BothInit == Init /\ RingInit
BothNext == \/ \E id \in Ids, value \in Values : InsertBoth(id, value)
            \/ GetNext /\ UNCHANGED vars
BothSpec == BothInit /\ [][BothNext]_<<vars, ringVars>>

-----------------------------------------------------------------------------
(* Properties *)

\* Up to the end of its window the ring can stand in for the OrderedBuffer, and
\* not beyond: the n-th value taken was inserted for the n-th id, GetNext has a
\* value exactly if the OrderedBuffer has released that id and the window still
\* holds it, and no slot of an id taken before, refilled by a repeated Insert,
\* is mistaken for one to come (ring.go:29-65).
RingAgrees ==
    /\ Len(taken) = ringNext - StartID
    /\ \A n \in 1..Len(taken) : <<StartID + n - 1, taken[n]>> \in offered
    /\ CanTake <=> ringNext < nextID /\ ringNext < WindowEnd
    /\ count = Cardinality(DOMAIN slots)
=============================================================================
