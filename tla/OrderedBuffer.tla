---------------------------- MODULE OrderedBuffer ----------------------------
(***************************************************************************)
(* order.OrderedBuffer: holds values back until every smaller id has       *)
(* arrived.  Insert runs wholly under the mutex, so a call is one step;    *)
(* what the callers do with the returned batch after the unlock is         *)
(* modelled by the modules that use the buffer.                            *)
(*                                                                         *)
(* Ids are bounded by MaxID: the code has 64-bit ids and no bound.         *)
(***************************************************************************)
EXTENDS Integers, Sequences

CONSTANTS Values,   \* the values callers insert
          StartID,  \* argument of NewOrderedBuffer
          MaxID     \* bound: callers insert ids in 0..MaxID only

ASSUME ParamAssumption == StartID \in Nat /\ MaxID \in Nat /\ StartID <= MaxID

Ids == 0..MaxID

VARIABLES nextID,   \* ob.nextID
          buffer,   \* ob.buffer: a function from the waiting ids to values
          offered,  \* history: pairs <<id, value>> passed to Insert so far
          released  \* history: concatenation of the slices Insert returned

vars == <<nextID, buffer, offered, released>>

\* Faulty variants, of this and of the definitions below, are named
\* <definition>_<fault>: they stand for plausible bugs of the code, and no
\* specification uses them.
Init_IgnoresStart == nextID = 0 /\ buffer = [k \in {} |-> {}] /\ offered = {} /\ released = <<>>
Init == /\ nextID = StartID
        /\ buffer = [k \in {} |-> {}]
        /\ offered = {}
        /\ released = <<>>

-----------------------------------------------------------------------------
\* ob.buffer[id] = value
Filled(id, value) ==
    [k \in DOMAIN buffer \cup {id} |-> IF k = id THEN value ELSE buffer[k]]

\* Where the release loop stops: the smallest id from `from' on that b lacks.
RunEnd_OneOnly(b, from) == IF from \in DOMAIN b THEN from + 1 ELSE from
RunEnd(b, from) ==
    CHOOSE n \in from..MaxID+1 : /\ n \notin DOMAIN b
                                 /\ \A k \in from..n-1 : k \in DOMAIN b

\* The slice Insert(id, value) returns.
Batch_Stale(id, value) ==
    LET b == Filled(id, value)
    IN  IF id < nextID THEN <<value>>
        ELSE [i \in 1..(RunEnd(b, nextID) - nextID) |-> b[nextID + i - 1]]
Batch(id, value) ==
    LET b == Filled(id, value)
    IN  IF id < nextID THEN <<>>
        ELSE [i \in 1..(RunEnd(b, nextID) - nextID) |-> b[nextID + i - 1]]

\* An id below nextID is dropped; otherwise the value is stored and the run
\* that starts at nextID, if there is one now, is taken out of the map.
InsertBody_NoDelete(id, value) ==
    IF id < nextID
    THEN UNCHANGED <<nextID, buffer>>
    ELSE /\ nextID' = RunEnd(Filled(id, value), nextID)
         /\ buffer' = Filled(id, value)
InsertBody_OnlyInOrder(id, value) ==
    /\ nextID' = IF id = nextID THEN id + 1 ELSE nextID
    /\ UNCHANGED buffer
InsertBody(id, value) ==
    IF id < nextID
    THEN UNCHANGED <<nextID, buffer>>
    ELSE LET b   == Filled(id, value)
             end == RunEnd(b, nextID)
         IN  /\ nextID' = end
             /\ buffer' = [k \in DOMAIN b \ (nextID..end-1) |-> b[k]]

Insert(id, value) ==
    /\ InsertBody(id, value)
    /\ offered' = offered \cup {<<id, value>>}
    /\ released' = released \o Batch(id, value)

Next == \E id \in Ids, value \in Values : Insert(id, value)

Spec == Init /\ [][Next]_vars

-----------------------------------------------------------------------------
(* Properties *)

TypeOK == /\ nextID \in StartID..MaxID+1
          /\ DOMAIN buffer \subseteq Ids
          /\ \A k \in DOMAIN buffer : buffer[k] \in Values
          /\ offered \subseteq Ids \X Values
          /\ released \in Seq(Values)

\* The n-th value ever handed back was inserted for id StartID+n-1, and the
\* count of values handed back is what nextID says: no id is released twice,
\* skipped, or released in another id's place (ordered_buffer.go:30-38).
ReleasedInOrder ==
    /\ Len(released) = nextID - StartID
    /\ \A n \in 1..Len(released) : <<StartID + n - 1, released[n]>> \in offered

\* Every id still to come is in the map exactly if it was inserted, with a
\* value inserted for it, and the id the buffer waits for is not among them:
\* a value is never lost while it waits and never waits without a gap in
\* front of it (ordered_buffer.go:27, 32-37).
WaitingExactly ==
    /\ nextID \notin DOMAIN buffer
    /\ \A k \in DOMAIN buffer : k > nextID /\ <<k, buffer[k]>> \in offered
    /\ \A p \in offered : p[1] >= nextID => p[1] \in DOMAIN buffer

\* The buffer implements the promise stated in InOrderDelivery.
IOD == INSTANCE InOrderDelivery WITH log <- released
ImplementsInOrderDelivery == IOD!Spec
=============================================================================
