--------------------------- MODULE InOrderDelivery ---------------------------
(***************************************************************************)
(* What a caller of an ordered buffer is promised, with no buffer in it.   *)
(*                                                                         *)
(* Callers hand over pairs <<id, value>> in any order, with repetitions.   *)
(* The log of everything handed back so far is the longest gap-free run    *)
(* of ids from StartID on: position n carries a value that was handed over *)
(* for id StartID+n-1, the log only ever grows at its end, and it stops    *)
(* only in front of an id that nobody has handed over yet.                 *)
(***************************************************************************)
EXTENDS Integers, Sequences

CONSTANTS Ids,      \* the ids callers may hand over
          Values,   \* the values callers may hand over
          StartID   \* the first id of the log

VARIABLES offered,  \* set of pairs <<id, value>> handed over so far
          log       \* sequence of values handed back so far

avars == <<offered, log>>

\* Position n of the log s holds a value that o says was handed over for it.
Justified(o, s) == \A n \in 1..Len(s) : <<StartID + n - 1, s[n]>> \in o

\* Nothing has been handed over for the id that the log s is waiting for.
Maximal(o, s) == \A v \in Values : <<StartID + Len(s), v>> \notin o

Extends(s, t) == /\ Len(s) <= Len(t)
                 /\ \A n \in 1..Len(s) : t[n] = s[n]

Init == offered = {} /\ log = <<>>

Offer(id, value) ==
    /\ offered' = offered \cup {<<id, value>>}
    /\ log' \in Seq(Values)
    /\ Extends(log, log')
    /\ Justified(offered', log')
    /\ Maximal(offered', log')

Next == \E id \in Ids, value \in Values : Offer(id, value)

Spec == Init /\ [][Next]_avars
=============================================================================
