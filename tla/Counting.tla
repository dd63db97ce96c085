------------------------------ MODULE Counting ------------------------------
(***************************************************************************)
(* How often a thing is in a queue, or in the hands of a group of threads: *)
(* the conservation properties of several components are sums of these.    *)
(***************************************************************************)
EXTENDS Naturals, Sequences, FiniteSets

\* In how many positions of the sequence s the element x is.
Occurs(s, x) == Cardinality({i \in 1..Len(s) : s[i] = x})

\* For how many arguments the function f has the value x.
Holders(f, x) == Cardinality({w \in DOMAIN f : f[w] = x})

\* In how many positions of the sequences that are the values of f the element x is.
SpotsIn(w, s, x) == {w} \X {i \in 1..Len(s) : s[i] = x}
Spots(f, x) == UNION {SpotsIn(w, f[w], x) : w \in DOMAIN f}
Entries(f, x) == Cardinality(Spots(f, x))
=============================================================================
