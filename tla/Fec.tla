-------------------------------- MODULE Fec --------------------------------
(***************************************************************************)
(* Forward error correction: the splitting of a payload into data shards   *)
(* (internal/variants/udp-fec/client.go), the encoders of pkg/fec, and the *)
(* way of one packet through them: split, encode, lose shards, recover,    *)
(* join.  The join is that of the test of the encoders (fec_test.go).      *)
(*                                                                         *)
(* XOR works on each bit by itself, so one bit stands for a byte: a        *)
(* payload or shard of length size is the set of positions whose bit is 1. *)
(* Reed-Solomon's arithmetic is a library's; with one parity shard over    *)
(* bits its code is XOR too, and that is how the library is modelled here. *)
(***************************************************************************)
EXTENDS Integers, Sequences, FiniteSets

CONSTANTS dataShards,   \* of the encoder: config.DataShards
          MaxLength,    \* bound: longest payload
          Nil,          \* a nil slice in place of a shard
          Failed        \* an error returned

ASSUME CoderAssumption == dataShards \in Nat \ {0} /\ MaxLength \in Nat

VARIABLES coder,     \* "xor" or "reedSolomon"
          phase,     \* which step the packet has come through
          payload,
          encoded,   \* what Encode returned
          received,  \* the shards after the losses
          result     \* what Recover returned

coderVars == <<coder, phase, payload, encoded, received, result>>

Blocks(lengths) == UNION {[size : {n}, ones : SUBSET (1..n)] : n \in lengths}
Indices == 1..dataShards+1
Empty == [size |-> 0, ones |-> {}]

-----------------------------------------------------------------------------
(* Splitting and joining.  A definition named <definition>_<fault> stands  *)
(* for a plausible bug of the code; nothing uses it.                       *)

ShardSize(length) == (length + dataShards - 1) \div dataShards

\* Shard i gets the i-th stretch of the payload, padded with zeroes.
Split(p) ==
    LET size == ShardSize(p.size)
    IN  [i \in 1..dataShards |->
            [size |-> size, ones |-> {b \in 1..size : (i-1) * size + b \in p.ones}]]

\* The data shards end to end, cut to the original length.
Joined(shards, length) ==
    LET size == shards[1].size
        All  == UNION {{(i-1) * size + b : b \in shards[i].ones} : i \in 1..dataShards}
    IN  [size |-> length, ones |-> All \cap 1..length]

-----------------------------------------------------------------------------
(* Operators on shards *)

IsGone(sh) == sh = Nil \/ sh.size = 0
SameSize(shards, I) == \A i, j \in I : shards[i].size = shards[j].size

\* The XOR of the shards with indices in I, which have this size.
XorOf(shards, I, size) ==
    [size |-> size,
     ones |-> {b \in 1..size : Cardinality({i \in I : b \in shards[i].ones}) % 2 = 1}]

\* The shards, and the XOR of them all after them.
WithParity(shards) == Append(shards, XorOf(shards, 1..Len(shards), shards[1].size))

XorEncode(shards) ==
    LET I == 1..Len(shards)
    IN  IF \/ Len(shards) # dataShards
           \/ \E i \in I : shards[i] = Nil
           \/ ~SameSize(shards, I)
           \/ shards[1].size = 0
        THEN Failed
        ELSE WithParity(shards)

XorRecover_ForgetsParity(shards) ==
    LET I    == 1..Len(shards)
        Gone == {i \in I : IsGone(shards[i])}
        Rest == I \ Gone
        size == shards[CHOOSE i \in Rest : TRUE].size
    IN  IF Len(shards) # dataShards + 1 \/ Cardinality(Gone) > 1 \/ Rest = {}
        THEN Failed
        ELSE [i \in I |-> IF i \in Gone THEN XorOf(shards, Rest \ {Len(shards)}, size)
                                        ELSE shards[i]]
XorRecover(shards) ==
    LET I    == 1..Len(shards)
        Gone == {i \in I : IsGone(shards[i])}
        Rest == I \ Gone
        size == shards[CHOOSE i \in Rest : TRUE].size
    IN  IF \/ Len(shards) # dataShards + 1
           \/ Cardinality(Gone) > 1
           \/ ~SameSize(shards, Rest)
           \/ Rest = {}
        THEN Failed
        ELSE [i \in I |-> IF i \in Gone THEN XorOf(shards, Rest, size) ELSE shards[i]]

\* ReedSolomon.Encode hands the checked shards to the library, which refuses
\* empty ones.
RSEncode(shards) == XorEncode(shards)

\* The library's Reconstruct: shards of length 0 are the missing ones.
Reconstruct(shards) ==
    LET I    == 1..Len(shards)
        Gone == {i \in I : shards[i].size = 0}
        size == shards[CHOOSE i \in I \ Gone : TRUE].size
    IN  IF Cardinality(Gone) > 1 THEN Failed
        ELSE [i \in I |-> IF i \in Gone THEN XorOf(shards, I \ Gone, size) ELSE shards[i]]

\* ReedSolomon.Recover puts zeroed slices of full length for nil ones.  Its
\* size is the first that is not 0; a later shard must have it too.
RSRecover(shards) ==
    LET I     == 1..Len(shards)
        There == {i \in I : shards[i] # Nil}
        Full  == {i \in There : shards[i].size > 0}
        size  == shards[CHOOSE i \in Full : TRUE].size
    IN  IF \/ Len(shards) # dataShards + 1
           \/ Full = {}
           \/ \E i \in Full, j \in There : i < j /\ shards[j].size # shards[i].size
        THEN Failed
        ELSE Reconstruct([i \in I |-> IF shards[i] = Nil THEN [size |-> size, ones |-> {}]
                                                         ELSE shards[i]])

\* An error is no slice of shards, and a nil slice is neither a shard nor empty.
ASSUME ErrorAssumption ==
    /\ Nil # Empty
    /\ \A p \in Blocks(0..MaxLength) :
          LET shards == WithParity(Split(p))
          IN  shards # Failed /\ \A i \in Indices : shards[i] # Nil

-----------------------------------------------------------------------------
(* The way of one packet *)

CoderInit ==
    /\ coder \in {"xor", "reedSolomon"}
    /\ phase = "split"
    /\ payload \in Blocks(0..MaxLength)
    /\ encoded = <<>> /\ received = <<>> /\ result = <<>>

\* A payload Encode refuses is skipped (client.go:215-217).
Encode ==
    /\ phase = "split"
    /\ encoded' = IF coder = "xor" THEN XorEncode(Split(payload)) ELSE RSEncode(Split(payload))
    /\ phase' = IF encoded' = Failed THEN "skipped" ELSE "encoded"
    /\ UNCHANGED <<coder, payload, received, result>>

\* Missing shards are nil or empty (encoder.go:8).
Lose ==
    /\ phase = "encoded"
    /\ \E lost \in SUBSET Indices, empty \in SUBSET Indices :
        received' = [i \in Indices |-> IF i \notin lost THEN encoded[i]
                                       ELSE IF i \in empty THEN Empty ELSE Nil]
    /\ phase' = "received"
    /\ UNCHANGED <<coder, payload, encoded, result>>

Recover ==
    /\ phase = "received"
    /\ result' = IF coder = "xor" THEN XorRecover(received) ELSE RSRecover(received)
    /\ phase' = "recovered"
    /\ UNCHANGED <<coder, payload, encoded, received>>

CoderNext == Encode \/ Lose \/ Recover

CoderSpec == CoderInit /\ [][CoderNext]_coderVars

-----------------------------------------------------------------------------
(* Properties *)

Lost == {i \in Indices : IsGone(received[i])}

\* With XOR, whatever single shard is lost, data or parity, nil or empty, the
\* packet comes out as it was made, whatever its length: shorter than the
\* number of shards or no multiple of it.  With more losses Recover says so and
\* never makes data up; and only the empty packet is never sent, for padding makes
\* every other one into shards that Encode takes (xor.go:57-105,
\* udp-fec/client.go:194-217).
XorRestores ==
    /\ phase = "recovered" /\ coder = "xor" =>
        IF Cardinality(Lost) <= 1
        THEN result = encoded /\ Joined(result, payload.size) = payload
        ELSE result = Failed
    /\ phase = "skipped" => payload = Empty

-----------------------------------------------------------------------------
(* What the code and its documents say, and the program does not do *)

\* "Recover restores the missing shards (nil or empty)" (encoder.go:8): with one
\* parity shard, Reed-Solomon too brings back whatever single shard is lost
\* (reed_solomon.go:59-95).
RSRestores ==
    phase = "recovered" /\ coder = "reedSolomon" /\ Cardinality(Lost) <= 1 =>
        result = encoded
=============================================================================
