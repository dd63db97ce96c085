\* Three data shards and payloads of up to five bits: empty, shorter than the
\* number of shards, a multiple of it, and none of these.
CONSTANTS
    dataShards = 3
    MaxLength = 5
    Nil = Nil
    Failed = Failed
SPECIFICATION CoderSpec
INVARIANT XorRestores
\* A packet's way ends.
CHECK_DEADLOCK FALSE
