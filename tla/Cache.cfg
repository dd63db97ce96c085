SPECIFICATION FairSpec
CONSTANTS
    Keys = {k1, k2, k3}
    MaxNodes = 3
    TTL = 1
    CustomTTLs = {0}
    Buf = 1
    Workers = {w1}
INVARIANTS TypeOK ListIsMap NodesConserved
PROPERTIES QueuedIsFinalized ExpiredGoes
CHECK_DEADLOCK FALSE
