CONSTANTS
    TotalPackets = 2
    Generators = 1
    DataShards = 1
    NumLayers = 2
    RetryTTL = 1
    InitialInterval = 1
    MaxInterval = 50
    Multiplier = 2
    Workers = {w1, w2}
    JobsCap = 1
SYMMETRY WorkerSymmetry
SPECIFICATION Spec
INVARIANTS OneLineEach OkIsTrue HeldIsAnswered
\* Everything may be sent, answered and closed.
CHECK_DEADLOCK FALSE
