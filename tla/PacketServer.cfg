CONSTANTS
    Workers = {w1, w2}
    Bufs = {b1, b2, b3, b4}
    TotalPackets = 2
    JobsCap = 1
    OutputCap = 1
    OutputMade = TRUE
    MaxArrivals = 3
    NoBuf = NoBuf
    Bad = Bad
SPECIFICATION FairSpec
INVARIANTS TypeOK BufferInOnePlace LinesConserved AckAfterOutput
PROPERTY EveryJobAcked
CHECK_DEADLOCK FALSE
