CONSTANTS
    Workers = {w1, w2}
    Bufs = {b1, b2, b3, b4}
    TotalPackets = 2
    JobsCap = 1
    OutputCap = 1
    OutputMade = FALSE
    MaxArrivals = 2
    NoBuf = NoBuf
    Bad = Bad
SPECIFICATION FairSpec
PROPERTY EveryJobAcked
CHECK_DEADLOCK FALSE
