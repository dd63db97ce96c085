CONSTANTS
    Workers = {w1, w2}
    Bufs = {b1, b2, b3, b4}
    TotalPackets = 2
    JobsCap = 1
    OutputCap = 1
    OutputMade = TRUE
    MaxArrivals = 0
    NoBuf = NoBuf
    Bad = Bad
SPECIFICATION FairStreamSpec
INVARIANTS AckedOnce
PROPERTY EveryReadAcked
CHECK_DEADLOCK FALSE
