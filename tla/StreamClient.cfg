\* Four packets over two generators: one id can arrive last and release a
\* batch of four into a channel of one, or of four, which never fills.
CONSTANTS
    Workers = 2
    TotalPackets = 4
    OutputCaps = {1, 4}
SPECIFICATION FairSpec
INVARIANTS TypeOK LinesInOrder CompleteMeansInserted
PROPERTY ClientEnds
\* The process ends.
CHECK_DEADLOCK FALSE
