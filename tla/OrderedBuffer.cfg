\* Two values and ids 0..4 with the buffer starting at 1: id 0 is always stale,
\* and every arrival order of four ids, with repetitions, is covered.  A ring
\* of three slots: id 4 is beyond its window.
CONSTANTS
    Values = {v1, v2}
    StartID = 1
    MaxID = 4
    Size = 3
SPECIFICATION BothSpec
INVARIANTS TypeOK ReleasedInOrder WaitingExactly RingAgrees
PROPERTY ImplementsInOrderDelivery
