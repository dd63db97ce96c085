CONSTANTS
    Keys = {1, 2}
    Values = {1, 2}
    Workers = 2
    TotalPackets = 2
    NumLayers = 3
    RetryTTL = 1
    InitialInterval = 1
    MaxInterval = 50
    Multiplier = 2
    MaxAcks = 1
SPECIFICATION ClientSpec
INVARIANT AckErases
\* After Shutdown every goroutine has ended.
CHECK_DEADLOCK FALSE
