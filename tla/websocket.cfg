\* Three events outwards, two frames inwards, a channel and a queue of one.
SPECIFICATION FairSpec
CONSTANTS
    WsChannelBound = 1
    WsQueueMaxsize = 1
    MaxSends = 3
    MaxFrames = 2
INVARIANTS TypeOK ReceiveOrder CloseLast
PROPERTIES OutInOrder InOrder SendReturns DriverEnds OutcomeSeen
\* A connection ends; the application may wait for a message that nobody sends.
CHECK_DEADLOCK FALSE
