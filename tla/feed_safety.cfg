\* Three chunks, a queue of two, and up to two feeds that are dropped.
SPECIFICATION FairSpec
CONSTANTS
    QueueBound = 2
    Chunks = 3
    MaxPreempted = 2
INVARIANTS TypeOK ChunksOnce BoundedByPreemption
PROPERTIES InOrder DisconnectHeard
\* The application may end, or wait for a message that nobody sends.
CHECK_DEADLOCK FALSE
