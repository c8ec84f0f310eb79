\* One feed is dropped while its put waits for room.
SPECIFICATION Spec
CONSTANTS
    QueueBound = 1
    Chunks = 2
    MaxPreempted = 1
INVARIANTS TerminalLast
\* The application may end, or wait for a message that nobody sends.
CHECK_DEADLOCK FALSE
