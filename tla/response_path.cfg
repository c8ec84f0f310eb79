\* Up to four chunks of a body, any number of messages without data, channels of two,
\* a GET and a HEAD.
SPECIFICATION FairSpec
CONSTANTS
    ResponseBound = 2
    MaxChunks = 4
INVARIANTS TypeOK RepollOnlyAfterFailure
PROPERTIES InOrder ChunksArrive OutcomeReported CallEnds SendReturns
\* The call ends: nothing more happens.
CHECK_DEADLOCK FALSE
