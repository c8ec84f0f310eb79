\* An application that reports a failed startup and raises.
SPECIFICATION Spec
CONSTANTS
    Modes = {"auto"}
    MaxSends = 2
    MaxInterrupts = 0
INVARIANTS FailedIsFatal
\* The worker returns, fails, or joins a loop that nobody stops.
CHECK_DEADLOCK FALSE
