\* Every mode, two messages from the application, two SIGINTs.
SPECIFICATION FairSpec
CONSTANTS
    Modes = {"off", "auto", "on"}
    MaxSends = 2
    MaxInterrupts = 2
INVARIANTS TypeOK OnMeansReady ProtocolOrder ShutdownOffered
PROPERTIES StartupDecided TeardownJoins StopSurvives
\* The worker returns, fails, or joins a loop that nobody stops.
CHECK_DEADLOCK FALSE
