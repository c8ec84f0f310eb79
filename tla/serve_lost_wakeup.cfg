\* A trigger before serve() or an accept loop is listening.
SPECIFICATION FairSpec
CONSTANTS
    l1 = l1
    l2 = l2
    c1 = c1
    c2 = c2
    r1 = r1
    r2 = r2
    r3 = r3
    Listeners = {l1}
    TlsListeners = {}
    Conns = {c1}
    Port <- SolePort
    Reqs = {r1}
    MaxRequests = 0
    Causes = {"term"}
    NoReq = NoReq
PROPERTIES ShutdownCompletes
\* serve() returns and its tasks end: the worker does stop.
CHECK_DEADLOCK FALSE
