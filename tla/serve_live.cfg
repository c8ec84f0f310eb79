\* Liveness: a TLS listener, whose loop does all a plain one does, two connections
\* to it, a quota of one.
SPECIFICATION FairSpec
CONSTANTS
    l1 = l1
    l2 = l2
    c1 = c1
    c2 = c2
    r1 = r1
    r2 = r2
    r3 = r3
    Listeners = {l2}
    TlsListeners = {l2}
    Conns = {c1, c2}
    Port <- TlsPort
    Reqs = {r1}
    MaxRequests = 1
    Causes = {"term", "orphan", "dead"}
    NoReq = NoReq
PROPERTIES RetiredShutsDown HeardShutdownCompletes LateListenerHeals
\* serve() returns and its tasks end: the worker does stop.
CHECK_DEADLOCK FALSE
