\* Two listeners (one TLS), a connection to each, three requests, quota one.
SPECIFICATION Spec
CONSTANTS
    l1 = l1
    l2 = l2
    c1 = c1
    c2 = c2
    r1 = r1
    r2 = r2
    r3 = r3
    Listeners = {l1, l2}
    TlsListeners = {l2}
    Conns = {c1, c2}
    Port <- TwoPorts
    Reqs = {r1, r2, r3}
    MaxRequests = 1
    Causes = {"quit"}
    NoReq = NoReq
SYMMETRY ReqSymmetry
INVARIANTS TypeOK InFlightCountsGuards GuardHasOwner NoConnectionOutlivesServe QuotaOvershoot
PROPERTIES KeepsContract
\* serve() returns and its tasks end: the worker does stop.
CHECK_DEADLOCK FALSE
