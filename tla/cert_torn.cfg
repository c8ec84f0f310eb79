\* Two workers renew at the same time; every file operation works, nobody else writes.
SPECIFICATION Spec
CONSTANTS
    w1 = w1
    w2 = w2
    Workers = {w1, w2}
    Acme = {w1, w2}
    Sni = {}
    Disturbances = {}
    MaxVersions = 3
    MaxStops = 0
INVARIANTS AtRestDiskMatches
\* Every pair may have been issued.
CHECK_DEADLOCK FALSE
