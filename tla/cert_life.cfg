\* Two workers, two rotations of either kind, one stop.
SPECIFICATION FairSpec
CONSTANTS
    w1 = w1
    w2 = w2
    Workers = {w1, w2}
    Acme = {w1, w2}
    Sni = {w2}
    Disturbances = {"io", "operator"}
    MaxVersions = 3
    MaxStops = 1
INVARIANTS TypeOK ServedPairMatches
PROPERTIES LoneInstallMatches RotationServed
\* Every worker may have stopped.
CHECK_DEADLOCK FALSE

