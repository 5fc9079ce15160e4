CONSTANTS
    c1 = c1
    c2 = c2
    c3 = c3
    Conns = {c1, c2, c3}
    Openings <- MCOpenings
    ClientLimits = {1, 2}
    Scenarios <- MCScenarios
    Talkers = {c1}
    MaxReplacements = 1
    MaxFrames <- MCFrames
    MaxKeepalives <- MCKeepalives
SPECIFICATION FairSpec
INVARIANTS Reproducible Occupancy
PROPERTIES AckedIsKept CancelStops
CHECK_DEADLOCK FALSE
