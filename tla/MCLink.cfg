CONSTANTS
    c1 = c1
    c2 = c2
    c3 = c3
    Conns = {c1, c2, c3}
    NoLink = NoLink
    Openings <- MCOpenings
    ClientLimits = {1}
    Scenarios <- MCScenarios
    Talkers = {c1, c2, c3}
    MaxReplacements = 0
    MaxFrames <- MCFrames
    MaxKeepalives <- MCKeepalives
    MaxRetries = 1
    QueueCapacity = 1
    MaxReport = 1
    ClientFrames = 8
SPECIFICATION LinkSpec
INVARIANTS NeitherAtFault OneUnderWay ReadyIsServed
SYMMETRY MCSymmetry
