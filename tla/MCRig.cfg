\* Three clients, one more than the slots: one is refused, or comes when a slot is back.
CONSTANTS
    c1 = c1
    c2 = c2
    c3 = c3
    Conns = {c1, c2, c3}
    MaxConns = 2
    MaxReplacements = 2
SPECIFICATION FairSpec
INVARIANTS ServedWithinLimit AuditsTell ReturnTells
PROPERTY RunEnds
CHECK_DEADLOCK FALSE
