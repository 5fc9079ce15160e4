\* Two destinations that share the dispatcher; the second one may hang.
SPECIFICATION IsolationSpec
CONSTANTS
    l1 = l1
    l2 = l2
    p1 = p1
    Lanes = {l1, l2}
    Healthy = l1
    Producers = {p1}
    QueueCapacity = 1
    BatchEvents = 1
    BatchBytes = 6
    MaxAttempts = 2
    Envelope = 1
    MaxCalls = 3
    Size <- MCSize
    Unencodable = {3}
INVARIANTS
    KeysNameBatches
PROPERTIES
    Isolation
