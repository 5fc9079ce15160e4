\* One destination, two producers: batching, retries, overflow and shutdown.
SPECIFICATION FairSpec
CONSTANTS
    l1 = l1
    p1 = p1
    p2 = p2
    Lanes = {l1}
    Healthy = l1
    Producers = {p1, p2}
    QueueCapacity = 2
    BatchEvents = 2
    BatchBytes = 6
    MaxAttempts = 2
    Envelope = 1
    MaxCalls = 4
    Size <- MCSize
    Unencodable = {}
INVARIANTS
    TypeOK
    Conservation
    ShutdownAccounts
    Batching
PROPERTIES
    ImplementsContract
    DeliveryEnds
