\* Two reconnects, and reports that overflow the queue in one go or over two.
CONSTANTS
    MaxRetries = 2
    QueueCapacity = 2
    MaxReport = 3
    MaxFrames = 8
    KeepaliveIds = {7}
SPECIFICATION FairSpec
INVARIANTS NothingVanishes StatusTrue
PROPERTIES CancelStops ImplementsSource
