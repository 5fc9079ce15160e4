\* A cancellation just after the overflow hides it.
CONSTANTS
    MaxRetries = 2
    QueueCapacity = 2
    MaxReport = 3
    MaxFrames = 8
    KeepaliveIds = {7}
SPECIFICATION Spec
INVARIANT OverflowFailsTheRun
