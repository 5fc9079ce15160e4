\* Four observations against a queue of two: one with the consumer, one to spare.
CONSTANTS
    QueueCapacity = 2
    MaxObservations = 4
SPECIFICATION FairSpec
INVARIANTS LossesTold ReadyAnswerHeld NothingOutlives
PROPERTY RunReturns
