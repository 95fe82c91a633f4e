\* A stream longer than its window, to a subscriber of either kind that arrives, stalls and
\* leaves at any moment, under fairness.
CONSTANTS
    Chunks = 3
    Window = 1
    Capacity = 1
    MaxPermits = 1
SPECIFICATION FairSpec
INVARIANT TypeOK
INVARIANT InOrder
INVARIANT DoneMeansAll
PROPERTY StreamEnds
PROPERTY SubscriberHears
\* A stream ends once.
CHECK_DEADLOCK FALSE
