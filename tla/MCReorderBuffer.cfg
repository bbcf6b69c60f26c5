\* Six numbers, a buffer that overflows at four, a deadline of three ticks
\* and a flush every second tick.
SPECIFICATION FairSpec
CONSTANTS
    MaxNumber = 6
    Numbers <- MCNumbers
    MaxPackets = 4
    MaxDelay = 3
    FlushEvery = 2
INVARIANTS
    InOrder
    Accounted
    Bounded
    HeadGapBounded
    WaitBoundedPerGap
PROPERTIES
    ImplementsOrderedDelivery
    HeldEventuallyReleased
