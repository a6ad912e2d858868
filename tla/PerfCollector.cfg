CONSTANTS
    RingSize = 3
    QueueSize = 2
    MaxRecords = 7
    MaxErrors = 1
SPECIFICATION FairSpec
INVARIANTS CollectorInv ConvertedInOrder
PROPERTIES EventuallySettled
\* The system may stop: the program has been stopped.
CHECK_DEADLOCK FALSE
