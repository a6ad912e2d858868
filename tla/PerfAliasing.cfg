CONSTANTS
    RingSize = 3
    QueueSize = 2
    MaxRecords = 7
    MaxErrors = 1
SPECIFICATION Spec
INVARIANT ConvertedAsSubmitted
