CONSTANTS
    e1 = e1
    e2 = e2
    None = None
    Events = {e1, e2}
    Invalid = {}
    Unresolvable = {}
    Batch = 2
    Retry = 1
    Supervised = FALSE
    MaxCrashes = 0
    MaxSpoolFaults = 1
SPECIFICATION FairSpec
PROPERTIES EveryEventDelivered
\* The system may stop: all events handled and delivered, nothing to wait for.
CHECK_DEADLOCK FALSE
