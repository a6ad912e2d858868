CONSTANTS
    e1 = e1
    e2 = e2
    None = None
    Events = {e1, e2}
    Invalid = {}
    Unresolvable = {e1}
    Batch = 2
    Retry = 1
    Supervised = TRUE
    MaxCrashes = 1
    MaxSpoolFaults = 1
SPECIFICATION FairSpec
PROPERTIES EveryEventDelivered RegistrationReturns
\* The system may stop: all events handled and delivered, nothing to wait for.
CHECK_DEADLOCK FALSE
