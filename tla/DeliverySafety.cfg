CONSTANTS
    e1 = e1
    e2 = e2
    None = None
    Events = {e1, e2}
    Invalid = {}
    Unresolvable = {}
    Batch = 2
    Retry = 1
    Supervised = FALSE
    MaxCrashes = 1
    MaxSpoolFaults = 1
SPECIFICATION Spec
INVARIANTS DeliveryInv NoAcceptedEventLost StoredAtMostOnce TrueMeansStored PostedIsPending
PROPERTIES DeliveryIsFaithful
\* The system may stop: all events handled and delivered, nothing to wait for.
CHECK_DEADLOCK FALSE
