CONSTANTS
    w1 = w1  w2 = w2  r1 = r1  r2 = r2  a = a  b = b
    Events = {1, 2, 3}
    OccurredAt <- MCOccurredAt
    Writers = {w1, w2}
    Readers = {r1}
    Replicas = {a, b}
    Observed = a
    Queries = {"own", "alias"}
    OwnNames = {"own"}
    TTL = 1
    MaxEntries = 1
    PageLimit = 1
    MaxTime = 2
    MaxRead = 1
    MaxRequests = 2
    MaxFailures = 1
SYMMETRY MCSymmetry
SPECIFICATION Spec
INVARIANTS BackendInv NoWaitCycle StaleForTTL InvalidatedByAck PagingIsExact
\* The system may stop: no request comes, the client has read its last page.
CHECK_DEADLOCK FALSE
