CONSTANTS
    p1 = p1
    p2 = p2
    Paths = {p1}
    Grace = 1
    Lag = 1
    MaxTime = 2
    MaxChanges = 2
    MaxMutations = 2
    MaxFaults = 1
    MaxAskFaults = 0
    MaxRestarts = 1
SPECIFICATION Spec
INVARIANTS PollingInv EditsAreReported
