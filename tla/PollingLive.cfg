CONSTANTS
    p1 = p1
    p2 = p2
    Paths = {p1, p2}
    Grace = 1
    Lag = 1
    MaxTime = 1
    MaxChanges = 2
    MaxMutations = 1
    MaxFaults = 1
    MaxAskFaults = 1
    MaxRestarts = 0
SPECIFICATION FairSpec
PROPERTIES EditsAreSettled
