CONSTANTS
    Sizes = {1, 2}
    MaxSize = 1
    MaxTime = 1
    MaxChanges = 3
    MaxTroubles = 1
SPECIFICATION FairSpec
INVARIANTS FileInv OrphansAreFew SnapshotsAreSound QuietMeansCaptured ReadyMeansWorking
PROPERTIES EventuallyCaptured EndsWhenStopping
\* The system may stop: the process has ended and is not restarted.
CHECK_DEADLOCK FALSE
