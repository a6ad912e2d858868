CONSTANTS
    Hosts <- MCHosts
    Binaries <- MCBinaries
    Dirs <- MCDirs
    Args <- MCArgs
    CutArg <- MCCutArg
    NameLen <- MCNameLen
    MaxArgs = 3
    MaxLevel = 5
    MaxName = 4
    BufSize = 16
    ArgSize = 6
SPECIFICATION Spec
INVARIANTS PipelineInv CaptureIsFaithful EventsAreRight WorkIsReported
