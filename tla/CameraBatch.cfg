SPECIFICATION LiveSpec
CONSTANTS
    Cameras <- SixCameras
    CanaryCount = 2
    RingSize = 3
    MaxConcurrent = 2
    AbortPct = 50
    MaxAborts = 1
    MaxErrors = 2
    MaxCrashes = 1
INVARIANTS
    TypeOK
    RunningHasTask
    DoneIsComplete
PROPERTIES
    IsStagedRoll
    EveryRunEnds
CHECK_DEADLOCK FALSE
