SPECIFICATION LiveSpec
CONSTANTS
    Cameras <- ThreeCameras
    CanaryCount = 1
    RingSize = 2
    MaxConcurrent = 1
    AbortPct = 10
    MaxAborts = 1
    MaxErrors = 0
    MaxCrashes = 0
PROPERTIES
    AbortStopsItems
CHECK_DEADLOCK FALSE
