SPECIFICATION Spec
CONSTANTS
    d1 = d1  d2 = d2  sourceDown = sourceDown  pingDown = pingDown  t1 = t1  t2 = t2
    Devices = {d1}
    Rules = {sourceDown, pingDown}
    Threads = {t1}
    None = none
    Dim <- SeededDim
    Cond <- SeededCond
    Scope <- FleetWide
    Contested = {}
    Batched <- CameraStatus
    Live = TRUE
    MaxChanges = 3
    MaxOperator = 1
    MaxTimeouts = 0
    MaxCrashes = 0
    MaxSmtp = 1
INVARIANTS
    TypeOK
    NotifiedOnce
PROPERTIES
    OpensOnlyHeld
    IsAlertBook
