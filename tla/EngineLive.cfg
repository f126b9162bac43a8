SPECIFICATION LiveSpec
CONSTANTS
    d1 = d1  d2 = d2  sourceDown = sourceDown  pingDown = pingDown  t1 = t1  t2 = t2
    Devices = {d1}
    Rules = {sourceDown}
    Threads = {t1, t2}
    None = none
    Dim <- SeededDim
    Cond <- SeededCond
    Scope <- FleetWide
    Contested = {}
    Batched = {}
    Live = TRUE
    MaxChanges = 2
    MaxOperator = 1
    MaxTimeouts = 1
    MaxCrashes = 1
    MaxSmtp = 1
PROPERTIES
    AlertsFollowState
