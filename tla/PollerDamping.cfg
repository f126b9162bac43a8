SPECIFICATION LiveSpec
CONSTANTS
    d1 = d1  d2 = d2  d3 = d3  ping = ping  snmp = snmp
    Devices = {d1}
    Addrs = {a1}
    Dims = {ping}
    None = none
    Swept <- SweepAll
    Hardware <- CameraAndSwitch
    Configured = {ping}
    FailThreshold = 3
    OkThreshold = 2
    Window = 3
    MaxEdits = 1
    MaxCrashes = 2
    MaxTimeouts = 1
    MaxDbErrors = 0
INVARIANTS
    TypeOK
    RowIsSettled
PROPERTIES
    SettlesExactly
    RowDamped
    Converges
