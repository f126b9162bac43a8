SPECIFICATION Spec
CONSTANTS
    d1 = d1  d2 = d2  d3 = d3  ping = ping  snmp = snmp
    Devices = {d1, d2, d3}
    Addrs = {a1, a2}
    Dims = {ping, snmp}
    None = none
    Swept <- PingAllSnmpOne
    Hardware <- CameraAndSwitch
    Configured = {ping}
    FailThreshold = 1
    OkThreshold = 1
    Window = 1
    MaxEdits = 0
    MaxCrashes = 0
    MaxTimeouts = 0
    MaxDbErrors = 1
PROPERTIES
    BlindNotHealthy
    ContestedRefused
