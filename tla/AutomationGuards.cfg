SPECIFICATION Spec
CONSTANTS
    d1 = d1  d2 = d2  onNetwork = onNetwork  refresh = refresh  settle = settle
    recheck = recheck  reboot = reboot  havePort = havePort  poe = poe  escalate = escalate  end = end
    q1 = q1  q2 = q2  None = none  Invalid = invalid
    Devices = {d1, d2}
    Graphs <- OneAction
    Requests = {q1}
    FleetLimit = 1
    MaxRuns = 3
    MaxAdmin = 1
    MaxFaults = 1
SYMMETRY DeviceSymmetry
PROPERTIES
    CooldownHolds
    RateLimitHolds
