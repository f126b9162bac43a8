SPECIFICATION LiveSpec
CONSTANTS
    d1 = d1  d2 = d2  onNetwork = onNetwork  refresh = refresh  settle = settle
    recheck = recheck  reboot = reboot  havePort = havePort  poe = poe  escalate = escalate  end = end
    q1 = q1  q2 = q2  None = none  Invalid = invalid
    Devices = {d1}
    Graphs <- CameraThenPoe
    Requests = {q1}
    FleetLimit = 6
    MaxRuns = 2
    MaxAdmin = 2
    MaxFaults = 1
INVARIANTS
    TypeOK
    OneRunPerDevice
    ShadowIsSilent
PROPERTIES
    ReleasedByDecision
    ParkedRunsMoveOn
