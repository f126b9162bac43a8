SPECIFICATION Spec
CONSTANTS
    d1 = d1  d2 = d2  onNetwork = onNetwork  refresh = refresh  settle = settle
    recheck = recheck  reboot = reboot  havePort = havePort  poe = poe  escalate = escalate  end = end
    q1 = q1  q2 = q2  None = none  Invalid = invalid
    Devices = {d1}
    Graphs <- PoeOnly
    Requests = {q1}
    FleetLimit = 6
    MaxRuns = 1
    MaxAdmin = 1
    MaxFaults = 0
INVARIANTS
    NoRunForgotten
