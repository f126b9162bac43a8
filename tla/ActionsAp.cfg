SPECIFICATION Spec
CONSTANTS
    Devices = {d1, d2}
    None = None
    Buttons = {"ap_reboot", "poe_cycle"}
    MaxVisits = 1
    MaxSelects = 1
    MaxClicks = 2
    MaxFaults = 1
INVARIANT PoeTargetsOwnPort
CHECK_DEADLOCK FALSE
