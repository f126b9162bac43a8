SPECIFICATION ConsoleSpec
CONSTANTS
    Subjects = {s1, s2}
    MaxFlight = 2
    MaxVisits = 2
    MaxSelects = 2
    MaxFails = 1
    MaxChanges = 1
    MaxActs = 1
    Workflows = {w1, w2}
    MaxClicks = 3
    Cameras = {cam}
    Images = {i1, i2}
    MaxBatches = 2
    MaxButtons = 3
    MaxTicks = 1
    Links = {linkA, linkB}
    Initial = {linkA, linkB}
    Bare = {linkB}
    MaxPolls = 1
    MaxRefetches = 1
    MaxWrites = 1
    MaxEdits = 1
    MaxToggles = 1
    MaxTabs = 1
    Devices = {d1, d2}
    Buttons = {"reevaluate_access", "restart_port"}
    MaxPresses = 1
    MaxFaults = 1
    None = None
    Blank = Blank
    Any = Any
    Asked = Asked
INVARIANTS
    TypesOK
    ShowsSelected
    SavesOwnGraph
    NeverLiveUnasked
    LiveIsRehearsed
    PathsStayHome
    FormIsOwnOnceLoaded
    EditedLineIsDrawn
    ActsOnOwn
    AuditTellsTruth
    ButtonTellsTruth
PROPERTIES
    HealsAfterFailure
    CatchesUp
    PathEditsSurvive
    MapConverges
    WorkingEnds
CHECK_DEADLOCK FALSE
