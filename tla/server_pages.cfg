SPECIFICATION PagesSpec
CONSTANTS
    Conns = {c1, c2}
    NoConn = NoConn
    Requests = {r1}
    Gateways = {}
    QueueSize = 2
    MaxSent = 2
    MaxVersion = 1
    MaxBreaks = 1
    MaxSessions = 1
    Timing = {}
    Hosts = {"a", "b"}
    Held <- MCHeld
    MaxClicks = 4
    Machines = {"m1", "m2"}
    Days = {1, 2}
    HeldBy <- MCHeldBy
    Locals = {"x"}
    NoFile = "none"
    Linked = "b"
    MaxLoads = 2
    MaxChoices = 2
    Recordings <- MCRecordings
    Budgets = {0, 1}
    MaxPicks = 2
    MaxEdits = 3
INVARIANTS
    BrowserIsUpToDate
    PanesFollowTheSelection
    ListsAreOfTheChoice
    OneRecordingShown
    RecordingsAreShownTrue
    ChartsAreTrue
PROPERTIES
    WaitsEnd
CHECK_DEADLOCK FALSE
