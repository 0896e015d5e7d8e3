SPECIFICATION PagesSpec
CONSTANTS
    Flows = {"f"}
    Readouts = {"r"}
    Slots = 1
    MaxJobs = 2
    MaxOwn = 1
    MaxLost = 1
    Chunks = 2
    MaxChanges = 1
    MaxLate = 1
    Blocks <- MCBlocks
    OwnBlock <- MCOwnBlock
    Texts <- MCTexts
    Pastes <- MCPastes
    Devices = {"d1", "d2"}
    Lit = {"d1"}
    NoDevice = "none"
    Pins = {1, 2}
    DefaultPins <- MCDefaultPins
    MaxTries = 2
    MaxPolls = 2
    MaxTurns = 2
    Board = {"charge", "percent", "led", "button"}
    MaxValue = 1
    MaxEdits = 2
    MaxVisits = 1
    Profiles = {"p", "q"}
    ModeOf <- MCModeOf
    MaxActs = 3
    MaxLoads = 2
    Stale = 3
    Late = 1
    Errors = {1}
    MaxVersion = 2
    Wait = 1
INVARIANTS
    PagesTypeOK
    RerunsHaveAReason
    NeverOverlap
    TransfersAreWhole
    PagesAreTrue
    CardsAndLinesAreTrue
PROPERTIES
    RepliesAreEarned
    WaitsEnd
CHECK_DEADLOCK FALSE
