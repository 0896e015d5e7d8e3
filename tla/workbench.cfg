SPECIFICATION PagesSpec
CONSTANTS
    MAX_NODES = 24
    LEGACY_MAX_NODES = 12
    MAX_WINDOW = 128
    WINDOW_POOL = 128
    SweepCost = 68
    ScalarCost = 1
    Budget = 1500
    Programs <- MCPrograms
    Loads = {0, 2}
    Wrap = 16
    FirstTick = 13
    Strides = {1, 3}
    FALLBACK = 3
    MAX_PRESSES = 3
    MaxInputs = 3
    MaxReboots = 1
    Sources = {"a", "b", "x"}
    Package <- MCPackage
    Template = "a"
    MaxDrafts = 2
    MaxTyped = 1
    MaxVisits = 1
    Turn = 8
    MaxFrames = 8
    MaxResets = 1
    MaxRestarts = 1
    Batch = 4
    Rise = 3
    Fade = 2
    Naps = {1, 3, 7}
    MaxTime = 9
    Levels = {1, 2}
    Sensors = {3, 4}
    Profile <- MCProfile
    PartialSave = FALSE
    MaxClicks = 3
    MaxFaults = 1
    LevelsOf <- MCLevelsOf
    Samples = 2
    Overs = 1
    Cycles = 1
    MaxTicks = 3
    MaxRuns = 2
    MaxMisses = 1
    Titles = {"", "p", "new"}
    Places = {1, 2}
    MaxSensors = 2
    MaxJobs = 1
    MaxChanges = 4
INVARIANTS
    PagesTypeOK
    CompiledIsAccepted
    InputsAreCounted
    BorrowedIsGivenBack
    AnswersAreForTheirSubject
    PicturesAreTrue
PROPERTIES
    AppsRunAsWritten
    StoredStays
CHECK_DEADLOCK FALSE
