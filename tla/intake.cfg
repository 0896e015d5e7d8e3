SPECIFICATION IntakeSpec
CONSTANTS
    t1 = t1
    x1 = x1
    x2 = x2
    NoSession = NoSession
    Threads = {t1}
    Sessions = {x1, x2}
    MaxTime = 4
    MinDrainLag = 1
    Faults = {"latestop", "diskfull"}
    MaxRough = 3
    MaxFrames = 5
    MaxEvents = 5
    Ring = 2
    MaxInAir = 2
    MaxAsked = 1
    Troubles = {"restart", "diskfull", "latereply"}
INVARIANTS
    RecordingsInOrder
    EventsAreAccountedFor
PROPERTIES
    FilesHoldTheirRecording
    WaitsEnd
