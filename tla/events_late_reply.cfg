SPECIFICATION EventsSpec
CONSTANTS
    MaxFrames = 4
    MaxEvents = 2
    Ring = 2
    MaxInAir = 2
    MaxAsked = 1
    Troubles = {"latereply"}
INVARIANTS
    WrittenOnce
