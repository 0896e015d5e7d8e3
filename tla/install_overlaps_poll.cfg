SPECIFICATION AppsSpec
CONSTANTS
    Flows = {"f"}
    Readouts = {"r"}
    Slots = 1
    MaxJobs = 2
    MaxOwn = 1
    MaxLost = 1
INVARIANTS InstallsNeverOverlap
CHECK_DEADLOCK FALSE
