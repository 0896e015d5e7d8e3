SPECIFICATION Spec
CONSTANTS
    t1 = t1
    x1 = x1
    x2 = x2
    NoSession = NoSession
    Threads = {t1}
    Sessions = {x1, x2}
    MaxTime = 3
    MinDrainLag = 1
    Faults = {"latestop"}
PROPERTIES
    StartBeginsAFile
