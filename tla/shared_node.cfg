SPECIFICATION Spec
CONSTANTS
    MAX_NODES = 24
    LEGACY_MAX_NODES = 12
    MAX_WINDOW = 128
    WINDOW_POOL = 128
    SweepCost = 68
    ScalarCost = 1
    Budget = 1500
    Programs <- MCPrograms
    Loads = {0, 2}
    Wrap = 16
    FirstTick = 13
    Strides = {1, 3}
    FALLBACK = 3
    MAX_PRESSES = 3
    MaxInputs = 3
    MaxReboots = 1
INVARIANTS
    GatesHoldTheirBlockOnly
CHECK_DEADLOCK FALSE
