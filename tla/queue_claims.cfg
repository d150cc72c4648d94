CONSTANTS
    w1 = w1
    w2 = w2
    Workers = {w1, w2}
    Commands <- OnBoth
    Visibility = 1
    MaxDeliveries = 2
    Delay = 1
    PerTick = 1
    MaxKey = 2
    MaxNow = 2
    MaxEnqueues = 1
    MaxDrained = 3
    MaxFaults = 1
    HandKeys = {0, 1}
    MaxHandEdits = 1
SPECIFICATION Spec
SYMMETRY Symmetry
CONSTRAINT Bounds
INVARIANTS TypeOK Balanced ExclusiveClaims WithinLimit AtLeastOnce AckedStaysGone
PROPERTIES NotEarly
