CONSTANTS
    w1 = w1  w2 = w2
    Workers = {w1, w2}
    Keys = {"k"}
    Values = {"u", "v"}
    Absent = "-"
    Copies = {1, 2, 3}
    None = 0
    MaxFlushes = 3
    MaxRequests = 3
    MaxEvictions = 1
    MaxFails = 1
    MaxForeign = 1
SPECIFICATION Spec
SYMMETRY Symmetry
INVARIANTS OneCopy NothingForgotten ConditionsHold
PROPERTY ActsAsOneFile
CHECK_DEADLOCK FALSE
