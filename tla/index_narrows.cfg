CONSTANTS
    k1 = k1  k2 = k2
    long1 = long1  long2 = long2  short = short
    cut = cut  whole = whole
    Keys = {k1, k2}
    Attrs = {0, 1}
    Values = {long1, long2, short}
    Entries = {cut, whole}
    IndexKey <- EntryOf
    Records <- TwoRecords
    Exclusions <- Dominant
    Archives <- BothKeys
    Absent = Absent
    Undefined = Undefined
    NoIndex = NoIndex
    NoState = NoState
    MaxVersion = 2
    MaxCommands = 4
    MaxFails = 1
    MaxKills = 1
SPECIFICATION Spec
SYMMETRY Symmetry
INVARIANTS Narrows  FlushSettles
CHECK_DEADLOCK FALSE
