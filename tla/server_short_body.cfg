CONSTANTS
    c1 = c1  c2 = c2
    Conns = {c1, c2}
    MaxConnections = 2
    Lines <- MCLines
    Revocable = {c2}
    Limit = 2
    NoLength = NoLength
    RecordLength = 1
    MaxReady = 1
    MaxWire = 1
SPECIFICATION Spec
INVARIANT StoredWhole
CHECK_DEADLOCK FALSE
