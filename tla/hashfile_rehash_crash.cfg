CONSTANTS
    k1 = k1
    k2 = k2
    k3 = k3
    Keys = {k1, k2, k3}
    Values = {"v"}
    Absent = Absent
    Torn = Torn
    Hash <- HashOf
    MinModulus = 1
    PerGroup = 1
    Doublings = 2
    Policies = {"Always"}
    MaxOutages = 1
SPECIFICATION Spec
INVARIANTS NeverSilentlyLost
