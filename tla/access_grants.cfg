CONSTANTS
    c1 = c1  c2 = c2  a1 = a1  a2 = a2  n1 = n1  n2 = n2  m1 = m1  m2 = m2
    Conns = {c1, c2}
    Accounts = {a1, a2}
    Names = {n1, n2, m1, m2}
    GivenNames = {n2}
    MigratedName <- MCMigratedName
    FirstClients <- MCFirst
    Grants <- MCGrants
    Keys = {1, 2}
    EditedKeys = {1}
    FirstRecords <- MCRecords
    ListNames = {"DEFAULT"}
    Batches = {1}
    None = None
    MaxChanges = 2
    CertsFail = FALSE
SPECIFICATION Spec
INVARIANTS GrantWasHeld EveryEntryOnce  
PROPERTY Confined
CONSTRAINT Bounds
VIEW View
