SPECIFICATION FairSpec
CONSTANTS
    i1 = i1
    i2 = i2
    r1 = r1
    r2 = r2
    r3 = r3
    a = a
    b = b
    None = None
    Ids = {i1}
    Requests = {r1, r2}
    Contents = {a, b}
    OpOf <- MCOpOf
    ContentOf <- MCContentOf
    MaxUnusedPerScope = 1
    MaxUnusedGlobal = 1
    MaxAllPerScope = 1
    MaxAllGlobal = 1
    DatabaseErrors = FALSE
    MaxCrashes = 1
PROPERTY Settles
