CONSTANTS
    g1 = g1
    t1 = t1
    t2 = t2
    Jobs <- MCJobs
    TransferJobs <- MCTransferJobs
    PoolCapacity = 2
    QueueCapacity = 1
    CanBorrow = TRUE
    Fragments = {f1, f2}
    MaxPassFailures = 2
    Sockets = {q1, q2}
    Peers = {a1}
    MaxActive = 2
    MaxPerPeer = 1
    MaxHandshakes = 1
    Closed = Closed
    a = a
    b = b
    c = c
    f = f
    d1 = d1
    Names = {a, b, c}
    Files = {f}
    Dirs = {d1}
    Shares = {}
    NoEntry = NoEntry
    Home <- MCHome
    MaxOperations = 2
    MaxFaults = 1
    MaxExternal = 0
    MaxCrashes = 1
SPECIFICATION MCSpec
PROPERTIES
    AdmissionServed
    StaleFragmentsRemoved
    StoppedListenerEndsProcess
    StorageRecovers
\* Every request comes once, and a worker told to stop has stopped.
CHECK_DEADLOCK FALSE
