CONSTANTS
    s1 = s1
    t1 = t1
    t2 = t2
    t3 = t3
    Shares <- MCShares
    Tokens <- MCTokens
    TotalLimits <- MCTotalLimits
    FileLimits <- MCFileLimits
    ShareExpires <- MCShareExpires
    MaxSqliteUnsigned = 2
    MaxDirectories = 1
    ReservationTTL = 1
    MaxTime = 2
    MaxEpoch = 2
    MaxRequest = 2
    \* PublicUpload
    Uploads = {u1}
    Folders <- MCTokens
    MaxUploadSize = 3
    ShareQuota = 3
    ReservationSteps <- MCReservationSteps
    ChunkSizes = {1}
    MaxFields = 4
    MaxShareChanges = 1
    CleanupCapacity = 1
    Null = Null
    \* AdminUpload
    AdminUploads = {a1}
    MaxFolders = 2
    MaxConcurrent = 1
    NoUpload = NoUpload
    \* UploadReplay
    Directories = {d1}
    Absent = Absent
    \* DiskSpace
    Writers = {w1, w2}
    MaxFree = 3
    WriteSizes = {1}
    StorageReserve = 1
    TempReserve = 1
    SuccessTtl = 2
    ErrorTtl = 1
    NoValue = NoValue
    ProbeFailed = ProbeFailed
    Running = Running
    \* MultipartScanner
    Boundary <- MCBoundary
    OtherBytes = {"x"}
    MaxPreamble = 2
    MaxHeader = 2
SPECIFICATION MCSpec
SYMMETRY Symmetry
INVARIANTS
    Quotas
    UploadAsPromised
    AdminUploadTruthful
    ReplayAgrees
    SpaceAccounted
    MatcherExact
PROPERTIES
    NoChargeAfterRevocation
\* A finished request asks for nothing more.
CHECK_DEADLOCK FALSE
