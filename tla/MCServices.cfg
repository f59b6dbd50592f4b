CONSTANTS
    a1 = a1
    a2 = a2
    b1 = b1
    b2 = b2
    c1 = c1
    c2 = c2
    \* PublicTransfer
    Requests <- A
    Sessions <- B
    DownloadLimit = 1
    StreamLimit = 2
    ZipLimit = 1
    CleanupCapacity = 1
    Chunks = 1
    Nothing = Nothing
    \* Shares
    ShareIds = {1}
    Links <- A
    PasswordHashes <- B
    Visitors = {v1}
    ShareAdmins = {s1}
    Targets <- C
    MaxEpoch = 1
    NoRow = NoRow
    \* ResponseWork
    HttpRequests = {q1, q2, q3}
    HttpClients <- A
    ResponseLimit = 2
    StreamLimits <- MCStreamLimits
    BufferedLimits <- MCBufferedLimits
    MinimumChunks = 1
    NoRequest = NoRequest
    \* Server
    Sockets = {q1, q2, q3}
    Peers <- A
    MaxActive = 2
    MaxPerPeer = 1
    MaxHandshakes = 1
    Closed = Closed
    \* DirectoryCache
    Listings <- A
    Directories = {d1}
    FlightIds = {f1, f2, f3}
    SnapshotSizes = {1, 3}
    MaxSnapshotBytes = 2
    MaxCacheBytes = 3
    MaxMutations = 2
    None = None
    \* ZipArchive
    subdir = subdir
    top = top
    inner = inner
    special = special
    ZipRoot = ZipRoot
    ZipEntries = {subdir, top, inner, special}
    ParentOf <- MCParentOf
    KindOf <- MCKindOf
    NameLength = 1
    MaxLength = 2
    ZipSettings <- MCZipSettings
    DirectThreshold <- MCDirectThreshold
    ChunkBytes = 128
    ChannelChunks = 1
    \* StatusProbes
    Callers <- A
    AnswerTtl = 1
    NoAnswer = NoAnswer
    \* ServiceTokens
    Creations = {n1}
    Probes = {p1}
    TokenNames = {"n1", "n2", "n3"}
    MaxTokens = 2
    LastTokenId = 3
    MaxPasswords = 2
    NoToken = NoToken
SPECIFICATION MCSpec
SYMMETRY Symmetry
INVARIANTS
    TransferAccounted
    VisitorSeesPresentShare
    AdmissionBounded
    CacheSound
    ArchiveAsPlanned
    UseIsOwn
\* A finished request asks for nothing more.
CHECK_DEADLOCK FALSE
