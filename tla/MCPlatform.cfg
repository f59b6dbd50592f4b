CONSTANTS
    a1 = a1
    a2 = a2
    b1 = b1
    b2 = b2
    c1 = c1
    c2 = c2
    c3 = c3
    r1 = r1
    r2 = r2
    \* DatabaseAdmission
    Jobs <- MCJobs
    TransferJobs <- B
    PoolCapacity = 2
    QueueCapacity = 1
    CanBorrow = TRUE
    \* LoginLimiter
    LimiterKeys <- A
    Buckets = {1, 2}
    LimiterCapacity = 1
    MaxAttempts = 2
    Window = 2
    \* Accounts
    Admins <- A
    LoginTokens <- B
    Keys <- MCKeys
    LoginRequests = {r1, r2}
    TotpSteps = {1, 2}
    MaxChanges = 1
    Absent = Absent
    \* RuntimeSettings
    Updates <- A
    BaseUrls = {l1, l2}
    ConfigUrl = l1
    MaxServices = 3
    MaxPanics = 1
    Nobody = Nobody
    \* AuditTrail
    Observers <- B
    Passes <- A
    MaxAuditRows = 2
    BatchSize = 1
    TableLimit = 4
    Unset = Unset
    \* ShareListing
    LastShare = 5
    PageLimit = 1
    WindowFactor = 2
    MaxUpdates = 1
    \* DirectoryPages
    LastEntry = 4
    PageSize = 1
    ScanLimit = 3
    NoCursor = NoCursor
    \* AuditTrail: the pages of the trail
    LastEvent = 4
    ColumnValues = {1, 2}
    AuditPageSize = 2
    NoLink = NoLink
    \* InitialSetup
    Forms <- MCForms
    MaxSubmissions = 3
    Missing = Missing
    \* Keyring
    Services <- A
    Secrets = {x1, x2}
    FirstAdmin = x1
    MaxKeys = 3
    NoKeyring = NoKeyring
    NoSecret = NoSecret
    NoProcess = NoProcess
    \* UpdateControl
    MaxVersion = 2
    MaxRequests = 3
    NoUpdate = NoUpdate
SPECIFICATION MCSpec
SYMMETRY Symmetry
INVARIANTS
    AdmissionConsistent
    AttemptsLimited
    CredentialsConsistent
    SettingsAgree
    DeletedAddressesStayAway
    ListingsComplete
    ServedSetupConfirmed
    SecretsReadable
    UpdateStatusTrue
PROPERTIES
    RetentionSparing
\* A finished request asks for nothing more.
CHECK_DEADLOCK FALSE
