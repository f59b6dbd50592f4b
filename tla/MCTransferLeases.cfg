CONSTANTS
    s1 = s1
    c1 = c1
    c2 = c2
    r1 = r1
    t1 = t1
    t2 = t2
    t3 = t3
    Unlimited = Unlimited
    Shares <- MCShares
    Clients <- MCClients
    Resources <- MCResources
    LeaseTokens <- MCLeaseTokens
    MaxDownloads <- MCMaxDownloads
    UnlockSessionTTL = 1
    ShareExpires <- MCShareExpires
    TransferSessionTTL = 2
    LeaseMaxLifetime = 3
    MaxTime = 4
    \* TransferProgress
    StallTimeout = 2
    MaxQueueTime = 5
    LastInstant = 8
    Never = Never
    \* PreviewSessions
    PreviewTokens = {p1, p2, p3, p4, p5}
    PreviewShares <- MCShares
    PreviewPaths = {d1, d2}
    Owners <- MCClients
    SessionLimits <- MCSessionLimits
    Lifetime = 2
    NoPreview = NoPreview
    \* PreviewSessions: the preview page of a text
    PageRequests <- MCClients
    RenderBudget = 1
    MaxText = 3
    MaxPreviewSize = 5
    MaxRendered = 13
    PageBytes = 8
    PreviewChunk = 6
    NoPage = NoPage
SPECIFICATION MCSpec
SYMMETRY Symmetry
INVARIANTS
    DownloadLimit
    LeaseTablesSound
    BudgetExact
    PreviewsBounded
PROPERTIES
    CountedOnce
    ImplementsSlots
\* A finished request asks for nothing more.
CHECK_DEADLOCK FALSE
