CONSTANTS
    i1 = i1
    i2 = i2
    v1 = v1
    Link <- MCLink
    Bound <- MCBound
    Issuer <- MCIssuer
    Visitor <- MCVisitor
    Nobody = Nobody
    NoLink = 0
    MaxChanges = 1
    MaxRequests = 3
SPECIFICATION MCSpec
CHECK_DEADLOCK FALSE
INVARIANTS
    NewestStands
    LinkWaitsCross
    TypeOK
    OneWorker
    NoLostWake
    OrderedShutdown
PROPERTIES
    LoginsHaveAuthority
    TransactionsEnd
    PollingNeverDies
