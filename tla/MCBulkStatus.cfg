CONSTANTS
    u1 = u1
    u2 = u2
    e1 = e1
    i1 = i1
    i2 = i2
    i3 = i3
    c1 = c1
    c2 = c2
    o1 = o1
    q1 = q1
    q2 = q2
    s1 = s1
    s2 = s2
    w1 = w1
    w2 = w2
    f1 = f1
    p1 = p1
    p2 = p2
    User <- MCUser
    Admin <- MCActor
    Login <- MCOther
    Nobody = Nobody
    Bootstrap <- u1
    Actor <- MCOneActor
    MaxFailed = 2
    Cooldown = 1
    MaxTime = 2
    Email <- MCEmail
    Invitation <- MCInvitation
    Inviter <- MCActor
    Guest <- MCOther
    Manual = Manual
    Nothing = Nothing
    MaxDays = 1
    Config <- MCConfig
    Recovery <- MCOther
    Otp <- MCOtp
    Request <- MCActor
    NoConfig = NoConfig
    NoCode = NoCode
    MaxActive = 1
    BatchSize = 1
    MaxStep = 1
    Server <- MCServer
    Reader <- MCActor
    NoServer = NoServer
    NoSnapshot = NoSnapshot
    NoLoad = NoLoad
    CacheTtl = 1
    MaxCommits = 2
    MaxInstant = 2
    Row <- MCRow
    Slug = Slug
    Fill <- MCFill
    Change <- MCActor
    NoEntry = NoEntry
    NoFill = NoFill
    NoChange = NoChange
    MaxVersion = 2
    Provider <- MCActor
    NoHolder = NoHolder
    NoWrite = NoWrite
    MaxIssued = 3
SYMMETRY Symmetry
SPECIFICATION Spec
CHECK_DEADLOCK FALSE
INVARIANTS
    StatusChangesInvalidate
