CONSTANTS
    s1 = s1
    g1 = g1
    g2 = g2
    k1 = k1
    a1 = a1
    a2 = a2
    v1 = v1
    x1 = x1
    x2 = x2
    o1 = o1
    Absent = Absent
    Session <- MCSession
    Grant <- MCGrant
    Client <- MCClient
    ClientOf <- MCClientOf
    Art <- MCArt
    Visit <- MCVisit
    Exchange <- MCExchange
    Logout <- MCLogout
    MaxRevocations = 1
SYMMETRY Symmetry
SPECIFICATION Spec
CHECK_DEADLOCK FALSE
INVARIANTS
    TypeOK
    TrackedBeforePublished
    DeadSessionsStayDead
    RevokedGrantsAreDead
    RedeemedOnce
