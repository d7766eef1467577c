SPECIFICATION Spec
CONSTANTS
    c1 = c1
    c2 = c2
    c3 = c3
    s1 = s1
    s2 = s2
    s3 = s3
    s4 = s4
    ta = ta
    tb = tb
    tc = tc
    ua = ua
    ub = ub
    Clients <- ThreeClients
    Sessions <- FourSessions
    Users <- OneUser
    Tokens <- TwoTokens
    UserOf <- SharedUser
    RefMod = 4
    MaxLeaks = 1
    NoClient = NoClient
    NoToken = NoToken
    NoUser = NoUser
    NoSession = NoSession
INVARIANTS
    TypeOK
    RefsOneShort
    NoOtherLeak
    LockHolder
    PanicsOnlyRejoined
PROPERTIES
    HandedOutOpen
    ImplementsSharedSessions
SYMMETRY ObjectSymmetry
CHECK_DEADLOCK FALSE
