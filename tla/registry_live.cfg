SPECIFICATION FairSpec
CONSTANTS
    c1 = c1
    c2 = c2
    c3 = c3
    s1 = s1
    s2 = s2
    s3 = s3
    s4 = s4
    ta = ta
    tb = tb
    tc = tc
    ua = ua
    ub = ub
    Clients <- TwoClients
    Sessions <- ThreeSessions
    Users <- TwoUsers
    Tokens <- TwoTokens
    UserOf <- OwnUser
    RefMod = 4
    MaxLeaks = 0
    NoClient = NoClient
    NoToken = NoToken
    NoUser = NoUser
    NoSession = NoSession
PROPERTIES
    LoginAnswered
    DisconnectFinishes
