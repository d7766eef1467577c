SPECIFICATION Spec
CONSTANTS
    Logins = {s1, s2}
    Guilds = {g1}
    Capabilities <- MCCapabilities
    NoSession = NoSession
    NoGuild = NoGuild
INVARIANTS
    TypeOK
    NotForgotten
    ServesSession
    WelcomedOnce
