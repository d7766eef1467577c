SPECIFICATION FairSpec
CONSTANTS
    Workers = {w1, w2}
    Subscribers = {r1}
    Users = {u1}
    Nicks = {a, b}
    MaxMaps = 3
    NoNick = NoNick
INVARIANTS
    TypeOK
    NoNameMissed
    InitialAlone
PROPERTIES
    NamesArrive
