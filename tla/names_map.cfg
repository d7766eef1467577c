SPECIFICATION Spec
CONSTANTS
    Ids <- MCIds
    Digits <- MCDigits
    Bases <- MCBases
    Ideals <- MCBases
    Sanitize <- MCSanitize
    MaxMangles = 2
    UserTable = UserTable
    Tables = {nicks}
    Asked <- MCAsked
    NoName = NoName
    NoId = NoId
INVARIANTS
    TypeOK
    NicksResolve
    UsersResolve
