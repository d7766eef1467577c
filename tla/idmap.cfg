SPECIFICATION Spec
CONSTANTS
    Ids <- MCIds
    Digits <- MCDigits
    Bases <- MCBases
    Ideals <- MCIdeals
    Sanitize <- MCSanitize
    MaxMangles = 4
    Threads = {t1, t2}
    NoSnowflake = NoSnowflake
INVARIANTS
    TypeOK
    Bijective
    PanicsOnlyOverlapped
    MangleLoopEnds
PROPERTIES
    ImplementsNameTable
    NoNameStolen
    NewNameResolves
SYMMETRY MCSymmetry
ACTION_CONSTRAINT AfterOverlap
