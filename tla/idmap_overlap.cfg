SPECIFICATION InsertSpec
CONSTANTS
    Ids <- MCTwoIds
    Digits <- MCDigits
    Bases <- MCCleanBases
    Ideals <- MCCleanIdeals
    Sanitize <- MCCleanSanitize
    MaxMangles = 4
    Threads = {t1, t2}
    NoSnowflake = NoSnowflake
INVARIANTS
    NamesDistinct
