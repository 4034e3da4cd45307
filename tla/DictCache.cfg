SPECIFICATION FairSpec
CONSTANTS
    Dicts = {d1, d2}
    Codes = {c1, c2}
    Readers = {q1}
    Writers = {w1}
    NoCode = NoCode
    NoDict = NoDict
    CacheTTL = 2
    RedisMayFail = TRUE
    MaxChanges = 2
INVARIANTS TypeOK ClearIsComplete
PROPERTIES EventuallyFresh
