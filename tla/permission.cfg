SPECIFICATION FairSpec
CONSTANTS
    Users = {u1}
    Callers = {c1, c2}
    Levels = {3, 4}
    CacheTTL = 2
    FetchTimeout = 1
    Absent = Absent
INVARIANTS TypeOK CacheIsRecent
PROPERTIES AnswersAreRecent AnswersConverge
