SPECIFICATION FairSpec
CONSTANTS
    Threads = {t1, t2}
    Nobody = Nobody
    Requests <- Mixed
    Home <- ServerHome
    DirnameModifies = TRUE
INVARIANTS
    TypeOK
    Framed
PROPERTIES
    FreedOnce
    Answered
