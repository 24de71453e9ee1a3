SPECIFICATION Spec
CONSTANTS
    Threads = {t1}
    Nobody = Nobody
    Requests <- ExampleOnly
    Home <- ServerHome
    DirnameModifies = TRUE
PROPERTY FilesBesideLeaf
