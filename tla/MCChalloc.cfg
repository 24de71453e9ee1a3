SPECIFICATION Spec
CONSTANTS
    NChunks = 2
    MaxAllocators = 3
    Foreign = {f1}
INVARIANTS
    TypeOK
    NoAlias
    Conservation
PROPERTIES
    GrowsOnlyWhenAllInUse
    ImplementsPool
