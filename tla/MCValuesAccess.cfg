SPECIFICATION Spec
CONSTANTS
    MinArray = 2
    Prologue <- Declarations
    Statements <- KeyOnly
    MaxStatements = 3
    Shadows <- ShadowPairs
    Leftovers <- Anything
PROPERTY ImplementsStore
CHECK_DEADLOCK FALSE
