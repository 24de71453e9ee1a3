SPECIFICATION Spec
CONSTANTS
    MinArray = 2
    Prologue <- ShortArray
    Statements <- PushOnly
    MaxStatements = 1
    Shadows <- ShadowPairs
    Leftovers <- Anything
INVARIANT ElementsFit
CHECK_DEADLOCK FALSE
