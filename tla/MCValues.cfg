SPECIFICATION Spec
CONSTANTS
    MinArray = 2
    Prologue <- Declarations
    Statements <- Sound
    MaxStatements = 3
    Shadows <- ShadowPairs
    Leftovers <- Anything
INVARIANTS TypeOK Supplied CleanPath OneOwner TypesAgree ElementsFit Defined
PROPERTIES ImplementsStore NothingFreedTwice
