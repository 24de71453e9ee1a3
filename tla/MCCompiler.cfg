SPECIFICATION Spec
CONSTANTS
    BcInitial = 9
    BcGrow = 8
    DoubleSize = 3
    MaxToken = 6
    MaxArguments = 3
    Alphabet <- Cells
    Programs <- All
INVARIANTS TypeOK InBounds CompiledAsWritten CocoonsLoaded OnBoundary ReadBack
PROPERTIES Compiles ImplementsEmission
CHECK_DEADLOCK FALSE
