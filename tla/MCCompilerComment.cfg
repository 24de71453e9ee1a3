SPECIFICATION Spec
CONSTANTS
    BcInitial = 9
    BcGrow = 8
    DoubleSize = 3
    MaxToken = 6
    MaxArguments = 3
    Alphabet <- Cells
    Programs <- NotedOnes
INVARIANT CompiledAsWritten
CHECK_DEADLOCK FALSE
