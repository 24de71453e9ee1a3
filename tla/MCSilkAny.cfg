SPECIFICATION Spec
CONSTANTS
    Programs <- Legal
    StackSize = 4
    ByteMod = 4
INVARIANTS
    TypeOK
    BlockTable
