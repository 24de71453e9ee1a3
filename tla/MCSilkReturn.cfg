SPECIFICATION Spec
CONSTANTS
    Programs <- ReturnInIf
    StackSize = 6
    ByteMod = 6
PROPERTY ImplementsLeaf
