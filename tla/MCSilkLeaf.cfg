SPECIFICATION FairSpec
CONSTANTS
    Programs <- Documented
    StackSize = 6
    ByteMod = 6
INVARIANT NoUndefined
PROPERTIES
    ImplementsLeaf
    CallLeavesOneResult
    SkippedCodeIsInert
    SkipEnds
