SPECIFICATION Spec
CONSTANTS
    WordSize = 2
    Calls <- AllCalls
    Answers <- Replies
    MaxQueries = 3
    NumberKeys <- Keys
INVARIANTS TextAsDefined PairsFound TemplateFilled PathsAgree InSync RowsInOrder
CHECK_DEADLOCK FALSE
