SPECIFICATION FairSpec
CONSTANTS
    Op <- AllOps
    Calls <- McCalls
    Answers <- McAnswers
    Exhaustive = 4
    Lengths = {0, 1, 2, 3, 5, 6, 7}
    Flaky = {4, 5}
CHECK_DEADLOCK FALSE
INVARIANTS
    TypeOK
    ChunksPartition
    OneMinimalResult
    SearchInv
PROPERTIES
    ImplementsMinimizer
    Termination
