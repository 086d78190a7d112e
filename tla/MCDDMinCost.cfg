SPECIFICATION CountingSpec
CONSTANTS
    Op <- AllOps
    Calls <- McCalls
    Answers <- AnyAnswer
    MaxLen = 10
CHECK_DEADLOCK FALSE
INVARIANTS
    QuadraticCalls
