SPECIFICATION FairSpec
CONSTANTS
    Inputs <- McInputs
    TimeLimited = TRUE
CHECK_DEADLOCK FALSE
INVARIANTS
    TypeOK
    ReportsRespectRealTime
    ReportsReplay
PROPERTIES
    ImplementsCheckCall
    SearchReturns
