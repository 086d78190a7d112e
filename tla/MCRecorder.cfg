SPECIFICATION Spec
CONSTANTS
    Clients = {0, 1}
    OpsPerClient = 2
    Grain = 2
    MayTimeOut = FALSE
CHECK_DEADLOCK FALSE
INVARIANTS
    TypeOK
    IdsAreDistinct
    NoReadFromTheFuture
    HistoryIsWhatRan
    TruncationRelaxesOrder
    NoFalseAlarm
    OnlyStaleness
