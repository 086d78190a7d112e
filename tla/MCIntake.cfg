SPECIFICATION Spec
CONSTANTS
    Clients = {c1, c2}
    c1 = c1
    c2 = c2
    Kinds = {"read", "write", "cas"}
    Initial = 9
    MaxOps = 3
    Resolution = 2
    Fronts = {"jepsen", "porcupine", "builder"}
    Taggings <- McTaggings
SYMMETRY McSymmetry
CHECK_DEADLOCK FALSE
INVARIANTS
    TypeOK
    HistoryIsWhatCompleted
    OpsArePairs
    RefusedForAReason
    MadeIsValid
    NoFalseAlarm
