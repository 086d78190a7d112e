SPECIFICATION Spec
CONSTANTS
    Families <- Enumerated
    MatcherLists <- Catalogue
    MayTimeOut = FALSE
CHECK_DEADLOCK FALSE
INVARIANTS
    TypeOK
    VerdictIsRight
    WitnessStillFails
    ConflictInWitness
    WitnessOneMinimal
    RealTimePrecedesUnreachable
    ConcurrentConflictIsDownstream
    BlockedPartFails
    LostUpdateNamesTwoWrites
    EachBugFiresItsPattern
