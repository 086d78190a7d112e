SPECIFICATION FairSpec
CONSTANTS
    Families <- Curated
    MatcherLists <- CatalogueOrNone
    MayTimeOut = TRUE
CHECK_DEADLOCK FALSE
INVARIANTS
    VerdictIsRight
    WitnessStillFails
    ConflictInWitness
PROPERTIES
    ExplainReturns
