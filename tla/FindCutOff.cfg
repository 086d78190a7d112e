SPECIFICATION Spec
CONSTANTS
    Families <- Curated
    MatcherLists <- Catalogue
    MayTimeOut = TRUE
CHECK_DEADLOCK FALSE
INVARIANTS
    BlockedPartFails
