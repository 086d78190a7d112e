SPECIFICATION Spec
CONSTANTS
    Families <- Curated
    MatcherLists <- Catalogue
    MayTimeOut = FALSE
CHECK_DEADLOCK FALSE
INVARIANTS
    GoingBackIsIllegal
