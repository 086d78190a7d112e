SPECIFICATION Spec
CONSTANTS
    Families <- OnlyRegisters
    MatcherLists <- Catalogue
    MayTimeOut = FALSE
CHECK_DEADLOCK FALSE
INVARIANTS
    PhantomIsAtFault
