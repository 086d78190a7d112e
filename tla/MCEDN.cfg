SPECIFICATION Spec
CONSTANTS
    Tokens <- McTokens
    MaxTokens = 6
CHECK_DEADLOCK FALSE
INVARIANTS
    ParsesTheGrammar
