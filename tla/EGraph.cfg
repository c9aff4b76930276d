CONSTANTS
    Arity <- MCArity
    Patterns <- MCPatterns
    MaxIds = 4
    MaxUnions = 2
SPECIFICATION Spec
INVARIANTS
    MergesAreForced
    AnswersAreTheTermAsked
    RebuildRestores
    MatchersAgree
PROPERTY RebuildReturns
CHECK_DEADLOCK FALSE
